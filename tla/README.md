# LibRedex in TLA+

LibRedex (`src/Redux Extension/`) is the native extension of a game server mod.
The game calls the library with a function name and arguments; the library
runs it, at once or on a pool of worker threads, mostly as SQL statements
against a MySQL database that holds the mod's characters, objects, clans and
worlds, and hands the result back in pieces that fit the game's buffer.

This directory holds the TLA+ modules that model it, the TLC configurations that
check them on small instances, and proofs, checked by TLAPS, of what should hold
on all instances. `PROJECT.json` lists the components, the runs, the mutations
each property is known to catch, the source lines of every definition, the
hazards, the findings and the theorems.

All line numbers below are those of `src/Redux Extension/Source/`.

## 1. Inventory

| Component | Source | State | Operations |
|---|---|---|---|
| Entry points | `main.cpp` | `callbackPtr`, the one `redex` object | `RVExtensionArgs` (catches every exception), `RVExtensionRegisterCallback`, `RVExtensionVersion`, unload |
| Dispatcher and message store | `redex.cpp` | `msgmap` (uuid -> queue of strings) under `msgmutex`, the function table | SYNC, ASYNC, CALLBACK and QUIET calls; `asyncCallProcessor`, `rcvmsg`, `rcvasmsg`, `chkmsg` |
| Multipart answers | `redex.cpp:317-359` | objects in `msgmap` | cut an answer into a head and pieces |
| Workers and life cycle | `redex.cpp:28-162` | `REDEXioService`, its idle work, `asyncthreadpool` | constructor (with and without a config file), `termall`, destructor |
| Connection pool | `mysql.cpp:357-621` | `connectionpool` (lock-free), `poolinitialized`, `poolcleanup` | `initdb`, `getconnection`, `returnconnection`, a failing query, `termdb` |
| Schema and world | `mysql.cpp:689-893`, `mysql/migration/` | the tables, their columns, `world.schema_version`, the world's variables | `checkMigration`, `checkWorldUUID`, `checkWorldVARIABLES` |
| Characters | `mysql.cpp:1365-1789` | six tables, `charactercache` of each server | `linkChars`, `loadChar`, `createChar`, `updateChar`, `killChar`, `loadAvChars` |
| Objects | `mysql.cpp:1791-2121` | tables, `objectcache` of each server | `loadObject`, `createObject`, `updateObject`, `killObject`, `dumpObjects`, an object's links to worlds |
| Clans | `mysql.cpp:2123-2555` | `clan`, `clan_member`, `player.mainclan_uuid` | `createClan`, `updateClan`, `addClanPlayer`, `deleteClanPlayer`, `updatePlayerMainClan`, `updateClanPlayer`, `getClan` |
| Players | `mysql.cpp:1072-1363` | `player`, whitelist | `loadPlayer`, `logoutPlayer`, `incrementPlayerStats`, groups, whitelist |
| World state | `mysql.cpp:974-1070` | variables of a world | `setWorldVariables`, `getWorldVariables`, `setWorldState`, `getLinkedWorlds` |
| Data cells, binds, arguments | `mysql_binds.cpp`, `datacache/`, `extbase.hpp` | buffers of a cached row | `setData`, `setNull`, `getUUID` |
| File access | `fileio/` | `readlist`, `writelist` | read once, write, append, search for config files, terminate |
| Random lists | `randomlist/` | a map of weighted lists | add, draw |
| REST server | `rest/` | one thread | start, hand a request to the callback, terminate |
| Date, uuid, logger, test applications | | none | |

**Who talks to whom.** One game thread makes every call. The dispatcher posts
jobs to the io_service; workers run them and meet the game thread in `msgmap`,
in the connection pool and in the caches. Workers meet each other in the
database, where every statement is a transaction of its own, and so do the
servers of several worlds, each a process with caches of its own. `initdb`,
`termdb` and `termall` run on the game thread, while the workers go on.

**What is hard.**

* *Locks that are given up early.* `rcvmsg` and `rcvasmsg` use an iterator of
  `msgmap` after they have unlocked `msgmutex`.
* *Sequences of statements without transactions*, each reading what the next
  relies on: names of clans, main clans, live characters, the schema.
* *Caches that nobody invalidates*, keyed by the spelling of a uuid, and
  updates that write a whole cached row.
* *Failures halfway*: a call that throws leaves what it did, a query that fails
  keeps its connection, a script of many statements may stop in silence, a
  process may die between two statements.
* *Waiting without a bound*: `termall` spins on the io_service, `getconnection`
  on the pool.
* *Boundaries*: the room in the buffer, the nodes of the lock-free queue,
  the sizes of the cells.

**What makes each part correct.**

* Dispatcher: a result is stored once under its ticket; each of its characters is
  received once, however it is cut and fetched; the receiving calls are atomic;
  `termall` returns, and not before all posted jobs are done.
* Pool: a connection has one user; none is lost by the queue; a thread waits
  only when all are in use, and not for ever.
* Schema: whatever was broken off before, a start that succeeds leaves the whole
  schema, the recorded version stands for it, and starting again works.
* Characters: one live character per player and world; a cache that is wrong
  only for a reason; updates go to the rows that reads come from; gear is
  never shared with the dead.
* Clans: a main clan and an owner are backed by a membership; names are unique.
* Objects: an object that died in a world stays dead there; the cache differs
  from the table only for a reason; an update arrives; no row is left without a world.
* Players and worlds: one identity per player in all answers, no second of play
  counted twice, one set of variables per world.
* Files: what is answered as written is in the file, up to the first failure.
* REST server: `termall` and the unloading stop and join its thread.

## 2. Modules

    Mailbox         <--implements--  Redex         RedexProofs
                                     ConnPool      ConnPoolProofs
                                     Clan          ClanProofs
                                     Migration     MigrationProofs
                                     CharStore     CharProofs
                                     WorldStore    WorldProofs
    ObjectRegistry  <--implements--  ObjectStore   ObjectProofs
    Service  = Redex  + ConnPool     the workers' jobs query the database;
                                     shown to implement either part in the
                                     proof module of that part
    Modules  = FileIO + RestServer   over the life of the library; ModulesProofs
    MC...                            constants for TLC

`Service` and `Modules` compose two parts: their variables are those of both,
and an action of theirs is an action of one part with the other unchanged, or of
both where the code does both. `Modules` instantiates its parts. `Service`
extends `ConnPool` and instantiates `Redex` as `R`, because both have an `Init`,
a `Next` and a `TypeOK`: so `ConnPoolProofs` can extend it, and its names of
its own begin with `Service` where the parts have the plain ones.

A definition whose comment says *faulty variant* is not part of any
specification. It is a plausible bug in the definition that follows it, kept to
show that a property notices it.

### Redex and Mailbox

`Redex` is the dispatcher: the game thread (`gpc`), the workers (`wpc`, `wjob`),
the io_service (`jobs`, `work`, `stopped`) and the message store (`msgmap`). A
section under `msgmutex` is one step; the use of an iterator after the unlock is
a step of its own (`Find`, then `Copy`, `Pop` or `Exhausted`, then `Erase`).

| Action | Code |
|---|---|
| `Post`, `Sync`, `Throw` | `processCallExtension` (redex.cpp:164-253), `RVExtensionArgs` (main.cpp) |
| `Dispatch`, `Call`, `Store`, `Callback`, `Finish`, `Exit` | `io_service::run`, `asyncCallProcessor`, `callbackCallProcessor` |
| `Find`, `Copy`, `Pop`, `Exhausted`, `Erase`, `Chkmsg` | `rcvasmsg`, `rcvmsg`, `chkmsg` |
| `Return`, `Split` | the test for the buffer's size (redex.cpp:208), `multipartMSGGenerator` |
| `Terminate`, `Stopped`, `Join`, `Destroy`, `Unloaded` | `terminate`, `~redex` |

A result is abstracted to its length and a piece to the interval of characters
it carries, because the properties are about which characters arrive. Each quote
among the first characters costs one more, so the length of a head is any number
up to what the overhead leaves. boost::asio is external: `stop()` happens by
itself when no work is left. `Init` has both a library with and one without its
config file, which starts no thread (redex.cpp:85-90).

`Mailbox` says what the store promises: `Put`, `Fetch`, `Finish`, `Take`, `Look`
and `Overflow` each happen at one instant, and an overflowing answer is tiled by
its head and its pieces. `Redex` implements it (`Atomic`).

### ConnPool

The pool, the nodes it may use (`capacity`), the threads between `getconnection`
and `returnconnection` (`pc`, `held`), the connections the server knows (`open`)
and those that failed queries kept (`leaked`). `initdb` is `StartInit`, then for
each connection `Connect` and `PushNew`; after the first one come the queries of
the checks. It may throw at each of them (`InitThrows`, `Fail`) and is then called again.
`termdb` is `StartTerm`, `Close`, `EndTerm`, interleaved with the workers.
`boost::lockfree::queue` is external: `bounded_push` takes a node from a store that
only `reserve()` enlarges.

### Clan

A call is a record `[op, clan, player, name, form]`; a worker goes through the
call's statements (`Owner`, `Unique`, `ClanExists`, `IsMember`, `ReadMain`,
`InsertClan`, `InsertMember`, `Founder`, `Rename`, `Delete`, `SetMain`, `Unset`),
each one step, and may be thrown out at each of them (`Throw`). Keys and foreign
keys are guards. A name is a word with a spelling, for `LOWER()`; a uuid is
written in one of two forms, for the comparison at mysql.cpp:2514. `removed`,
`torn`, `late` and `raced` are history.

### CharStore

The characters of one player on the servers of several worlds. A character has
three parts, each a row of a table: where he is, his gear, and the variables
that survive him; the gear's row names its variables, and the character's its gear.
`cache` is each server's `charactercache`, whose key is a uuid and its
spelling. Statements are steps, with the work on the cache that follows them.

* The server of the passing run has one worker (`poolsize=1` in the config).
  With more the std::map is used without a lock, which is undefined; the second
  run has two workers for the one property where the map plays no part.
* `loadChar`'s SELECT and the filling of the entry are one step: with one worker nobody
  else uses that server's cache in between. What is proved of the cache
  assumes `OneWorker` for the same reason. The INSERT of killinfo is part of
  `StartKill`: no property looks at it, only that a call begins there and may fail.
* `LoadBreaks` is a `loadChar` that finds a NULL in a column of numbers: `setData`
  of an empty text throws (mysql.cpp:1470, charactermysql.cpp:189-205) when the entry is
  in the cache already. A new one stays without its keys (`Unfilled`), and a later
  `updateChar` finds it. `Numberless` are the contents with such a NULL; a character
  made by a `createChar` without the numbers has one.
* `updateChar` looks for its entry with the stripped uuid (extbase.hpp:89) and then writes
  its arguments into the entry as they came, the uuids of the rows among them
  (mysql.cpp:1695, charactermysql.cpp:40, 48, 51). `Named` are the uuids that
  may stand there afterwards, each taken for what `UNHEX()` makes of it: the right
  one, none (a uuid with separators), or any row of that table. `astray` is history: the parts whose
  uuid was replaced so, or never filled. For them `OwnRows` promises nothing.
* The fourth UPDATE of `updateChar` (the vehicle and the objects in it), texts
  of 64 KB and more, and `loadAvChars`, which only reads, are left out.
* `OwnRows` also assumes that no world is linked to the variables of two
  (`OneLink`), which `linkChars` can do if the game asks for it.

### Migration

Several servers, each with a world of its own, start on one database that is new
or was made by an older version. Each SQL statement is a step, those of the
scripts included. `rawmultiquerys` throws only for the first statement of a
script: an error of a later one (`Skip`, or a refused ALTER) skips the rest in
silence. A server may die or throw at each step (`Break`). `columns` follows the
columns that migration 0001 drops and adds, `widened` the statements of 0002.

Left out: the foreign key that an ALTER of the tables' script adds to `clan`
(fulltables.hpp:96-98; done twice, it is added twice), the contents of the variables, two `initdb` calls for one world
at the same time, and `FOREIGN_KEY_CHECKS=0` on a connection that goes back.

### ObjectStore and ObjectRegistry

The tables `object` (`rows`) and `world_has_objects` (`link`), each server's
`objectcache`, and the calls on them. Several workers of one server share its
cache; `updateObject` is two steps, its arguments into the cached object
(`Update`) and the whole of that object into the row (`Write`), and
`loadObject` two others, its SELECT (`Load`) and the filling of the cached object
(`Fill`). `createObject` puts its object into the cache first (`Create`) and then
inserts the row and the link (`InsertRow`, `InsertLink`); `killObject` is
`StartKill` and `Kill`; `dumpObjects` is `Dump` and `Keep`. A statement may fail
(`Throw`), an argument may be no number (`UpdateBreaks`), a server may be started
again (`Restart`).
`stale` and `stray` are history: where the cache may differ, and why a row may have no world.

* The insertion of a key into the std::map is taken to be atomic, and so is the
  filling after it: the code inserts an empty object and fills it cell by cell (mysql.cpp:1835-1843,
  2040-2048), and a worker that looks between reads a map and cells that are being written, without
  a lock. That is undefined behaviour (a hazard of its own). The steps
  of two workers on an object that is in the map already interleave.
* The uuid is a cell of the cached object, too, and `UNHEX()` of that cell is what the
  INSERT and the UPDATE know the row by, while the cache is searched with the stripped text. `nameless` has the
  entries whose cell has separators in it: through them `Write` finds no row and the call
  succeeds, and `InsertRow` is refused (the key is NOT NULL). A later update with a plain uuid, or a `loadObject`,
  puts it right. `Arrives` is about calls with a plain one.
* The parent of an object, which only orders what `dumpObjects` answers, is left
  out, but its UPDATE is a step that may fail. A page of `dumpObjects` is any set of live objects.
* `deleteObjectWorldLink` with a world is no valid SQL, so it only throws.

`ObjectRegistry` says what the table of links promises: `Enter`, `Die`, `Move`, `Leave`.
`ObjectStore` implements it (`Registered`), with the status of an object in a world read off `link`.

### WorldStore

The table `player`, with `loadPlayer` and `logoutPlayer`, and the variables of one
world, with the part of `initdb` and `setWorldVariables` that looks for them and
makes them. The callers are workers of any server. A clock (`now`) stands for the
database's. `told`, `out`, `twice` and `overlap` are history.

### Service

The dispatcher and the pool together, because each is the other's environment: a
worker's job (`Redex`'s `Call`) is a number of queries, each of which wants
a connection (`ConnPool`'s `Want`, `Get`, `Return`, `Fail`); a query that fails throws
out of the job, and its answer is an error. The game thread is in one call at a time, a
posted one, `initdb`, `termdb` or a query of its own; when `termall` or the destructor has
joined the workers, the database module is terminated (`StartTerm`). The synchronous and
the receiving calls need neither a worker nor a connection and are left to `Redex`.

That the waits end is said twice. `Answered` and `TerminateReturns` are the liveness
properties. `NobodyStuck` and `WaitUsesUp` are what they have of safety, and can be proved:
while the game waits, it or a worker can go on (`GameCanGoOn`, `WorkerCanGoOn`),
unless a job waits for connections that are all gone (`Starved`); and each step takes a job from
the queue or brings one job nearer to its end (`StepsLeft`), which nothing
undoes. A wait with both is one that ends if every thread runs.

### FileIO, RestServer and Modules

`FileIO` has the stream of each file that may be written, what is on the disk, and
what was answered. The first call of a stream opens it and cuts the file
(`writeFile`) or not (`appendFile`). An open or a write may fail, at which
nobody looks. `RestServer` has the thread of the REST server at
its places in the code (starting, in `run()`, in the game's callback, ended) and
`terminateHandler`, which stops and joins it. `Modules` puts both into the life
of the library: loaded, called, terminated by `termall` any number of times, unloaded
(which terminates them once more) or dead, and loaded again. The second `terminateHandler`
joins a deleted thread object (restserver.cpp:50-55), which is undefined: `EndAgain` lets it come
back, `Die` lets the process die of it.

## 3. Runs

| Run | Bounds | Shows |
|---|---|---|
| `redex` | 2 workers, 3 identifiers, results of 1 and 5 characters, room for 2 and 3, overhead 2; about 1 million states | no result is lost, repeated or stored twice; iterators stay valid; `Mailbox` is implemented; `termall` waits for the jobs |
| `service` | 1 worker, 2 identifiers, 2 addresses of connections, 5 nodes, 1 query a call; 318 thousand states | posted calls are executed; `termall` and the unloading return; both unless connections are gone; game and workers never wait in a circle, and a wait uses up what it waits for; the unloading leaves no connection that no failed query kept |
| `pool` | 2 workers and the game thread, 5 addresses, 11 nodes | one user per connection, none dropped, nobody waits early or for ever |
| `clan` | 2 workers, 11 calls on 2 players and 2 clans, 3 names (2 spellings of one word); about 2 million states | main clans and owners are backed by memberships; names clash by a race only |
| `clan_case` | 1 worker, uuids in lower case | **violated**: the main clan stays set |
| `chars` | 2 worlds, 1 worker each, 4 uuids, 1 failure, broken load or strange uuid; 1.1 million states | one live character, an explained cache, own rows, gear of the living |
| `chars_race` | 2 workers of one server, no failure | **violated**: two live characters |
| `migration` | 2 servers, 2 failures | complete schema, honest version, one set of variables, every start recovers |
| `migration_crash` | 1 server, 1 crash | **violated**: migration 0001 is taken for applied |
| `objects` | 2 worlds, 2 workers of one server, 1 object in 2 spellings, 1 column of 2 values or NULL, 1 failure, restart or uuid with separators; 1.2 million states | an explained cache, updates that arrive, no row forgotten, the dead stay dead |
| `world` | 3 callers (one with a whitelist), 1 player, 3 uuids, 3 instants, 1 failure; 1.3 million states | one identity, no time counted twice, two sets of variables by a race only |
| `modules` | 2 files to write and 2 to read (one once), 4 messages, 2 loads; 353 thousand states | files keep what was answered; the REST thread is stopped and joined; `termall` returns |

**Why these bounds.**
*redex:* an answer of 5 characters in a buffer of 2 with an overhead of 2 has an empty head and three
pieces, in one of 3 a head of up to one character; a piece
of 3 fetched through room for 2 is split again. That takes a ticket and two
multipart identifiers: three. Two workers are enough for
any two stages to be occupied at once; more are covered by the proofs.
*pool:* `capacity` starts at 1 and each `initdb` reserves 2 + 3 more, so 11 allows two
of them with `termdb`, failed checks and failed queries in between; at most five
connections exist then. *clan:* the calls are chosen so that each check of one has a write
of another that invalidates it. *chars:* a first character takes three uuids, and
the fourth is that of the character in the linked world, who shares two parts;
one failure at any statement, or a restart, a load that breaks off, or an
update with a uuid that names no row, at any time (`MaxFailures` counts them all). With four uuids there is
no second row of gear that an update could name; that case is in the proof. The created characters have no numbers, so
each breaks `loadChar` until an update brings them; the symmetry exchanges the worlds with their workers. *migration:* two failures are a
start that is broken off and a next one that is broken off too, or one for each server.

*service:* one worker and the game thread are two users for at most two
connections (poolsize + 1), so a failed query makes them compete for the last one, and two make them
starve; two identifiers are a job in work and one behind it in the
queue; five nodes are two `initdb` calls. The number of queries only repeats the same steps.
*objects:* what goes wrong with a cached object needs two entries for it, two
workers between whose steps the other writes, or a failure. The second world has
links only: of its server's cache nothing else could be shown than of the first's, by symmetry.
A second object would meet the first in no row, entry or link.
*world:* three callers are two that race and one that comes between them. Two
steps of the clock are a login, a logout and a login with time in between.
*modules:* two loads are one that leaves a file, or a server, behind for the
next; four messages are one before a failure and one after it, for either file or load.

Runs with `CHECK_DEADLOCK FALSE` may stop: the library is unloaded, nodes,
uuids or messages of the bound are used up. `clan` and `migration` are checked for deadlock.

**Fairness.** `ConnPool` has a `FairSpec` that only liveness uses; `Service` and
`Modules` are fair specifications. They say that the operating system runs every thread
that can make a step (`WF` of each worker, of the game thread inside a call, of a
thread that spins in `getconnection`, of the REST thread), that a query ends, well
or not, that a call makes finitely many of them, and that the game's callback returns. The
game need not make any call, nobody need send a request.

* In `Served` weak fairness of the spinning `pop` is enough, because with poolsize
  + 1 connections and no failed query it stays enabled.
* In `Answered` it is not once a connection is missing: the game's own queries can take the last one from under a
  spinning worker again and again. So the property is stated for as many connections as threads.
* `TerminateReturns` has no such exception but for no connection at all, because
  the game that waits in `termall` takes none.
* `Returns` needs that `stop()` before `run()` is not lost, which boost guarantees as long as nobody calls `restart()`.

No fairness is assumed of the other modules, whose properties are all safety.

The runs `clan`, `objects` and `world` leave the types to the theorems
`TypeCorrect`; those of `Service` are its parts', those of `Modules` in its inductive invariants.

Each property of a passing run has a mutant in `PROJECT.json`: a change of one
definition, such as a bug in that code would be, that makes TLC refute the property.

## 4. Findings

1. "unset the main clan link" (mysql.cpp:2512) compares the argument with
   `HEX()`'s upper case; a uuid as `createClan` returns it does not match. [`clan_case`]
2. "check if there is an existing character" (mysql.cpp:1498) is up to five
   statements before the row it looks for. [`chars_race`]
3. "MIGRATION 0001 ALREADY APPLIED" (mysql.cpp:740) is logged when the first of
   its five statements was. [`migration_crash`]

The passing runs show more of the kind by the exceptions that their properties
need, or the models by what their actions do:

* a query that fails keeps its connection, so after poolsize + 1 failures every
  thread spins, and `termall` with them (`EmptyOnlyIfUsedUp`, `Served`, `TerminateReturns`);
* `termall` without a config file never returns (redex.cpp:138-162): the wait is
  for `stopped()`, which only a thread inside `run()` sets (`configured` in `TerminateReturns`);
* the destructor joins the workers on Linux only (redex.cpp:125-128); without the join, the
  mutant `UnloadedUnjoined`, connections come back to a pool that nobody closes any more (`NothingLeftOpen`);
* `poolcleanup`, "prevent new requests" (mysql.cpp:469), is read by nobody;
* "prevent name duplication" (mysql.cpp:2293, 2359) is a check followed by a
  write, and `clan.name` has no unique key (`NamesUniqueUnlessRaced`); with one
  worker it holds: theorem `OneWorkerNamesUnique`;
* a first start that dies at the 15th to 17th of 18 tables and views is never repaired (`SchemaComplete`);
* two calls that look for a world's variables at once both make some, after which
  every later read and update of them fails (`VarsOnce`);
* `createObject` leaves an object without a world when it breaks off (`NothingForgotten`);
* `updateObject` may succeed and write what it was not given, if the same object is loaded in between (`Arrives`);
* `updateObject` with a uuid that has separators in it finds the object, writes no row and succeeds, and so does
  every update of the entry until a plain uuid or a `loadObject` mends it; `createObject` with one is refused (`Arrives`, `Coherent`);
* `updateChar` does the same with the uuids of the character, his gear and his variables (`OwnRows`);
* `loadChar` of a character with a NULL number throws and leaves an entry without keys, through which `updateChar` succeeds
  and writes only the rows it is given the uuids of (`OwnRows`, `Coherent`);
* a stream that failed once drops every later message, all answered as written (`Kept`);
* a second `terminateHandler` of the REST server, as in every unloading after a
  `termall`, uses a deleted thread (`EndAgain`).

Seen on the way, and not the matter of any property: the REST server listens on
0.0.0.0:8000 whatever it is given (restserver.cpp:75-76); a request to it
before a callback is registered calls a null pointer (handle_callback.cpp:51); `readFile` answers the file's
name and not its contents (fileio.cpp:302); the statements of `whitelistPlayer`, `unwhitelistPlayer` and of
`deleteObjectWorldLink` with a world are not valid SQL.

## 5. Proofs

Each proof module extends its component's module, defines an inductive
invariant `IInv`, proves `Init => IInv` and `IInv /\ [Next]_vars => IInv'`, and
derives the theorems. The only assumptions are the constants' (named in the modules): null values are not keys,
sizes are positive, a buffer has room for the protocol's overhead, a call makes a
number of queries (`MaxQueriesAssumption`), there is a player; and `OneWorker`
in the theorems of `CharProofs` about the cache and the live character. The numbers of workers, identifiers, connections, servers and calls are arbitrary.

* **RedexProofs.** Four arguments, each on top of the one before.
  * *Stages* (`IInv`): `TypeCorrect`, `IteratorsStayValid`, `TicketsInOneStage`.
    `IteratorValid` is not inductive alone: that nobody erases the object needs that
    the game thread is the only one that does, and that no worker changes it needs
    that a running job is not stored yet (`OneStage`); that in turn needs that queued and
    running identifiers are posted calls and stored ones were given out
    (`JobInv`), for a fresh one to be in no stage.
  * *Refinement*: `ImplementsMailbox`, with `ChunksTile`: for all lengths and buffers
    the pieces follow the head without a gap or an overlap.
  * *What becomes of a job* (`FateInv`): `WaitCoversJobs`, `NothingElseLoses`. A
    posted call is queued, running, or has its result (`ResultInv`); its protocol decides which way
    that goes, and an unsplit result is one piece (`WayInv`), so `rcvasmsg` has nothing to
    drop but from a split one; threads leave only when the service has stopped (`LifeInv`).
  * *Where the characters are* (`SpreadInv`): `EveryCharacterInOnePlace`. The property counts the
    places of one character (`Cardinality`), which no step can be argued about; `Spread` says
    it without counting. A result is still with its worker and seen by nobody, or each character of it is
    in one of four kinds of place, and in one piece at most (`Once`). The two lemmas that carry
    it are `ChunksCover` (a character of an answer is in the head or in exactly one chunk, for every length,
    buffer and head) and `SpreadFrame` (a step that touches no piece of a content keeps it spread).
* **ConnPoolProofs.** `TypeCorrect`, `OneUser`, `NothingDropped`,
  `NobodyWaitsEarly`. The key is to count: the open connections and those the
  `initdb` in progress will still make never exceed the nodes (`CountInv`), so a
  push finds a node, because distinct connections in the queue are not more than the
  open ones (`DistinctFits`).
  `EnoughForAll` counts once more: connections that are neither leaked nor in the pool are
  held by a thread each, and not by the one that wants one (`HandsNotMore`).
* **Service**, in the modules of its parts: `ServiceDispatches` (in `RedexProofs`, which
  declares the pool's state next to its own to say so) and
  `ServiceUsesPool` (in `ConnPoolProofs`, which extends `Service`) show that each of its steps is one of the
  part's or leaves the part alone. What is proved of a part holds of `Service`, then. On that rest
  * `UnloadingCloses` (`NothingLeftOpen`): `ServiceInv` says that a worker uses the pool only inside a job, so joined workers
    have no connection, and none comes back once the module has emptied the pool;
    with `Accounted` those still open are the ones failed queries kept.
  * `NobodyWaitsInACircle` (`NobodyStuck`). `WaitInv` says who is still there while the game
    waits: a configured library has its workers, and they have not left before the service
    has stopped; when nobody is at work and no job is queued, the last one to finish
    has stopped it. So the game that spins finds the service stopped or a worker with something to do;
    and a worker that wants a connection finds one, or another
    thread holds one and can bring it back, or there are none (`NoneLive`, from `Accounted` and `Exclusive`).
  * `WaitsAreFinite` (`WaitUsesUp`), action by action: with the type of `queries`, a step of a
    worker lowers its own `StepsLeft` and nobody else's (`WorkerUsesUp`), and the game takes none of the
    steps that would post a job.
  * `PostedWaitsForTheBusy`: with as many connections as threads, while a posted call waits and nobody has
    stopped the service, each worker can go on. With the measure of `WorkerUsesUp` that
    is the safety of `Answered`.
* **ClanProofs.** `TypeCorrect`, `MainClansBacked`, `OwnersBacked`,
  `NamesClashByRaceOnly` and its corollary `OneWorkerNamesUnique`. The strengthening
  `CallOK` says what a call knows at each statement: a worker about to set a main
  clan or an owner has seen a membership, which only moves from `member` to
  `removed`; `NameInv`, that a name checked is still free
  until another worker writes one.
* **MigrationProofs.** `TypeCorrect`, `SchemaWhole`, `VersionMeansSchema`,
  `OneSetOfVars`, `StartsRecover`. `ColumnsInv` says that the columns are exactly
  those of a prefix of 0001, that at most one server is past its first
  statement (the database refuses the second's), and that whoever is still at the
  first statement, with the column there, was overtaken. `TablesInv`, `VersionInv` and
  `VarsInv` say what a server relies on at each place.
* **ObjectProofs.** `TypeCorrect`, `CachesExplained`, `NoneForgotten`, `UpdatesArrive`,
  `ImplementsRegistry`. `CallOK` is what a call knows between its steps: that what it read
  is still in the row (`ReadOK`) and what it was given still in the cached object
  (`GivenOK`), under a uuid that names its row if it came with one, unless another call has made it late. `OtherOK` shows once that a
  worker keeps this while another one writes rows and entries; each
  step's lemma is then about its own call and `Coherent`.
* **WorldProofs.** `TypeCorrect`, `AnswersAgree`,
  `TimeCountedOnce`, `VariablesOnce`. `TimeInv`
  splits a player's time at his last login, or at now once he has logged out;
  `VarsInv` says that without a race one call at a time makes variables.
* **CharProofs.** `TypeCorrect`, `CachesExplained`, `RowsOwned`, `GearOnlyOfLiving`,
  `OneLiveCharacter`. `CallOK` says what a call of `createChar` knows at each statement: that
  its entry is still in the cache, that the uuids it drew are nobody else's (`OwnId`), that the rows it
  found or made are there and hang together. `RowsInv` has the foreign keys, and that uuids are handed
  out in order, which is why a new one meets no row and no entry. `OwnRows` needs
  that the variables of a live character are those his world is linked to (`LiveLinked`), because
  createChar takes the gear from the one and the variables from the other. `OneLive`, `Coherent` and `OwnRows`
  are stated for servers of one worker each (`OneWorker`, `poolsize=1` in
  the config), the one hypothesis that is not of the constants. The argument needs it for
  `OneLive`, as `chars_race` shows: its invariant
  `LiveInv` adds that a call past the look for a live character still has a world without one. For the two
  others it is the model that needs it: with more workers the code's `loadChar` is not one step. `Fills` is what
  the steps that fill an entry have in common (`LoadChar`, `LoadBreaks`, `StartUpdate`).
* **ModulesProofs.** `FilesKept`, `NoThreadLeft`. `FileInv` speaks of one file at a
  time (`OneFile`); `ThreadInv` adds to `Quiet` the process that died. `EndInv` says that
  while the game waits in `terminateHandler` the server is stopped and its thread is at a place of
  its code, so it can go on to its end (`EndingGoesOn`), and each
  step brings it nearer (`EndingIsFinite`).

Only model-checked: `Answered`, `TerminateReturns`, `Served` and `Returns`, because
liveness under fairness is out of the prover's reach. What they have of safety is
proved: that someone can go on, as a predicate of the state and not as `ENABLED`
(`NobodyWaitsInACircle`, `PostedWaitsForTheBusy`, `EndingGoesOn`; `EnoughForAll` keeps the
`pop` of `Served` possible), and that each step uses something up (`WaitsAreFinite`, `EndingIsFinite`). TLC
adds that under fairness this is enough. Every invariant and every action property
of the runs is a theorem. The inductive invariants were checked by TLC first,
on small instances. No module uses a recursive operator.

## 6. Not modelled

* *Reads:* `getClan`, `loadAvChars`, `loadPlayerGroups`, `getWorldVariables`, `getLinkedWorlds`: they
  change nothing and keep nothing.
* *Writes nobody depends on:* `updateClanPlayer` (rank, comment),
  `incrementPlayerStats` (adds to counters in one UPDATE), `setWorldState`: one statement on columns that no call of the
  program looks at.
* *The search for config files* (`GetInitOrder`, `GetCfgFile`): a walk over
  directories, whose one piece of state, the directory it starts from, is listed as a hazard.
* *Buffers of the data cells* (`mysql_binds.cpp`, `datacache/`): `CharStore` and `ObjectStore` have
  the cells' contents, for values that fit.
* *A buffer of the game below the protocol's overhead* (redex.cpp:326): the head is then the whole answer and
  is cut by the copy at main.cpp:77. The game's buffers are larger.
* *Arguments of a call* (`extbase.hpp`): a tree that a call reads. The spelling
  that `getUUID` keeps is in `Clan`, `CharStore` and `ObjectStore`.
* *Random lists:* a weighted draw, without a property of its order.
* Date and time, the logger and the version calls keep no state. The test applications poll `chkmsg` and then receive,
  which is one of the orders that `Redex` allows.
* Timeouts of the network and of the server are failures of a statement. The C++
  memory model is not modelled: where the code shares a variable without
  synchronisation the components table or the module says so.

## 7. Plan

Done, in this order: `Redex` over `Mailbox`, `ConnPool`, `Clan`, `CharStore`,
`Migration`; then `ObjectStore` over `ObjectRegistry`, `WorldStore`, `Service`, `FileIO` and
`RestServer` in `Modules`, with the proofs of `ObjectStore`, `WorldStore` and `Modules`; then the
proofs of `CharStore`, of the jobs and the characters of `Redex`, and of `Service`, its waits
included. What is left to do:

1. Pure algorithms with reference definitions: the copy into a cell, the weighted draw.
2. Proofs under fairness, for a prover that has rules for it: `TerminateReturns` from
   `NobodyStuck` and `WaitUsesUp`, `Returns` from `EndingGoesOn` and `EndingIsFinite`.
