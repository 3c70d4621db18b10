------------------------------- MODULE ObjectStore -------------------------------
(***************************************************************************)
(* The objects of the worlds (mysql.cpp): the tables object and            *)
(* world_has_objects, which the servers of all worlds share, and each      *)
(* server's objectcache, which its workers share and nobody ever empties.  *)
(* An update writes its arguments into the cached object and then all of   *)
(* that object into the row.                                               *)
(*                                                                         *)
(* A step is a statement, or the work on the cache before or after one:    *)
(* other workers come in between.  A statement may fail, or be refused by  *)
(* a key of its table, and then the call throws and what it did stays.     *)
(* The columns are abstracted to the cells Cell; the parent, which only    *)
(* orders the answers, and the details of a killinfo are left out.  As in  *)
(* CharStore the cache knows an object by its uuid as text.  The uuid is a *)
(* cell of the cached object, too, and the INSERT and the UPDATE name      *)
(* their row by it.  Calls strip the separators from the uuid that they    *)
(* look for, the cell keeps them, and UNHEX() makes NULL of such a text.   *)
(***************************************************************************)
EXTENDS Integers, FiniteSets

CONSTANTS
    World,      \* the worlds, each with its server
    Worker,     \* the worker threads of all servers
    ServerOf,   \* the server of each
    Object,     \* uuids of objects
    NoObject,   \* no uuid
    Cell,       \* the columns of an object
    Value,      \* contents of a column
    Null,       \* SQL's NULL
    New, Change,\* the cells that a createObject, or an updateObject, gives
    MaxFailures \* bound: statements and calls that fail, restarts, and calls
                \* that write a uuid with separators into the cache

Form == {"lower", "upper"}
Key == Object \X Form
NoKey == << NoObject, "lower" >>
Content == [Cell -> Value \cup {Null}]
Give == UNION {[C -> Value \cup {Null}] : C \in SUBSET Cell}

ASSUME ServerAssumption == ServerOf \in [Worker -> World]
ASSUME ValueAssumption == Null \notin Value /\ NoObject \notin Object
ASSUME GiveAssumption == New \subseteq Give /\ Change \subseteq Give
ASSUME BoundAssumption == MaxFailures \in Nat

VARIABLES
    rows,       \* object: uuid -> its cells
    link,       \* world_has_objects: << world, uuid >> -> "live", or "dead"
                \* with a killinfo
    cache,      \* each server's objectcache: key -> cells
    nameless,   \* << server, key >> of the cache whose uuid cell names no row
    call,       \* each worker's call
    failures,   \* how often something failed
    \* history: << server, key, cell >> of the cache that may differ from the
    \* row; objects that a broken createObject or a deleteObjectWorldLink left
    \* without a world
    stale, stray

tables == << rows, link >>
history == << stale, stray >>
vars == << tables, cache, nameless, call, failures, history >>

\* A call: its next step, the entry, the world of a link, whether createObject's
\* object is the cached one, whether the uuid it was given is plain, without
\* separators, the rows it has read or its own object, the cells given, and
\* (history) the objects that others changed meanwhile.
Idle == [at |-> "idle", key |-> NoKey, world |-> CHOOSE s \in World : TRUE,
         mine |-> FALSE, plain |-> TRUE, read |-> [o \in {} |-> 0], give |-> [c \in {} |-> 0],
         late |-> {}]
At(w, place) == call[w].at = place
Begins(w, place, k) ==
    [Idle EXCEPT !.at = place, !.key = k, !.world = ServerOf[w]]
Sets(w, c) == call' = [call EXCEPT ![w] = c]
Ends(w) == Sets(w, Idle)

With(f, x, y) == [z \in DOMAIN f \cup {x} |-> IF z = x THEN y ELSE f[z]]
Over(f, g) == [c \in DOMAIN f |-> IF c \in DOMAIN g THEN g[c] ELSE f[c]]
Cached(s) == DOMAIN cache[s]
SetEntry(s, k, e) == cache' = [cache EXCEPT ![s] = With(@, k, e)]
\* The uuid is written into the entry k.
Spelled(s, k, plain) ==
    IF plain THEN nameless \ {<< s, k >>} ELSE nameless \cup {<< s, k >>}
Counts(plain) ==
    /\ failures' = IF plain THEN failures ELSE failures + 1
    /\ failures' <= MaxFailures
Marks(s, k, C) == {s} \X {k} \X C
\* All that the caches hold of the object o.
Shown(o) == {m \in World \X Key \X Cell : m[2] \in Cached(m[1]) /\ m[2][1] = o}

Links(o) == {r \in DOMAIN link : r[2] = o}
Live(o) == \E r \in Links(o) : link[r] = "live"

------------------------------------------------------------------------------
Init ==
    /\ rows = [o \in {} |-> 0]
    /\ link = [r \in {} |-> ""]
    /\ cache = [s \in World |-> [k \in {} |-> 0]]
    /\ call = [w \in Worker |-> Idle]
    /\ nameless = {} /\ failures = 0
    /\ stale = {} /\ stray = {}

\* The object of a call that has written it and not yet its link.
Unlinked(w) == IF At(w, "link") THEN {call[w].key[1]} ELSE {}

\* A statement fails and the call throws.
Throw(w) ==
    /\ \E at \in {"insert", "link", "write", "parent", "kill"} : At(w, at)
    /\ failures < MaxFailures /\ failures' = failures + 1
    /\ stray' = stray \cup Unlinked(w)
    /\ Ends(w)
    /\ UNCHANGED << tables, cache, nameless, stale >>

\* The server of the world s is started again.
Restart(s) ==
    LET his == {w \in Worker : ServerOf[w] = s} IN
    /\ failures < MaxFailures /\ failures' = failures + 1
    /\ cache' = [cache EXCEPT ![s] = [k \in {} |-> 0]]
    /\ call' = [w \in Worker |-> IF w \in his THEN Idle ELSE call[w]]
    /\ nameless' = {m \in nameless : m[1] # s}
    /\ stale' = {m \in stale : m[1] # s}
    /\ stray' = stray \cup UNION {Unlinked(w) : w \in his}
    /\ UNCHANGED tables

------------------------------------------------------------------------------
(* loadObject.                                                              *)

\* The SELECT finds the object where it lives in any world.  A call for one
\* that lives nowhere changes nothing.
Load(w, k) ==
    LET o == k[1] IN
    /\ At(w, "idle") /\ Live(o)
    /\ Sets(w, [Begins(w, "fill", k) EXCEPT !.read = With(@, o, rows[o])])
    /\ UNCHANGED << tables, cache, nameless, failures, history >>

\* Those calls that hold something of the object o as it was before.
Delays(o, ws) ==
    [w \in Worker |->
        IF w \in ws /\ o \in DOMAIN call[w].read
        THEN [call[w] EXCEPT !.late = @ \cup {o}] ELSE call[w]]

\* The updates under way through the entry k of the server s.
Refills(s, k, ws) ==
    [w \in Worker |->
        IF w \in ws /\ At(w, "write") /\ ServerOf[w] = s /\ call[w].key = k
        THEN [call[w] EXCEPT !.late = @ \cup {k[1]}] ELSE call[w]]

\* Faulty variant of Fill: an entry that is there is taken as it is.
FillNew(w) ==
    LET s == ServerOf[w]
        k == call[w].key
        o == k[1]
    IN
    /\ At(w, "fill")
    /\ IF k \in Cached(s) THEN UNCHANGED cache
       ELSE SetEntry(s, k, call[w].read[o])
    /\ stale' = IF o \in call[w].late THEN stale \cup Marks(s, k, Cell)
                ELSE stale \ Marks(s, k, Cell)
    /\ nameless' = Spelled(s, k, TRUE)
    /\ call' = [Refills(s, k, Worker \ {w}) EXCEPT ![w] = Idle]
    /\ UNCHANGED << tables, failures, stray >>

\* The cached object is made, or filled anew, with what the SELECT returned.
\* (The code lets it into the map first and fills it cell by cell.  Who looks
\* at it meanwhile reads cells that are being written, which is the data race
\* of a map without a lock; here, and in Keep, he comes before or after.)
Fill(w) ==
    LET s == ServerOf[w]
        k == call[w].key
        o == k[1]
    IN
    /\ At(w, "fill")
    /\ SetEntry(s, k, call[w].read[o])
    /\ stale' = IF o \in call[w].late THEN stale \cup Marks(s, k, Cell)
                ELSE stale \ Marks(s, k, Cell)
    /\ nameless' = Spelled(s, k, TRUE)
    /\ call' = [Refills(s, k, Worker \ {w}) EXCEPT ![w] = Idle]
    /\ UNCHANGED << tables, failures, stray >>

------------------------------------------------------------------------------
(* dumpObjects.                                                             *)

\* The SELECT: the objects D that live in the server's world, or with LIMIT
\* some of them; their order leaves open which.
Dump(w, D) ==
    /\ At(w, "idle")
    /\ D # {} /\ \A o \in D : << ServerOf[w], o >> \in DOMAIN link
                              /\ link[<< ServerOf[w], o >>] = "live"
    /\ Sets(w, [Begins(w, "dump", NoKey) EXCEPT !.read = [o \in D |-> rows[o]]])
    /\ UNCHANGED << tables, cache, nameless, failures, history >>

\* New objects go to the game; map::insert takes those not cached before.
Keep(w) ==
    LET s == ServerOf[w]
        read == call[w].read
        new == {k \in Key \ Cached(s) : k[1] \in DOMAIN read /\ k[2] = "upper"}
        late == {k \in new : k[1] \in call[w].late}
    IN
    /\ At(w, "dump")
    /\ cache' = [cache EXCEPT ![s] = [k \in Cached(s) \cup new |->
                    IF k \in new THEN read[k[1]] ELSE cache[s][k]]]
    /\ stale' = stale \cup ({s} \X late \X Cell)
    /\ Ends(w)
    /\ UNCHANGED << tables, nameless, failures, stray >>

------------------------------------------------------------------------------
(* createObject.  The uuid is the caller's, or a new one in lower case.     *)

\* The new object enters the cache, unless its key is there.
Create(w, k, g, plain) ==
    LET s == ServerOf[w]
        e == Over([c \in Cell |-> Null], g)
        new == k \notin Cached(s)
    IN
    /\ At(w, "idle")
    /\ IF new THEN SetEntry(s, k, e) ELSE UNCHANGED cache
    /\ stale' = IF new THEN stale \cup Marks(s, k, Cell) ELSE stale
    /\ nameless' = IF new THEN Spelled(s, k, plain) ELSE nameless
    /\ Sets(w, [Begins(w, "insert", k) EXCEPT
                   !.mine = new, !.plain = plain,
                   !.read = IF new THEN @ ELSE With(@, k[1], e)])
    /\ Counts(plain)
    /\ UNCHANGED << tables, stray >>

\* The uuid cell of the object that the call inserts names a row.
Nameable(w) ==
    IF call[w].mine THEN << ServerOf[w], call[w].key >> \notin nameless
    ELSE call[w].plain

\* Faulty variant of InsertRow: a row for an entry that was there is not linked.
InsertRowOnly(w) ==
    LET s == ServerOf[w]
        k == call[w].key
        o == k[1]
    IN
    /\ At(w, "insert")
    /\ IF o \in DOMAIN rows \/ ~Nameable(w)
       THEN Ends(w) /\ UNCHANGED << rows, stale >> ELSE
       /\ rows' = With(rows, o, IF call[w].mine THEN cache[s][k] ELSE call[w].read[o])
       /\ stale' = (stale \cup Shown(o))
                       \ IF call[w].mine THEN Marks(s, k, Cell) ELSE {}
       /\ IF call[w].mine THEN Sets(w, Begins(w, "link", k)) ELSE Ends(w)
    /\ UNCHANGED << link, cache, nameless, failures, stray >>

\* The INSERT of the row; PRIMARY KEY: the uuid, NOT NULL.  The cached object
\* may have been changed since.
InsertRow(w) ==
    LET s == ServerOf[w]
        k == call[w].key
        o == k[1]
    IN
    /\ At(w, "insert")
    /\ IF o \in DOMAIN rows \/ ~Nameable(w)
       THEN Ends(w) /\ UNCHANGED << rows, stale >> ELSE
       /\ rows' = With(rows, o, IF call[w].mine THEN cache[s][k] ELSE call[w].read[o])
       /\ stale' = (stale \cup Shown(o))
                       \ IF call[w].mine THEN Marks(s, k, Cell) ELSE {}
       /\ Sets(w, Begins(w, "link", k))
    /\ UNCHANGED << link, cache, nameless, failures, stray >>

\* The INSERT of the link, also createObjectWorldLink's.  PRIMARY KEY: world
\* and object; FOREIGN KEY: the object.
InsertLink(w) ==
    LET r == << call[w].world, call[w].key[1] >> IN
    /\ At(w, "link")
    /\ link' = IF r \notin DOMAIN link /\ r[2] \in DOMAIN rows
               THEN With(link, r, "live") ELSE link
    /\ Ends(w)
    /\ UNCHANGED << rows, cache, nameless, failures, history >>

------------------------------------------------------------------------------
(* updateObject.                                                            *)

\* The arguments go into the cached object, which has to be there, the uuid as
\* it was written among them.
Update(w, k, g, plain) ==
    LET s == ServerOf[w] IN
    /\ At(w, "idle") /\ k \in Cached(s)
    /\ SetEntry(s, k, Over(cache[s][k], g))
    /\ stale' = stale \cup Marks(s, k, DOMAIN g)
    /\ call' = [Refills(s, k, Worker \ {w}) EXCEPT
                   ![w] = [Begins(w, "write", k) EXCEPT !.give = g, !.plain = plain]]
    /\ nameless' = Spelled(s, k, plain)
    /\ Counts(plain)
    /\ UNCHANGED << tables, stray >>

\* An argument is no number: the call throws behind the cells before it, the
\* uuid's among them or not.
UpdateBreaks(w, k, g, plain) ==
    LET s == ServerOf[w] IN
    /\ At(w, "idle") /\ k \in Cached(s)
    /\ failures < MaxFailures /\ failures' = failures + 1
    /\ SetEntry(s, k, Over(cache[s][k], g))
    /\ stale' = stale \cup Marks(s, k, DOMAIN g)
    /\ call' = Refills(s, k, Worker \ {w})
    /\ nameless' \in {nameless, Spelled(s, k, plain)}
    /\ UNCHANGED << tables, stray >>

\* Faulty variant of Write: a cell that is NULL in the cached object keeps its
\* value in the row.
WriteSome(w, parent) ==
    LET s == ServerOf[w]
        k == call[w].key
        o == k[1]
        e == cache[s][k]
    IN
    /\ At(w, "write")
    /\ IF o \notin DOMAIN rows \/ << s, k >> \in nameless
       THEN Ends(w) /\ UNCHANGED << rows, stale >> ELSE
       /\ rows' = [rows EXCEPT ![o] =
              [c \in Cell |-> IF e[c] = Null THEN @[c] ELSE e[c]]]
       /\ stale' = (IF e # rows[o] THEN stale \cup Shown(o) ELSE stale)
                       \ Marks(s, k, Cell)
       /\ call' = [Delays(o, Worker \ {w}) EXCEPT ![w] = Idle]
    /\ UNCHANGED << link, cache, nameless, failures, stray >>

\* The UPDATE of the whole row, if the cached object names one.  With an
\* argument PARENTUUID a second UPDATE follows.
Write(w, parent) ==
    LET s == ServerOf[w]
        k == call[w].key
        o == k[1]
        next == IF parent THEN Begins(w, "parent", k) ELSE Idle
    IN
    /\ At(w, "write")
    /\ IF o \notin DOMAIN rows \/ << s, k >> \in nameless
       THEN Sets(w, next) /\ UNCHANGED << rows, stale >> ELSE
       /\ rows' = [rows EXCEPT ![o] = cache[s][k]]
       /\ stale' = (IF cache[s][k] # rows[o] THEN stale \cup Shown(o) ELSE stale)
                       \ Marks(s, k, Cell)
       /\ call' = [Delays(o, Worker \ {w}) EXCEPT ![w] = next]
    /\ UNCHANGED << link, cache, nameless, failures, stray >>

\* The parent's column is left out.
Parent(w) ==
    /\ At(w, "parent")
    /\ Ends(w)
    /\ UNCHANGED << tables, cache, nameless, failures, history >>

------------------------------------------------------------------------------
(* killObject and the links to worlds.                                      *)

\* The INSERT of the killinfo.
StartKill(w, o) ==
    /\ At(w, "idle")
    /\ Sets(w, Begins(w, "kill", << o, "lower" >>))
    /\ UNCHANGED << tables, cache, nameless, failures, history >>

\* Faulty variant of Kill: only in the server's own world.
KillHere(w) ==
    LET o == call[w].key[1] IN
    /\ At(w, "kill")
    /\ link' = [r \in DOMAIN link |->
                   IF r = << ServerOf[w], o >> THEN "dead" ELSE link[r]]
    /\ Ends(w)
    /\ UNCHANGED << rows, cache, nameless, failures, history >>

\* The UPDATE of all its links.
Kill(w) ==
    LET o == call[w].key[1] IN
    /\ At(w, "kill")
    /\ link' = [r \in DOMAIN link |-> IF r[2] = o THEN "dead" ELSE link[r]]
    /\ Ends(w)
    /\ UNCHANGED << rows, cache, nameless, failures, history >>

\* createObjectWorldLink: the SELECT finds no live link to the world t.
CreateLink(w, o, t) ==
    /\ At(w, "idle")
    /\ << t, o >> \in DOMAIN link => link[<< t, o >>] # "live"
    /\ Sets(w, [Begins(w, "link", << o, "lower" >>) EXCEPT !.world = t])
    /\ UNCHANGED << tables, cache, nameless, failures, history >>

\* updateObjectWorldLink sets the world of all links; with more than one the
\* PRIMARY KEY refuses it.
MoveLink(w, o, s, t) ==
    /\ At(w, "idle")
    /\ Links(o) = {<< s, o >>} /\ s # t
    /\ link' = With([r \in DOMAIN link \ Links(o) |-> link[r]],
                    << t, o >>, link[<< s, o >>])
    /\ UNCHANGED << rows, cache, nameless, call, failures, history >>

\* deleteObjectWorldLink.  With an argument WORLDUUID its statement is no SQL
\* and the call always throws.
DeleteLinks(w, o) ==
    /\ At(w, "idle") /\ Links(o) # {}
    /\ link' = [r \in DOMAIN link \ Links(o) |-> link[r]]
    /\ stray' = stray \cup {o}
    /\ UNCHANGED << rows, cache, nameless, call, failures, stale >>

------------------------------------------------------------------------------
Step(w) ==
    \/ Throw(w) \/ Fill(w) \/ Keep(w) \/ InsertRow(w) \/ InsertLink(w)
    \/ Parent(w) \/ Kill(w)
    \/ \E parent \in BOOLEAN : Write(w, parent)
    \/ \E D \in SUBSET Object : Dump(w, D)
    \/ \E k \in Key :
          \/ Load(w, k)
          \/ \E plain \in BOOLEAN :
                \/ \E g \in New : Create(w, k, g, plain)
                \/ \E g \in Change : \/ Update(w, k, g, plain)
                                    \/ UpdateBreaks(w, k, g, plain)
    \/ \E o \in Object :
          \/ StartKill(w, o) \/ DeleteLinks(w, o)
          \/ \E t \in World : CreateLink(w, o, t)
          \/ \E s, t \in World : MoveLink(w, o, s, t)

Next == (\E w \in Worker : Step(w)) \/ \E s \in World : Restart(s)

Spec == Init /\ [][Next]_vars

------------------------------------------------------------------------------
(* Properties.                                                              *)

Place == {"idle", "fill", "dump", "insert", "link", "write", "parent", "kill"}
Reading == {"fill", "dump", "insert"}
TypeOK ==
    /\ DOMAIN rows \subseteq Object
    /\ \A o \in DOMAIN rows : rows[o] \in Content
    /\ DOMAIN link \subseteq World \X DOMAIN rows
    /\ \A r \in DOMAIN link : link[r] \in {"live", "dead"}
    /\ DOMAIN cache = World
    /\ \A s \in World : Cached(s) \subseteq Key
    /\ \A s \in World : \A k \in Cached(s) : cache[s][k] \in Content
    /\ DOMAIN call = Worker
    /\ \A w \in Worker :
          /\ call[w].at \in Place /\ call[w].key \in Key \cup {NoKey}
          /\ call[w].world \in World
          /\ call[w].mine \in BOOLEAN /\ call[w].plain \in BOOLEAN
          /\ \A o \in DOMAIN call[w].read : call[w].read[o] \in Content
          /\ call[w].late \subseteq Object
    /\ nameless \subseteq World \X Key
    /\ \A m \in nameless : m[2] \in Cached(m[1])
    /\ failures \in 0..MaxFailures
    /\ stale \subseteq World \X Key \X Cell /\ stray \subseteq Object

\* A cached object differs from its row only in a cell for which something
\* explains it: an update that is under way, broke off or found no row by the
\* uuid it was given, a createObject whose row is not this entry's, another
\* entry through which the row was written (of another server, or under the
\* other spelling of the uuid), or a loadObject or dumpObjects that read before
\* a write and filled after it (mysql.cpp:1829-1842, 1870, 1905, 2041).
Coherent ==
    \A s \in World : \A k \in Cached(s) : \A c \in Cell :
        k[1] \in DOMAIN rows /\ << s, k, c >> \notin stale
            => cache[s][k][c] = rows[k[1]][c]

\* An object in the table belongs to a world (mysql.cpp:1885-1889), unless a
\* createObject is about to link it, broke off before, or
\* deleteObjectWorldLink took its links.
NothingForgotten ==
    \A o \in DOMAIN rows : Links(o) = {} =>
        o \in stray \cup UNION {Unlinked(w) : w \in Worker}

\* An updateObject that succeeds has written what it was given
\* (mysql.cpp:1905-1934), if it was given a plain uuid, and unless another
\* call filled the same entry between its two steps.
Arrives ==
    [][\A w \in Worker :
          LET o == call[w].key[1] IN
          At(w, "write") /\ call'[w].at # "write" /\ failures' = failures
              /\ o \in DOMAIN rows /\ o \notin call[w].late /\ call[w].plain
            => \A c \in DOMAIN call[w].give : rows'[o][c] = call[w].give[c]]_vars

\* ObjectStore implements ObjectRegistry.
Reg == INSTANCE ObjectRegistry WITH
    status <- [r \in World \X Object |->
                  IF r \in DOMAIN link THEN link[r] ELSE "none"]
Registered == Reg!Spec
==============================================================================
