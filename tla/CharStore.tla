------------------------------- MODULE CharStore -------------------------------
(***************************************************************************)
(* The characters of one player (mysql.cpp).  The servers of several       *)
(* worlds use one database, each of them through a cache of its own that   *)
(* nobody ever empties.  An update writes its arguments into the cached    *)
(* character and then the whole of it into the database.  Every SQL        *)
(* statement is a step, with the work on the cache that follows it; it may *)
(* fail, and then the call throws and what it did stays.                   *)
(*                                                                         *)
(* A character has three parts, each a row: where he is (table character), *)
(* his gear (charactershareables), which the characters in linked worlds   *)
(* share, and the variables that survive his death (persistent_variables). *)
(* The columns of a part are abstracted to one value.  The cache knows a   *)
(* character by his uuid as text: createChar's is in lower case, HEX()'s   *)
(* in upper case, and each spelling is an entry of its own.  The uuids by  *)
(* which an entry names its rows are cells too: each is taken for what     *)
(* UNHEX() makes of it in a statement, a row's uuid or none (NoUuid).      *)
(***************************************************************************)
EXTENDS Integers, FiniteSets

CONSTANTS
    World,      \* the worlds, each with its server
    Worker,     \* the worker threads of all servers
    ServerOf,   \* the server of each
    Value,      \* contents of a part
    Null,       \* SQL's NULL
    Numberless, \* the contents of the place in which a number is NULL
    New, Change,\* the contents that a createChar, or an updateChar, may bring
                \* along, for some of the parts
    MaxUuid,    \* bound: uuids that are handed out
    MaxFailures \* bound: statements that fail, restarts, loads that break off,
                \* and uuids by which updates name other rows

Part == {"place", "gear", "vars"}
Form == {"lower", "upper"}
NoUuid == 0
Uuid == 1..MaxUuid
Key == Uuid \X Form
NoKey == << NoUuid, "lower" >>

ASSUME ServerAssumption == ServerOf \in [Worker -> World]
ASSUME ValueAssumption == Null \notin Value
ASSUME NumberAssumption == Null \in Numberless /\ Numberless \subseteq Value \cup {Null}
ASSUME BoundAssumption == MaxUuid \in Nat /\ MaxFailures \in Nat
ASSUME GiveAssumption ==
    \A g \in New \cup Change : DOMAIN g \subseteq Part /\ \A p \in DOMAIN g : g[p] \in Value

VARIABLES
    db,         \* each part's rows: uuid -> [val, up], up the part's next row
    linked,     \* player_on_world_has_persistent_variables: << world, uuid >>
    live, dead, \* player_on_world_has_character, without and with killinfo:
                \* << world, uuid >>
    cache,      \* each server's charactercache: key -> [val, id], by parts
    call,       \* each worker's call: its next statement and the entry
    last,       \* the last uuid that orderedUUID made
    failures,   \* how often something failed
    \* history: << world, key, part >> whose value in the cache may differ from
    \* the row's; the gear of killed characters that a call was about to reuse;
    \* << world, key, part >> whose uuid an updateChar replaced by another, or
    \* a loadChar that broke off never filled
    stale, raced, astray

counters == << last, failures >>
tables == << db, linked, live, dead >>
history == << stale, raced, astray >>
vars == << tables, cache, call, counters, history >>

Idle == [at |-> "idle", key |-> NoKey]
At(w, place) == call[w].at = place
Begins(w, place, k) == call' = [call EXCEPT ![w] = [at |-> place, key |-> k]]
Goes(w, place) == call' = [call EXCEPT ![w] =
    IF place = "idle" THEN Idle ELSE [@ EXCEPT !.at = place]]
Cached(s) == DOMAIN cache[s]
Entry(w) == cache[ServerOf[w]][call[w].key]
With(f, x, y) == [z \in DOMAIN f \cup {x} |-> IF z = x THEN y ELSE f[z]]
SetEntry(s, k, e) == cache' = [cache EXCEPT ![s] = With(@, k, e)]
Marks(s, k, ps) == {s} \X {k} \X ps

\* The entries that show the row u of the part p.
Showing(p, u) == {m \in World \X Key \X {p} :
                     /\ m[2] \in Cached(m[1])
                     /\ cache[m[1]][m[2]].id[p] = u}

------------------------------------------------------------------------------
Init ==
    /\ db = [p \in Part |-> [u \in {} |-> 0]]
    /\ linked = {} /\ live = {} /\ dead = {}
    /\ cache = [s \in World |-> [k \in {} |-> 0]]
    /\ call = [w \in Worker |-> Idle]
    /\ last = 0 /\ failures = 0
    /\ stale = {} /\ raced = {} /\ astray = {}

\* A statement fails and the call throws.
Throw(w) ==
    /\ ~At(w, "idle")
    /\ failures < MaxFailures /\ failures' = failures + 1
    /\ Goes(w, "idle")
    /\ UNCHANGED << tables, cache, last, history >>

\* The server of the world s is started again.
Restart(s) ==
    /\ failures < MaxFailures /\ failures' = failures + 1
    /\ cache' = [cache EXCEPT ![s] = [k \in {} |-> 0]]
    /\ call' = [w \in Worker |-> IF ServerOf[w] = s THEN Idle ELSE call[w]]
    /\ stale' = {m \in stale : m[1] # s} /\ astray' = {m \in astray : m[1] # s}
    /\ UNCHANGED << tables, last, raced >>

------------------------------------------------------------------------------
(* linkChars, loadChar, killChar.                                           *)

LinkChars(w, u) ==
    /\ At(w, "idle")
    /\ u \in DOMAIN db["vars"] /\ << ServerOf[w], u >> \notin linked
    /\ linked' = linked \cup {<< ServerOf[w], u >>}
    /\ UNCHANGED << db, live, dead, cache, call, counters, history >>

\* The rows of the character u: the FOREIGN KEYs lead from one to the next.
RowsOf(u) ==
    LET g == db["place"][u].up IN
    [p \in Part |-> CASE p = "place" -> u [] p = "gear" -> g
                      [] p = "vars" -> db["gear"][g].up]

\* The SELECT of loadChar finds the live character, and every number of his.
Loads(w, u) ==
    /\ At(w, "idle") /\ << ServerOf[w], u >> \in live
    /\ db["place"][u].val \notin Numberless

\* Faulty variant of LoadChar: a cached character is taken as it is.
LoadCharCached(w, u) ==
    LET s == ServerOf[w]
        k == << u, "upper" >>
    IN
    /\ Loads(w, u)
    /\ IF k \in Cached(s) THEN UNCHANGED cache ELSE
       SetEntry(s, k, [val |-> [p \in Part |-> db[p][RowsOf(u)[p]].val],
                       id |-> RowsOf(u)])
    /\ stale' = stale \ Marks(s, k, Part) /\ astray' = astray \ Marks(s, k, Part)
    /\ UNCHANGED << tables, call, counters, raced >>

\* The live character's entry is made, or filled anew.  Without a live one
\* the call changes nothing.  (The SELECT and the filling are one step: that
\* is the code's as long as the server has one worker, for nobody else
\* touches its cache; a row that another server writes in between is one
\* that it writes after the filling.)
LoadChar(w, u) ==
    LET s == ServerOf[w]
        k == << u, "upper" >>
    IN
    /\ Loads(w, u)
    /\ SetEntry(s, k, [val |-> [p \in Part |-> db[p][RowsOf(u)[p]].val],
                       id |-> RowsOf(u)])
    /\ stale' = stale \ Marks(s, k, Part) /\ astray' = astray \ Marks(s, k, Part)
    /\ UNCHANGED << tables, call, counters, raced >>

Unfilled == [val |-> [p \in Part |-> Null], id |-> [p \in Part |-> NoUuid]]

\* A number of the live character is NULL: setData throws when the entry is in
\* the cache, with the cells of the place before that one written.  A new
\* entry stays like this; an old one keeps its other cells.
LoadBreaks(w, u) ==
    LET s == ServerOf[w]
        k == << u, "upper" >>
        old == k \in Cached(s)
    IN
    /\ At(w, "idle") /\ << s, u >> \in live
    /\ db["place"][u].val \in Numberless
    /\ failures < MaxFailures /\ failures' = failures + 1
    /\ \E v \in IF old THEN Value \cup {Null} ELSE Numberless :
          SetEntry(s, k, [(IF old THEN cache[s][k] ELSE Unfilled)
                             EXCEPT !.val["place"] = v])
    /\ stale' = stale \cup Marks(s, k, {"place"})
    /\ astray' = IF old THEN astray ELSE astray \cup Marks(s, k, Part)
    /\ UNCHANGED << tables, call, last, raced >>

\* The INSERT of the killinfo.  The database takes either spelling.
StartKill(w, u) ==
    /\ At(w, "idle")
    /\ Begins(w, "kill", << u, "lower" >>)
    /\ UNCHANGED << tables, cache, counters, history >>

\* A worker that has found the gear g and not yet given it to a character.
Reusing(g) == \E w \in Worker :
    /\ \E at \in {"readgear", "insertplace", "insertlive"} : At(w, at)
    /\ Entry(w).id["gear"] = g

\* Faulty variant of Kill: the characters in linked worlds stay alive.
KillOne(w) ==
    LET u == call[w].key[1]
        hit == {r \in live : r[2] = u}
    IN
    /\ At(w, "kill")
    /\ live' = live \ hit /\ dead' = dead \cup hit
    /\ raced' = raced
    /\ Goes(w, "idle")
    /\ UNCHANGED << db, linked, cache, counters, stale, astray >>

\* All characters with the gear of the one who is killed die.
Kill(w) ==
    LET u == call[w].key[1]
        g == IF u \in DOMAIN db["place"] THEN db["place"][u].up ELSE NoUuid
        hit == {r \in live : db["place"][r[2]].up = g}
    IN
    /\ At(w, "kill")
    /\ live' = live \ hit /\ dead' = dead \cup hit
    /\ raced' = IF Reusing(g) THEN raced \cup {g} ELSE raced
    /\ Goes(w, "idle")
    /\ UNCHANGED << db, linked, cache, counters, stale, astray >>

------------------------------------------------------------------------------
(* updateChar.  It fills the cached character, which has to be there, with  *)
(* its arguments, the uuids of the rows among them, and makes three         *)
(* UPDATEs, each of a part.  (A fourth one, of the vehicle he sits in, is   *)
(* made if the call names one; that column is left out.)                    *)

\* The uuids in the entry k after an updateChar has filled it.  The
\* character's own is always an argument: it finds the entry whatever
\* separators it is written with, and UNHEX() knows it only without.  The
\* ones of the gear and the variables may be given, any text.
Named(s, k) ==
    LET given(p) == {cache[s][k].id[p], NoUuid} \cup DOMAIN db[p] IN
    [place : {k[1], NoUuid}, gear : given("gear"), vars : given("vars")]

\* The contents g and the uuids n go into the entry.  (An argument that is no
\* number ends the filling and the call: a smaller g, and Throw.)
StartUpdate(w, k, g, n) ==
    LET s == ServerOf[w]
        id == cache[s][k].id
        own == RowsOf(k[1])
    IN
    /\ At(w, "idle")
    /\ failures' = failures + Cardinality({p \in Part : n[p] \notin {id[p], k[1]}})
    /\ failures' <= MaxFailures
    /\ Begins(w, "place", k)
    /\ SetEntry(s, k, [val |-> [p \in Part |-> IF p \in DOMAIN g THEN g[p]
                                              ELSE cache[s][k].val[p]],
                       id |-> n])
    /\ stale' = stale \cup Marks(s, k, DOMAIN g \cup {p \in Part : n[p] # id[p]})
    /\ astray' = (astray \ Marks(s, k, Part))
                     \cup Marks(s, k, {p \in Part : n[p] # own[p]})
    /\ UNCHANGED << tables, last, raced >>

After == [place |-> "gear", gear |-> "vars", vars |-> "idle"]

Write(w, p) ==
    LET s == ServerOf[w]
        k == call[w].key
        u == Entry(w).id[p]
        v == Entry(w).val[p]
        there == u \in DOMAIN db[p]
    IN
    /\ At(w, p)
    /\ db' = IF there THEN [db EXCEPT ![p][u].val = v] ELSE db
    /\ stale' = (IF there /\ v # db[p][u].val THEN stale \cup Showing(p, u)
                 ELSE stale) \ Marks(s, k, IF there THEN {p} ELSE {})
    /\ Goes(w, After[p])
    /\ UNCHANGED << linked, live, dead, cache, counters, raced, astray >>

------------------------------------------------------------------------------
(* createChar.  (One that is given the uuids of its rows as arguments is    *)
(* left out: the code overwrites them, or makes rows nobody is told of.)    *)

\* The entry shall show the row u of the part p.
Uses(w, p, u) == SetEntry(ServerOf[w], call[w].key, [Entry(w) EXCEPT !.id[p] = u])

\* Faulty variant of Existing: the server's cache is asked.
ExistingCached(w, g) ==
    LET s == ServerOf[w]
        k == << last + 1, "lower" >>
    IN
    /\ At(w, "idle")
    /\ ~\E r \in live : /\ r[1] = s
                       /\ \E f \in Form : << r[2], f >> \in Cached(s)
    /\ last < MaxUuid /\ last' = last + 1
    /\ Begins(w, "findvars", k)
    /\ SetEntry(s, k,
          [val |-> [p \in Part |-> IF p \in DOMAIN g THEN g[p] ELSE Null],
           id |-> [p \in Part |-> IF p = "place" THEN last + 1 ELSE NoUuid]])
    /\ UNCHANGED << tables, failures, history >>

\* With a live character in the world the call does nothing.  Without one, a
\* new one enters the cache.
Existing(w, g) ==
    LET s == ServerOf[w]
        k == << last + 1, "lower" >>
    IN
    /\ At(w, "idle")
    /\ ~\E r \in live : r[1] = s
    /\ last < MaxUuid /\ last' = last + 1
    /\ Begins(w, "findvars", k)
    /\ SetEntry(s, k,
          [val |-> [p \in Part |-> IF p \in DOMAIN g THEN g[p] ELSE Null],
           id |-> [p \in Part |-> IF p = "place" THEN last + 1 ELSE NoUuid]])
    /\ UNCHANGED << tables, failures, history >>

\* Faulty variant of Find: a new uuid is not written into the entry.
FindForgetsNew(w, p, found, read, insert) ==
    IF found # {}
    THEN /\ \E u \in found : Uses(w, p, u)
         /\ stale' = stale \cup Marks(ServerOf[w], call[w].key, {p})
         /\ Goes(w, read) /\ UNCHANGED last
    ELSE /\ last < MaxUuid /\ last' = last + 1
         /\ Goes(w, insert) /\ UNCHANGED << cache, stale >>

\* Rows u of a part are looked for; one is taken, or a new one is to be made.
Find(w, p, found, read, insert) ==
    IF found # {}
    THEN /\ \E u \in found : Uses(w, p, u)
         /\ stale' = stale \cup Marks(ServerOf[w], call[w].key, {p})
         /\ Goes(w, read) /\ UNCHANGED last
    ELSE /\ last < MaxUuid /\ last' = last + 1
         /\ Uses(w, p, last + 1)
         /\ Goes(w, insert) /\ UNCHANGED stale

FindVars(w) ==
    /\ At(w, "findvars")
    /\ Find(w, "vars", {u \in Uuid : << ServerOf[w], u >> \in linked},
            "readvars", "insertvars")
    /\ UNCHANGED << tables, failures, raced, astray >>

\* The gear of the live characters in the worlds linked by his variables.
FindGear(w) ==
    LET there == {s \in World : << s, Entry(w).id["vars"] >> \in linked} IN
    /\ At(w, "findgear")
    /\ Find(w, "gear", {db["place"][r[2]].up : r \in {q \in live : q[1] \in there}},
            "readgear", "insertgear")
    /\ UNCHANGED << tables, failures, raced, astray >>

\* The row's value replaces the call's, unless the row has none.
Read(w, p, place, next) ==
    LET s == ServerOf[w]
        k == call[w].key
        v == db[p][Entry(w).id[p]].val
    IN
    /\ At(w, place)
    /\ IF v # Null
       THEN /\ SetEntry(s, k, [Entry(w) EXCEPT !.val[p] = v])
            /\ stale' = stale \ Marks(s, k, {p})
       ELSE UNCHANGED << cache, stale >>
    /\ Goes(w, next)
    /\ UNCHANGED << tables, counters, raced, astray >>

\* Faulty variant of Insert: the gear's row does not name its variables.
InsertLoose(w, p, up, place, next) ==
    LET e == Entry(w)
        below == IF p = "gear" THEN NoUuid ELSE up
    IN
    /\ At(w, place)
    /\ db' = [db EXCEPT ![p] = With(@, e.id[p], [val |-> e.val[p], up |-> below])]
    /\ Goes(w, next)
    /\ UNCHANGED << linked, live, dead, cache, counters, history >>

\* The entry's value becomes a row.
Insert(w, p, up, place, next) ==
    LET e == Entry(w) IN
    /\ At(w, place)
    /\ db' = [db EXCEPT ![p] = With(@, e.id[p], [val |-> e.val[p], up |-> up])]
    /\ Goes(w, next)
    /\ UNCHANGED << linked, live, dead, cache, counters, history >>

LinkVars(w) ==
    /\ At(w, "linkvars")
    /\ linked' = linked \cup {<< ServerOf[w], Entry(w).id["vars"] >>}
    /\ Goes(w, "findgear")
    /\ UNCHANGED << db, live, dead, cache, counters, history >>

InsertLive(w) ==
    /\ At(w, "insertlive")
    /\ live' = live \cup {<< ServerOf[w], call[w].key[1] >>}
    /\ Goes(w, "idle")
    /\ UNCHANGED << db, linked, dead, cache, counters, history >>

Create(w) ==
    LET id == Entry(w).id IN
    \/ FindVars(w) \/ FindGear(w) \/ LinkVars(w) \/ InsertLive(w)
    \/ Insert(w, "vars", NoUuid, "insertvars", "linkvars")
    \/ Read(w, "vars", "readvars", "findgear")
    \/ Insert(w, "gear", id["vars"], "insertgear", "insertplace")
    \/ Read(w, "gear", "readgear", "insertplace")
    \/ Insert(w, "place", id["gear"], "insertplace", "insertlive")

------------------------------------------------------------------------------
\* The game names characters that it was told of.
Told == {r[2] : r \in live \cup dead}

\* A call begins.
Begin(w) ==
    \/ \E u \in Uuid : LinkChars(w, u) \/ LoadChar(w, u) \/ LoadBreaks(w, u)
    \/ \E u \in Told :
          \/ StartKill(w, u)
          \/ \E f \in Form, g \in Change :
                /\ << u, f >> \in Cached(ServerOf[w])
                /\ \E n \in Named(ServerOf[w], << u, f >>) : StartUpdate(w, << u, f >>, g, n)
    \/ \E g \in New : Existing(w, g)

Step(w) ==
    \/ At(w, "idle") /\ Begin(w)
    \/ Throw(w) \/ Kill(w) \/ Create(w)
    \/ \E p \in Part : Write(w, p)

Next == (\E w \in Worker : Step(w)) \/ \E s \in World : Restart(s)

Spec == Init /\ [][Next]_vars

------------------------------------------------------------------------------
(* Properties.                                                              *)

Place == {"idle", "kill", "place", "gear", "vars", "findvars", "insertvars",
          "linkvars", "readvars", "findgear", "insertgear", "readgear",
          "insertplace", "insertlive"}
TypeOK ==
    /\ DOMAIN db = Part
    /\ \A p \in Part : DOMAIN db[p] \subseteq Uuid
    /\ \A p \in Part : \A u \in DOMAIN db[p] :
          db[p][u] \in [val : Value \cup {Null}, up : Uuid \cup {NoUuid}]
    /\ linked \subseteq World \X Uuid
    /\ live \subseteq World \X Uuid /\ dead \subseteq World \X Uuid
    /\ DOMAIN cache = World
    /\ \A s \in World : Cached(s) \subseteq Key
    /\ \A s \in World : \A k \in Cached(s) :
          cache[s][k] \in [val : [Part -> Value \cup {Null}],
                           id : [Part -> Uuid \cup {NoUuid}]]
    /\ call \in [Worker -> [at : Place, key : Key \cup {NoKey}]]
    /\ last \in 0..MaxUuid
    /\ stale \subseteq World \X Key \X Part /\ raced \subseteq Uuid
    /\ astray \subseteq World \X Key \X Part

\* "check if there is an existing character, if yes return its uuid"
\* (mysql.cpp:1498): the player never has two live characters in a world,
\* wherever calls break off, if the world's server has one worker.
OneLive == \A r, q \in live : r[1] = q[1] => r = q

\* What the cache shows of a character is what the database has, except for
\* a part that another entry wrote since the entry was filled, that an
\* updateChar which threw or named another row did not write any more
\* (mysql.cpp:1684-1741), that a loadChar which broke off left half filled
\* (mysql.cpp:1462-1472), or that createChar kept because the row has none.
\* So updateChar, which writes every part, puts back an older value in no
\* other case, if each server has one worker.
Coherent ==
    \A s \in World : \A k \in Cached(s) : \A p \in Part :
        LET e == cache[s][k] IN
        e.id[p] \in DOMAIN db[p] /\ << s, k, p >> \notin stale
            => e.val[p] = db[p][e.id[p]].val

\* A cached character is written to the rows that loadChar reads him from
\* (mysql.cpp:1429-1444, 1684-1712), as long as no world of the player is
\* linked to the variables of two (mysql.cpp:1408-1421), except for a part
\* whose uuid the latest updateChar wrote otherwise (mysql.cpp:1695) or that
\* only a loadChar which broke off has filled (mysql.cpp:1462-1472).
OneLink == \A r, q \in linked : r[1] = q[1] => r = q
OwnRows ==
    OneLink => \A s \in World : \A k \in Cached(s) : \A p \in Part :
        k[1] \in DOMAIN db["place"] /\ << s, k, p >> \notin astray
            => cache[s][k].id[p] = RowsOf(k[1])[p]

\* "get alive linked character shareables" (mysql.cpp:1583): a live character
\* has the gear of a dead one only if that one was killed when a call of
\* createChar had already found his gear and not yet used it.
GearOfLiving ==
    \A r \in live, q \in dead :
        db["place"][r[2]].up = db["place"][q[2]].up
            => db["place"][r[2]].up \in raced
==============================================================================
