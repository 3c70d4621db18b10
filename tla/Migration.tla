------------------------------- MODULE Migration -------------------------------
(***************************************************************************)
(* initdb brings the database to the newest schema and enters the world of *)
(* the server (mysql.cpp, spawnHandler and the three checks it calls,      *)
(* mysql/migration/).  Several servers start on one database, each after   *)
(* termdb, an error or a crash once more.                                  *)
(*                                                                         *)
(* Every SQL statement is a step.  The scripts of the schema are sent as   *)
(* one query of many statements: only an error of the first one throws, an *)
(* error of a later one silently skips the rest (rawmultiquerys).  A       *)
(* server that dies leaves the statements before done, the others not.     *)
(***************************************************************************)
EXTENDS Integers, Sequences, FiniteSets

CONSTANTS
    Server,     \* the servers, each with a world of its own
    MaxFailures \* bound: calls that are broken off, statements that fail

ASSUME BoundAssumption == MaxFailures \in Nat

\* The 16 tables and 2 views of schema_FullTable, in its order.
All == 18
world == 1
clan == 2
player == 3
linkedworlds == 8
killinfo == 9
clanmember == 14
worldvariables == 15

\* schema_migration_0001: each statement drops or adds a column.
Column == {"schema_version", "playtime", "member id", "link id"}
FirstChange == <<
    [table |-> world, col |-> "schema_version", to |-> "new"],
    [table |-> player, col |-> "playtime", to |-> "none"],
    [table |-> player, col |-> "playtime", to |-> "new"],
    [table |-> clanmember, col |-> "member id", to |-> "new"],
    [table |-> linkedworlds, col |-> "link id", to |-> "new"] >>
\* schema_migration_0002: each statement widens columns of a table.
SecondChange == << world, clan, clanmember, killinfo >>
SchemaVersion == 2
SqlNull == 0

VARIABLES
    tables,     \* how many of the tables and views are there
    columns,    \* what has become of the columns of 0001
    widened,    \* the statements of 0002 that are done
    version,    \* the rows of world: the schema_version of each
    links,      \* world_has_persistent_variables: << world, uuid >>
    server,     \* each server's next step: at, and the statement or uuid
    last,       \* the rows of persistent_variables are 1..last
    failures,   \* how often something failed
    \* history: the scripts that were cut short (the tables after the 15th for
    \* good, "skipped" when that was before it); the servers that another one
    \* has overtaken at 0001 since their DESCRIBE
    cut, overtaken

schema == << tables, columns, widened >>
history == << cut, overtaken >>
vars == << schema, version, links, server, last, failures, history >>

Place == {"down", "error", "ready", "count", "create", "describe", "first",
          "version", "second", "record", "world", "addworld", "setworld",
          "vars", "addvars", "linkvars", "connect"}
At(s, place) == server[s].at = place
Up(s) == server[s].at \notin {"down", "error"}
Goes(s, place, n) == server' = [server EXCEPT ![s] = [at |-> place, next |-> n]]
Step(s) == server[s].next

------------------------------------------------------------------------------
\* A new database, or one that an earlier version of the program has made for
\* the worlds of `old'.
Init ==
    /\ \E old \in SUBSET Server :
          /\ tables = IF old = {} THEN 0 ELSE All
          /\ version = [w \in old |-> SqlNull]
    /\ columns = [c \in Column |-> IF c = "playtime" THEN "old" ELSE "none"]
    /\ widened = {} /\ links = {}
    /\ server = [s \in Server |-> [at |-> "down", next |-> 0]]
    /\ last = 0 /\ failures = 0
    /\ cut = {} /\ overtaken = {}

Start(s) ==
    /\ server[s].at \in {"down", "error"}
    /\ Goes(s, "count", 0)
    /\ overtaken' = overtaken \ {s}
    /\ UNCHANGED << schema, version, links, last, failures, cut >>

\* termdb.
Stop(s) ==
    /\ At(s, "ready")
    /\ Goes(s, "down", 0)
    /\ UNCHANGED << schema, version, links, last, failures, history >>

\* The server dies, or its statement fails and the call throws.
Break(s) ==
    /\ Up(s)
    /\ failures < MaxFailures /\ failures' = failures + 1
    /\ Goes(s, "down", 0)
    /\ cut' = cut \cup
          (IF At(s, "first") /\ Step(s) > 1 THEN {"0001"} ELSE {}) \cup
          (IF At(s, "create") /\ tables \in worldvariables..All - 1
           THEN {"tables"} ELSE {})
    /\ UNCHANGED << schema, version, links, last, overtaken >>

Throw(s) ==
    /\ Goes(s, "error", 0)
    /\ UNCHANGED << schema, version, links, last, failures, history >>

------------------------------------------------------------------------------
(* checkMigration.                                                          *)

\* Faulty variant of TooFew: any table will do.
TooFewIfNone == tables < 1

TooFew == tables < 15

CountTables(s) ==
    /\ At(s, "count")
    /\ IF TooFew THEN Goes(s, "create", 1) ELSE Goes(s, "describe", 0)
    /\ UNCHANGED << schema, version, links, last, failures, history >>

\* A statement of a script fails, not the first, and the rest is skipped.
Skip(s, script, place) ==
    /\ failures < MaxFailures /\ failures' = failures + 1
    /\ Goes(s, place, 0)
    /\ cut' = cut \cup {script}
    /\ UNCHANGED << schema, version, links, last, overtaken >>

\* CREATE TABLE IF NOT EXISTS, CREATE OR REPLACE VIEW.  SETs come first.
Create(s) ==
    /\ At(s, "create")
    /\ \/ /\ IF Step(s) = All THEN Goes(s, "describe", 0)
                               ELSE Goes(s, "create", Step(s) + 1)
          /\ tables' = IF tables < Step(s) THEN Step(s) ELSE tables
          /\ UNCHANGED << columns, widened, version, links, last, failures, history >>
       \/ Skip(s, IF tables < worldvariables THEN "skipped" ELSE "tables", "describe")

\* Faulty variant of Describe: 0001 is tried every time.
DescribeBlindly(s) ==
    /\ At(s, "describe")
    /\ Goes(s, "first", 1)
    /\ UNCHANGED << schema, version, links, last, failures, history >>

Describe(s) ==
    /\ At(s, "describe")
    /\ \/ tables < world /\ Throw(s)
       \/ /\ tables >= world
          /\ IF columns["schema_version"] = "none"
             THEN Goes(s, "first", 1) ELSE Goes(s, "version", 0)
          /\ UNCHANGED << schema, version, links, last, failures, history >>

\* DROP COLUMN needs the column, ADD COLUMN needs that it is not there.
Refused(st) ==
    \/ tables < st.table
    \/ (st.to = "none") = (columns[st.col] = "none")

First(s) ==
    LET n == Step(s)
        st == FirstChange[n]
        done == IF n = Len(FirstChange) THEN Goes(s, "version", 0)
                                        ELSE Goes(s, "first", n + 1)
    IN
    /\ At(s, "first")
    /\ \/ /\ ~Refused(st) /\ done
          /\ columns' = [columns EXCEPT ![st.col] = st.to]
          /\ overtaken' = IF n > 1 THEN overtaken ELSE
                overtaken \cup {t \in Server \ {s} : At(t, "first")}
          /\ UNCHANGED << tables, widened, version, links, last, failures, cut >>
       \/ Refused(st) /\ n = 1 /\ Throw(s)
       \/ /\ Refused(st) /\ n > 1
          /\ Goes(s, "version", 0)
          /\ UNCHANGED << schema, version, links, last, failures, history >>
       \/ n > 1 /\ Skip(s, "0001", "version")

\* SELECT MIN(schema_version): NULLs do not count.  No number at all is an
\* error that is caught, and leaves 1.
CurrentVersion ==
    IF \E w \in DOMAIN version : version[w] # SqlNull THEN SchemaVersion ELSE 1

\* Faulty variant of GetVersion: the new version is recorded too early.
GetVersionRecords(s) ==
    /\ At(s, "version")
    /\ IF CurrentVersion = 1 THEN Goes(s, "second", 1) ELSE Goes(s, "record", 0)
    /\ version' = [w \in DOMAIN version |-> SchemaVersion]
    /\ UNCHANGED << schema, links, last, failures, history >>

GetVersion(s) ==
    /\ At(s, "version")
    /\ IF CurrentVersion = 1 THEN Goes(s, "second", 1) ELSE Goes(s, "record", 0)
    /\ UNCHANGED << schema, version, links, last, failures, history >>

\* Faulty variant of Second: one statement more than there are.
SecondTooFar(s) ==
    LET n == Step(s) IN
    /\ At(s, "second")
    /\ widened' = widened \cup {n}
    /\ IF n > Len(SecondChange) THEN Goes(s, "record", 0) ELSE Goes(s, "second", n + 1)
    /\ UNCHANGED << tables, columns, version, links, last, failures, history >>

Second(s) ==
    LET n == Step(s)
        missing == tables < SecondChange[n]
    IN
    /\ At(s, "second")
    /\ \/ /\ ~missing
          /\ widened' = widened \cup {n}
          /\ IF n = Len(SecondChange) THEN Goes(s, "record", 0)
                                      ELSE Goes(s, "second", n + 1)
          /\ UNCHANGED << tables, columns, version, links, last, failures, history >>
       \/ /\ missing
          /\ Goes(s, "record", 0)
          /\ UNCHANGED << schema, version, links, last, failures, history >>
       \/ n > 1 /\ Skip(s, "0002", "record")

Record(s) ==
    /\ At(s, "record")
    /\ version' = [w \in DOMAIN version |-> SchemaVersion]
    /\ Goes(s, "world", 0)
    /\ UNCHANGED << schema, links, last, failures, history >>

------------------------------------------------------------------------------
(* checkWorldUUID, checkWorldVARIABLES, the rest of the pool.               *)

FindWorld(s) ==
    /\ At(s, "world")
    /\ Goes(s, IF s \in DOMAIN version THEN "setworld" ELSE "addworld", 0)
    /\ UNCHANGED << schema, version, links, last, failures, history >>

PutWorld(s) ==
    /\ server[s].at \in {"addworld", "setworld"}
    /\ version' = [w \in DOMAIN version \cup {s} |->
                      IF w = s THEN SchemaVersion ELSE version[w]]
    /\ Goes(s, "vars", 0)
    /\ UNCHANGED << schema, links, last, failures, history >>

HasVars(w) == \E l \in links : l[1] = w

\* Faulty variant of FindVars: variables are added at every start.
FindVarsNever(s) ==
    /\ At(s, "vars")
    /\ Goes(s, "addvars", 0)
    /\ UNCHANGED << schema, version, links, last, failures, history >>

\* (Variables that the call brings along replace those of the world.)
FindVars(s) ==
    /\ At(s, "vars")
    /\ \/ tables < worldvariables /\ Throw(s)
       \/ /\ tables >= worldvariables
          /\ Goes(s, IF HasVars(s) THEN "connect" ELSE "addvars", 0)
          /\ UNCHANGED << schema, version, links, last, failures, history >>

AddVars(s) ==
    /\ At(s, "addvars")
    /\ last' = last + 1
    /\ Goes(s, "linkvars", last')
    /\ UNCHANGED << schema, version, links, failures, history >>

LinkVars(s) ==
    /\ At(s, "linkvars")
    /\ links' = links \cup {<< s, Step(s) >>}
    /\ Goes(s, "connect", 0)
    /\ UNCHANGED << schema, version, last, failures, history >>

Connect(s) ==
    /\ At(s, "connect")
    /\ Goes(s, "ready", 0)
    /\ UNCHANGED << schema, version, links, last, failures, history >>

------------------------------------------------------------------------------
Next == \E s \in Server :
    \/ Start(s) \/ Stop(s) \/ Break(s)
    \/ CountTables(s) \/ Create(s) \/ Describe(s) \/ First(s)
    \/ GetVersion(s) \/ Second(s) \/ Record(s)
    \/ FindWorld(s) \/ PutWorld(s) \/ FindVars(s) \/ AddVars(s) \/ LinkVars(s)
    \/ Connect(s)

Spec == Init /\ [][Next]_vars

------------------------------------------------------------------------------
\* The state is well formed: statements exist, links and rows too.
TypeOK ==
    /\ tables \in 0..All
    /\ columns \in [Column -> {"none", "old", "new"}]
    /\ widened \subseteq 1..Len(SecondChange)
    /\ DOMAIN version \subseteq Server
    /\ \A w \in DOMAIN version : version[w] \in {SqlNull, SchemaVersion}
    /\ links \subseteq (DOMAIN version) \X (1..last)
    /\ last \in Nat /\ failures \in 0..MaxFailures
    /\ cut \subseteq {"tables", "skipped", "0001", "0002"} /\ overtaken \subseteq Server
    /\ server \in [Server -> [at : Place, next : Nat]]
    /\ \A s \in Server :
          /\ At(s, "create") => Step(s) \in 1..All
          /\ At(s, "first") => Step(s) \in 1..Len(FirstChange)
          /\ At(s, "second") => Step(s) \in 1..Len(SecondChange)
          /\ At(s, "linkvars") => Step(s) \in 1..last

\* A server that has answered initdb finds the whole schema, whoever made it
\* and however often that was begun anew: but for a script that was cut short
\* where no later start repairs it, or that another server is at just now.
SchemaComplete ==
    \A s \in Server : At(s, "ready") =>
        /\ \/ tables = All
           \/ "tables" \in cut
           \/ \E t \in Server : At(t, "create")
        /\ \/ \A c \in Column : columns[c] = "new"
           \/ cut \cap {"skipped", "0001"} # {}
           \/ \E t \in Server : At(t, "first") /\ Step(t) > 1

\* The version that a row of world shows is the schema's: with the first
\* row at 2, no start runs 0002 again (checkMigration, case 1), so all of it
\* must be done, unless one of its statements was skipped in silence.
VersionBacked ==
    (\E w \in DOMAIN version : version[w] = SchemaVersion)
        => \/ widened = 1..Len(SecondChange)
           \/ cut \cap {"skipped", "0002"} # {}

\* No retry gives a world a second set of variables (checkWorldVARIABLES),
\* for then getWorldVariables' subquery had two rows and always failed; and a
\* server that is ready has its world and its variables.
OneVars ==
    /\ \A l, m \in links : l[1] = m[1] => l = m
    /\ \A s \in Server : At(s, "ready") => HasVars(s)

\* Whatever an earlier start has left behind, a new one does not fail by it:
\* without a failure of its own initdb throws only if another server has
\* overtaken it at 0001, or if tables are missing that were skipped.
Recovers ==
    \A s \in Server : At(s, "error") => s \in overtaken \/ "skipped" \in cut

\* mysql.cpp:740 "MIGRATION 0001 ALREADY APPLIED": a server that finds the
\* column schema_version goes on because 0001 was applied.
AlreadyApplied ==
    [][\A s \in Server :
          At(s, "describe") /\ server'[s].at = "version"
              => \A c \in Column : columns[c] = "new"]_vars
================================================================================
