---------------------------- MODULE MigrationProofs ----------------------------
(***************************************************************************)
(* The inductive invariant of Migration, in a part for each thing that a   *)
(* start relies on: the tables, the columns of 0001, the statements of     *)
(* 0002, the world's row and its variables.                                *)
(***************************************************************************)
EXTENDS Migration, TLAPS

USE BoundAssumption

AfterCreate == {"ready", "describe", "first", "version", "second", "record",
                "world", "addworld", "setworld", "vars", "addvars", "linkvars",
                "connect"}
AfterFirst == AfterCreate \ {"describe", "first"}
AfterSecond == AfterFirst \ {"version", "second"}
WithWorld == AfterSecond \ {"record", "world", "addworld"}
WithTables == {"addvars", "linkvars", "connect", "ready"}

WorldInv == \A s \in Server : server[s].at \in WithWorld => s \in DOMAIN version

TablesInv ==
    /\ \A s \in Server : server[s].at \in AfterCreate
          => tables >= worldvariables \/ "skipped" \in cut
    /\ \A s \in Server : At(s, "first") => tables >= world
    /\ \A s \in Server : server[s].at \in WithTables => tables >= worldvariables
    /\ \/ tables < worldvariables \/ tables = All \/ "tables" \in cut
       \/ \E t \in Server : At(t, "create")

\* The columns c when the first n - 1 statements of 0001 are done.
Are(c, v, p, m, l) ==
    /\ c["schema_version"] = v /\ c["playtime"] = p
    /\ c["member id"] = m /\ c["link id"] = l
AtStage(c, n) ==
    \/ n = 1 /\ Are(c, "none", "old", "none", "none")
    \/ n = 2 /\ Are(c, "new", "old", "none", "none")
    \/ n = 3 /\ Are(c, "new", "none", "none", "none")
    \/ n = 4 /\ Are(c, "new", "new", "none", "none")
    \/ n = 5 /\ Are(c, "new", "new", "new", "none")
    \/ n = 6 /\ Are(c, "new", "new", "new", "new")
Halfway(s) == At(s, "first") /\ Step(s) > 1
ColumnsInv ==
    /\ \A s, t \in Server : Halfway(s) /\ Halfway(t) => s = t
    /\ \A s \in Server : Halfway(s) => AtStage(columns, Step(s))
    /\ \A s \in Server : At(s, "first") /\ Step(s) = 1
          => columns["schema_version"] = "none" \/ s \in overtaken
    /\ \A s \in Server : server[s].at \in AfterFirst => columns["schema_version"] # "none"
    /\ \/ AtStage(columns, 1)
       \/ /\ columns["schema_version"] # "none"
          /\ \/ AtStage(columns, 6) \/ cut \cap {"skipped", "0001"} # {}
             \/ \E t \in Server : Halfway(t)

Widened == widened = 1..4 \/ cut \cap {"skipped", "0002"} # {}
VersionInv ==
    /\ \A s \in Server : At(s, "second") => 1..(Step(s) - 1) \subseteq widened
    /\ \A s \in Server : server[s].at \in AfterSecond => Widened
    /\ VersionBacked

VarsInv ==
    /\ \A l, m \in links : l[1] = m[1] => l = m
    /\ \A s \in Server : server[s].at \in {"addvars", "linkvars"} => ~HasVars(s)
    /\ \A s \in Server : server[s].at \in {"connect", "ready"} => HasVars(s)

IInv == TypeOK /\ WorldInv /\ TablesInv /\ ColumnsInv /\ VersionInv /\ VarsInv /\ Recovers

------------------------------------------------------------------------------
(* The scripts, statement by statement.                                     *)

\* What a step of the server s may be.
Action(s) ==
    \/ Start(s) \/ Stop(s) \/ Break(s)
    \/ CountTables(s) \/ Create(s) \/ Describe(s) \/ First(s)
    \/ GetVersion(s) \/ Second(s) \/ Record(s)
    \/ FindWorld(s) \/ PutWorld(s) \/ FindVars(s) \/ AddVars(s) \/ LinkVars(s)
    \/ Connect(s)

\* 0001 has five statements.
LEMMA FirstScript ==
    /\ Len(FirstChange) = 5
    /\ FirstChange[1].table = 1 /\ FirstChange[1].col = "schema_version" /\ FirstChange[1].to = "new"
    /\ FirstChange[2].table = 3 /\ FirstChange[2].col = "playtime" /\ FirstChange[2].to = "none"
    /\ FirstChange[3].table = 3 /\ FirstChange[3].col = "playtime" /\ FirstChange[3].to = "new"
    /\ FirstChange[4].table = 14 /\ FirstChange[4].col = "member id" /\ FirstChange[4].to = "new"
    /\ FirstChange[5].table = 8 /\ FirstChange[5].col = "link id" /\ FirstChange[5].to = "new"
  BY DEF FirstChange, world, player, clanmember, linkedworlds

\* 0002 has four statements, on tables among the first 15.
LEMMA SecondScript ==
    /\ Len(SecondChange) = 4
    /\ \A n \in 1..4 : SecondChange[n] \in 1..14
  BY DEF SecondChange, world, clan, clanmember, killinfo

\* Every statement of 0001 makes a column new or removes it.
LEMMA FirstEffect ==
    ASSUME NEW n \in 1..5
    PROVE  FirstChange[n].to \in {"none", "new"} /\ FirstChange[n].col \in Column
  <1>1. CASE n = 1
    BY <1>1, FirstScript DEF Column
  <1>2. CASE n = 2
    BY <1>2, FirstScript DEF Column
  <1>3. CASE n = 3
    BY <1>3, FirstScript DEF Column
  <1>4. CASE n = 4
    BY <1>4, FirstScript DEF Column
  <1>5. CASE n = 5
    BY <1>5, FirstScript DEF Column
  <1> QED
    BY <1>1, <1>2, <1>3, <1>4, <1>5

------------------------------------------------------------------------------
(* Where the servers are.                                                   *)

\* A server goes to the given place, the others stay where they are.
LEMMA Moves ==
    ASSUME TypeOK, NEW s \in Server, NEW p \in Place, NEW n \in Nat, Goes(s, p, n)
    PROVE  /\ server' \in [Server -> [at : Place, next : Nat]]
           /\ server'[s].at = p /\ server'[s].next = n
           /\ \A t \in Server \ {s} : server'[t] = server[t]
  BY DEF TypeOK, Goes

\* What a step of the server s does to the servers.
Fits(p, n) ==
    /\ p = "create" => n \in 1..All
    /\ p = "first" => n \in 1..5
    /\ p = "second" => n \in 1..4
    /\ p = "linkvars" => n \in 1..last'
Leads(s) ==
    /\ server' \in [Server -> [at : Place, next : Nat]]
    /\ \A t \in Server \ {s} : server'[t] = server[t]
    /\ Fits(server'[s].at, server'[s].next)

\* Going to a statement that exists.
LEMMA GoesLeads ==
    ASSUME TypeOK, NEW s \in Server, NEW p \in Place, NEW n \in Nat, Fits(p, n),
           Goes(s, p, n)
    PROVE  Leads(s)
  BY Moves DEF Leads

\* A step of the server s moves s alone, to a statement that exists.
LEMMA Lead ==
    ASSUME TypeOK, NEW s \in Server, Action(s)
    PROVE  Leads(s)
  <1>a. /\ At(s, "create") => Step(s) \in 1..All
        /\ At(s, "first") => Step(s) \in 1..5
        /\ At(s, "second") => Step(s) \in 1..4
        /\ last \in Nat
    BY FirstScript, SecondScript DEF TypeOK
  <1>1. CASE Start(s)
    <2>1. CASE Goes(s, "count", 0)
      BY <2>1, GoesLeads DEF Fits, Place, All
    <2> QED
      BY <1>1, <2>1 DEF Start
  <1>2. CASE Stop(s)
    <2>1. CASE Goes(s, "down", 0)
      BY <2>1, GoesLeads DEF Fits, Place, All
    <2> QED
      BY <1>2, <2>1 DEF Stop
  <1>3. CASE Break(s)
    <2>1. CASE Goes(s, "down", 0)
      BY <2>1, GoesLeads DEF Fits, Place, All
    <2> QED
      BY <1>3, <2>1 DEF Break
  <1>4. CASE CountTables(s)
    <2>1. CASE Goes(s, "create", 1)
      BY <2>1, GoesLeads DEF Fits, Place, All
    <2>2. CASE Goes(s, "describe", 0)
      BY <2>2, GoesLeads DEF Fits, Place, All
    <2> QED
      BY <1>4, <2>1, <2>2 DEF CountTables, TooFew
  <1>5. CASE Create(s)
    <2>1. CASE Goes(s, "describe", 0)
      BY <2>1, GoesLeads DEF Fits, Place, All
    <2>2. CASE At(s, "create") /\ Step(s) # All /\ Goes(s, "create", Step(s) + 1)
      BY <1>a, <2>2, GoesLeads DEF Fits, Place, All
    <2> QED
      BY <1>5, <2>1, <2>2 DEF Create, Skip, Throw, All
  <1>6. CASE Describe(s)
    <2>1. CASE Goes(s, "error", 0)
      BY <2>1, GoesLeads DEF Fits, Place, All
    <2>2. CASE Goes(s, "first", 1)
      BY <2>2, GoesLeads DEF Fits, Place, All
    <2>3. CASE Goes(s, "version", 0)
      BY <2>3, GoesLeads DEF Fits, Place, All
    <2> QED
      BY <1>6, <2>1, <2>2, <2>3 DEF Describe, Throw
  <1>7. CASE First(s)
    <2>1. CASE Goes(s, "version", 0)
      BY <2>1, GoesLeads DEF Fits, Place, All
    <2>2. CASE At(s, "first") /\ Step(s) # 5 /\ Goes(s, "first", Step(s) + 1)
      BY <1>a, <2>2, GoesLeads DEF Fits, Place, All
    <2>3. CASE Goes(s, "error", 0)
      BY <2>3, GoesLeads DEF Fits, Place, All
    <2> QED
      BY <1>7, <2>1, <2>2, <2>3, FirstScript, SecondScript DEF First, Skip, Throw, Refused
  <1>8. CASE GetVersion(s)
    <2>1. CASE Goes(s, "second", 1)
      BY <2>1, GoesLeads DEF Fits, Place, All
    <2>2. CASE Goes(s, "record", 0)
      BY <2>2, GoesLeads DEF Fits, Place, All
    <2> QED
      BY <1>8, <2>1, <2>2 DEF GetVersion
  <1>9. CASE Second(s)
    <2>1. CASE Goes(s, "record", 0)
      BY <2>1, GoesLeads DEF Fits, Place, All
    <2>2. CASE At(s, "second") /\ Step(s) # 4 /\ Goes(s, "second", Step(s) + 1)
      BY <1>a, <2>2, GoesLeads DEF Fits, Place, All
    <2> QED
      BY <1>9, <2>1, <2>2, FirstScript, SecondScript DEF Second, Skip
  <1>10. CASE Record(s)
    <2>1. CASE Goes(s, "world", 0)
      BY <2>1, GoesLeads DEF Fits, Place, All
    <2> QED
      BY <1>10, <2>1 DEF Record
  <1>11. CASE FindWorld(s)
    <2>1. CASE Goes(s, "setworld", 0)
      BY <2>1, GoesLeads DEF Fits, Place, All
    <2>2. CASE Goes(s, "addworld", 0)
      BY <2>2, GoesLeads DEF Fits, Place, All
    <2> QED
      BY <1>11, <2>1, <2>2 DEF FindWorld
  <1>12. CASE PutWorld(s)
    <2>1. CASE Goes(s, "vars", 0)
      BY <2>1, GoesLeads DEF Fits, Place, All
    <2> QED
      BY <1>12, <2>1 DEF PutWorld
  <1>13. CASE FindVars(s)
    <2>1. CASE Goes(s, "error", 0)
      BY <2>1, GoesLeads DEF Fits, Place, All
    <2>2. CASE Goes(s, "connect", 0)
      BY <2>2, GoesLeads DEF Fits, Place, All
    <2>3. CASE Goes(s, "addvars", 0)
      BY <2>3, GoesLeads DEF Fits, Place, All
    <2> QED
      BY <1>13, <2>1, <2>2, <2>3 DEF FindVars, Throw
  <1>14. CASE AddVars(s)
    <2>1. last' = last + 1 /\ Goes(s, "linkvars", last')
      BY <1>14 DEF AddVars
    <2>2. Fits("linkvars", last') /\ last' \in Nat /\ "linkvars" \in Place
      BY <1>a, <2>1 DEF Fits, Place
    <2> QED
      BY <2>1, <2>2, GoesLeads
  <1>15. CASE LinkVars(s)
    <2>1. CASE Goes(s, "connect", 0)
      BY <2>1, GoesLeads DEF Fits, Place, All
    <2> QED
      BY <1>15, <2>1 DEF LinkVars
  <1>16. CASE Connect(s)
    <2>1. CASE Goes(s, "ready", 0)
      BY <2>1, GoesLeads DEF Fits, Place, All
    <2> QED
      BY <1>16, <2>1 DEF Connect
  <1> QED
    BY <1>1, <1>2, <1>3, <1>4, <1>5, <1>6, <1>7, <1>8, <1>9, <1>10, <1>11, <1>12, <1>13, <1>14, <1>15, <1>16 DEF Action

\* Where a server goes it is.
LEMMA GoesTo ==
    ASSUME TypeOK, NEW s \in Server
    PROVE  \A p, n : Goes(s, p, n) => server'[s].at = p /\ server'[s].next = n
  BY DEF TypeOK, Goes

------------------------------------------------------------------------------
(* One lemma for each part of the invariant.                                *)

\* The types of all but the servers.
DataOK ==
    /\ tables \in 0..All
    /\ columns \in [Column -> {"none", "old", "new"}]
    /\ widened \subseteq 1..4
    /\ DOMAIN version \subseteq Server
    /\ \A w \in DOMAIN version : version[w] \in {SqlNull, SchemaVersion}
    /\ links \subseteq (DOMAIN version) \X (1..last)
    /\ last \in Nat /\ failures \in 0..MaxFailures
    /\ cut \subseteq {"tables", "skipped", "0001", "0002"} /\ overtaken \subseteq Server

\* Skipping the rest of a script is noted as what it is, and counted.
LEMMA SkipOK ==
    ASSUME DataOK, NEW s \in Server, NEW place,
           NEW script \in {"tables", "skipped", "0001", "0002"}, Skip(s, script, place)
    PROVE  /\ cut' = cut \cup {script}
           /\ cut' \subseteq {"tables", "skipped", "0001", "0002"}
           /\ failures' \in 0..MaxFailures
  BY DEF DataOK, Skip

\* Every step keeps the types, and links only worlds that have a row.
LEMMA DataStep ==
    ASSUME TypeOK, WorldInv, NEW s \in Server, Action(s)
    PROVE  DataOK'
  <1>a. DataOK /\ (At(s, "linkvars") => Step(s) \in 1..last /\ s \in DOMAIN version)
        /\ (At(s, "create") => Step(s) \in 1..All)
        /\ (At(s, "first") => Step(s) \in 1..5)
        /\ (At(s, "second") => Step(s) \in 1..4)
    BY FirstScript, SecondScript
    DEF DataOK, TypeOK, WorldInv, WithWorld, AfterSecond, AfterFirst, AfterCreate, At
  <1>1. CASE Start(s)
    BY <1>1, <1>a, FirstScript, SecondScript
    DEF Start, DataOK, All, schema, history
  <1>2. CASE Stop(s)
    BY <1>2, <1>a, FirstScript, SecondScript
    DEF Stop, DataOK, All, schema, history
  <1>3. CASE Break(s)
    <2>1. cut' \subseteq {"tables", "skipped", "0001", "0002"}
      BY <1>3, <1>a DEF Break, DataOK
    <2>2. failures' \in 0..MaxFailures
      BY <1>3, <1>a DEF Break, DataOK
    <2> QED
      BY <1>3, <1>a, <2>1, <2>2 DEF Break, DataOK, schema
  <1>4. CASE CountTables(s)
    BY <1>4, <1>a, FirstScript, SecondScript
    DEF CountTables, TooFew, DataOK, All, schema, history
  <1>5. CASE Create(s)
    <2>1. tables' \in 0..All
      BY <1>5, <1>a DEF Create, Skip, DataOK, All, schema
    <2>2. cut' \subseteq {"tables", "skipped", "0001", "0002"} /\ failures' \in 0..MaxFailures
      <3>1. CASE Skip(s, "tables", "describe") \/ Skip(s, "skipped", "describe")
        BY <3>1, <1>a, SkipOK
      <3>2. CASE UNCHANGED << failures, cut >>
        BY <3>2, <1>a DEF DataOK
      <3> QED
        BY <1>5, <3>1, <3>2 DEF Create, history
    <2> QED
      BY <1>5, <1>a, <2>1, <2>2 DEF Create, Skip, DataOK, schema, history
  <1>6. CASE Describe(s)
    BY <1>6, <1>a, FirstScript, SecondScript
    DEF Describe, Throw, DataOK, All, schema, history
  <1>7. CASE First(s)
    <2>1. columns' \in [Column -> {"none", "old", "new"}]
      <3>1. FirstChange[Step(s)].to \in {"none", "new"}
        BY <1>7, <1>a, FirstEffect DEF First
      <3> QED
        BY <1>7, <1>a, <3>1 DEF First, Skip, Throw, DataOK, schema
    <2>2. cut' \subseteq {"tables", "skipped", "0001", "0002"} /\ failures' \in 0..MaxFailures
      <3>1. CASE Skip(s, "0001", "version")
        BY <3>1, <1>a, SkipOK
      <3>2. CASE UNCHANGED << failures, cut >>
        BY <3>2, <1>a DEF DataOK
      <3> QED
        BY <1>7, <3>1, <3>2 DEF First, Throw, history
    <2>3. overtaken' \subseteq Server
      BY <1>7, <1>a DEF First, Skip, Throw, DataOK, history
    <2> QED
      BY <1>7, <1>a, <2>1, <2>2, <2>3 DEF First, Skip, Throw, DataOK, schema, history
  <1>8. CASE GetVersion(s)
    BY <1>8, <1>a, FirstScript, SecondScript
    DEF GetVersion, DataOK, All, schema, history
  <1>9. CASE Second(s)
    <2>1. widened' \subseteq 1..4
      BY <1>9, <1>a DEF Second, Skip, DataOK, schema
    <2>2. cut' \subseteq {"tables", "skipped", "0001", "0002"} /\ failures' \in 0..MaxFailures
      <3>1. CASE Skip(s, "0002", "record")
        BY <3>1, <1>a, SkipOK
      <3>2. CASE UNCHANGED << failures, cut >>
        BY <3>2, <1>a DEF DataOK
      <3> QED
        BY <1>9, <3>1, <3>2 DEF Second, history
    <2> QED
      BY <1>9, <1>a, <2>1, <2>2 DEF Second, Skip, DataOK, schema, history
  <1>10. CASE Record(s)
    BY <1>10, <1>a, FirstScript, SecondScript
    DEF Record, DataOK, All, schema, history
  <1>11. CASE FindWorld(s)
    BY <1>11, <1>a, FirstScript, SecondScript
    DEF FindWorld, DataOK, All, schema, history
  <1>12. CASE PutWorld(s)
    BY <1>12, <1>a, FirstScript, SecondScript
    DEF PutWorld, DataOK, All, schema, history
  <1>13. CASE FindVars(s)
    BY <1>13, <1>a, FirstScript, SecondScript
    DEF FindVars, Throw, DataOK, All, schema, history
  <1>14. CASE AddVars(s)
    <2>1. last \in Nat /\ last' = last + 1 /\ links' = links /\ version' = version
      BY <1>14, <1>a DEF AddVars, DataOK
    <2>2. last' \in Nat /\ 1..last \subseteq 1..last'
      BY <2>1
    <2>3. links' \subseteq (DOMAIN version') \X (1..last')
      BY <1>a, <2>1, <2>2 DEF DataOK
    <2> QED
      BY <1>14, <1>a, <2>2, <2>3 DEF AddVars, DataOK, schema, history
  <1>15. CASE LinkVars(s)
    <2>1. links' \subseteq (DOMAIN version') \X (1..last')
      BY <1>15, <1>a DEF LinkVars, DataOK
    <2> QED
      BY <1>15, <1>a, <2>1 DEF LinkVars, DataOK, schema, history
  <1>16. CASE Connect(s)
    BY <1>16, <1>a, FirstScript, SecondScript
    DEF Connect, DataOK, All, schema, history
  <1> QED
    BY <1>1, <1>2, <1>3, <1>4, <1>5, <1>6, <1>7, <1>8, <1>9, <1>10, <1>11, <1>12, <1>13, <1>14, <1>15, <1>16 DEF Action

\* Rows, tables and notes of what was cut are never lost.
Grows ==
    /\ last <= last' /\ tables <= tables'
    /\ DOMAIN version \subseteq DOMAIN version'
    /\ widened \subseteq widened' /\ cut \subseteq cut' /\ links \subseteq links'

\* No step takes a row, a table or a note away.
LEMMA Growth ==
    ASSUME TypeOK, NEW s \in Server, Action(s)
    PROVE  Grows
  <1>a. tables \in Int /\ last \in Int /\ Step(s) \in Nat
    BY DEF TypeOK, Step
  <1>1. CASE Start(s)
    BY <1>1, <1>a
    DEF Start, Grows, schema, history
  <1>2. CASE Stop(s)
    BY <1>2, <1>a
    DEF Stop, Grows, schema, history
  <1>3. CASE Break(s)
    BY <1>3, <1>a
    DEF Break, Grows, schema, history
  <1>4. CASE CountTables(s)
    BY <1>4, <1>a
    DEF CountTables, TooFew, Grows, schema, history
  <1>5. CASE Create(s)
    BY <1>5, <1>a
    DEF Create, Skip, Throw, All, Grows, schema, history
  <1>6. CASE Describe(s)
    BY <1>6, <1>a
    DEF Describe, Throw, Grows, schema, history
  <1>7. CASE First(s)
    BY <1>7, <1>a
    DEF First, Skip, Throw, Refused, Grows, schema, history
  <1>8. CASE GetVersion(s)
    BY <1>8, <1>a
    DEF GetVersion, Grows, schema, history
  <1>9. CASE Second(s)
    BY <1>9, <1>a
    DEF Second, Skip, Grows, schema, history
  <1>10. CASE Record(s)
    BY <1>10, <1>a
    DEF Record, Grows, schema, history
  <1>11. CASE FindWorld(s)
    BY <1>11, <1>a
    DEF FindWorld, Grows, schema, history
  <1>12. CASE PutWorld(s)
    BY <1>12, <1>a
    DEF PutWorld, Grows, schema, history
  <1>13. CASE FindVars(s)
    BY <1>13, <1>a
    DEF FindVars, Throw, Grows, schema, history
  <1>14. CASE AddVars(s)
    BY <1>14, <1>a
    DEF AddVars, Grows, schema, history
  <1>15. CASE LinkVars(s)
    BY <1>15, <1>a
    DEF LinkVars, Grows, schema, history
  <1>16. CASE Connect(s)
    BY <1>16, <1>a
    DEF Connect, Grows, schema, history
  <1> QED
    BY <1>1, <1>2, <1>3, <1>4, <1>5, <1>6, <1>7, <1>8, <1>9, <1>10, <1>11, <1>12, <1>13, <1>14, <1>15, <1>16 DEF Action

\* Every step keeps the types, of the servers too.
LEMMA TypeStep ==
    ASSUME TypeOK, WorldInv, NEW s \in Server, Action(s)
    PROVE  TypeOK'
  <1>1. DataOK' /\ Leads(s) /\ last <= last' /\ last \in Nat
    BY DataStep, Lead, Growth DEF Grows, TypeOK
  <1>2. ASSUME NEW t \in Server
        PROVE  /\ server'[t].at = "create" => server'[t].next \in 1..All
               /\ server'[t].at = "first" => server'[t].next \in 1..5
               /\ server'[t].at = "second" => server'[t].next \in 1..4
               /\ server'[t].at = "linkvars" => server'[t].next \in 1..last'
    <2>1. CASE t = s
      BY <1>1, <2>1 DEF Leads, Fits
    <2>2. CASE t # s
      <3>1. server'[t] = server[t]
        BY <1>1, <2>2 DEF Leads
      <3>2. last' \in Nat /\ server[t].next \in Nat
        BY <1>1 DEF DataOK, TypeOK
      <3>3. /\ server[t].at = "create" => server[t].next \in 1..All
            /\ server[t].at = "first" => server[t].next \in 1..5
            /\ server[t].at = "second" => server[t].next \in 1..4
            /\ server[t].at = "linkvars" => server[t].next \in 1..last
        BY FirstScript, SecondScript DEF TypeOK, At, Step
      <3>4. server[t].at = "linkvars" => server[t].next \in 1..last'
        BY <1>1, <3>2, <3>3
      <3> QED
        BY <3>1, <3>3, <3>4
    <2> QED
      BY <2>1, <2>2
  <1> QED
    BY <1>1, <1>2, FirstScript, SecondScript DEF TypeOK, DataOK, Leads, At, Step

\* The row of a world is there before what follows.
LEMMA WorldStep ==
    ASSUME TypeOK, WorldInv, NEW s \in Server, Action(s)
    PROVE  WorldInv'
  <1>a. /\ \A t \in Server \ {s} : server'[t] = server[t]
        /\ DOMAIN version \subseteq DOMAIN version'
        /\ \A p, n : Goes(s, p, n) => server'[s].at = p
    BY Lead, Growth, GoesTo DEF Leads, Grows
  <1>b. SUFFICES ASSUME server'[s].at \in WithWorld PROVE s \in DOMAIN version'
    BY <1>a DEF WorldInv
  <1>c. server[s].at \in WithWorld => s \in DOMAIN version'
    BY <1>a DEF WorldInv
  <1>1. CASE Start(s)
    BY <1>1, <1>a, <1>b, <1>c
    DEF Start, At, WithWorld, AfterSecond, AfterFirst, AfterCreate
  <1>2. CASE Stop(s)
    BY <1>2, <1>a, <1>b, <1>c
    DEF Stop, At, WithWorld, AfterSecond, AfterFirst, AfterCreate
  <1>3. CASE Break(s)
    BY <1>3, <1>a, <1>b, <1>c
    DEF Break, At, WithWorld, AfterSecond, AfterFirst, AfterCreate
  <1>4. CASE CountTables(s)
    BY <1>4, <1>a, <1>b, <1>c
    DEF CountTables, TooFew, At, WithWorld, AfterSecond, AfterFirst, AfterCreate
  <1>5. CASE Create(s)
    BY <1>5, <1>a, <1>b, <1>c
    DEF Create, Skip, Throw, All, At, WithWorld, AfterSecond, AfterFirst, AfterCreate
  <1>6. CASE Describe(s)
    BY <1>6, <1>a, <1>b, <1>c
    DEF Describe, Throw, At, WithWorld, AfterSecond, AfterFirst, AfterCreate
  <1>7. CASE First(s)
    BY <1>7, <1>a, <1>b, <1>c
    DEF First, Skip, Throw, Refused, At, WithWorld, AfterSecond, AfterFirst, AfterCreate
  <1>8. CASE GetVersion(s)
    BY <1>8, <1>a, <1>b, <1>c
    DEF GetVersion, At, WithWorld, AfterSecond, AfterFirst, AfterCreate
  <1>9. CASE Second(s)
    BY <1>9, <1>a, <1>b, <1>c
    DEF Second, Skip, At, WithWorld, AfterSecond, AfterFirst, AfterCreate
  <1>10. CASE Record(s)
    BY <1>10, <1>a, <1>b, <1>c
    DEF Record, At, WithWorld, AfterSecond, AfterFirst, AfterCreate
  <1>11. CASE FindWorld(s)
    BY <1>11, <1>a, <1>b, <1>c
    DEF FindWorld, At, WithWorld, AfterSecond, AfterFirst, AfterCreate
  <1>12. CASE PutWorld(s)
    BY <1>12, <1>a, <1>b, <1>c
    DEF PutWorld, At, WithWorld, AfterSecond, AfterFirst, AfterCreate
  <1>13. CASE FindVars(s)
    BY <1>13, <1>a, <1>b, <1>c
    DEF FindVars, Throw, At, WithWorld, AfterSecond, AfterFirst, AfterCreate
  <1>14. CASE AddVars(s)
    BY <1>14, <1>a, <1>b, <1>c
    DEF AddVars, At, WithWorld, AfterSecond, AfterFirst, AfterCreate
  <1>15. CASE LinkVars(s)
    BY <1>15, <1>a, <1>b, <1>c
    DEF LinkVars, At, WithWorld, AfterSecond, AfterFirst, AfterCreate
  <1>16. CASE Connect(s)
    BY <1>16, <1>a, <1>b, <1>c
    DEF Connect, At, WithWorld, AfterSecond, AfterFirst, AfterCreate
  <1> QED
    BY <1>1, <1>2, <1>3, <1>4, <1>5, <1>6, <1>7, <1>8, <1>9, <1>10, <1>11, <1>12, <1>13, <1>14, <1>15, <1>16 DEF Action

\* The tables that a place relies on.
Tables(p, tb, c) ==
    /\ p \in AfterCreate => tb >= worldvariables \/ "skipped" \in c
    /\ p = "first" => tb >= world
    /\ p \in WithTables => tb >= worldvariables

\* The server that makes the step has the tables that it relies on.
LEMMA TablesHere ==
    ASSUME TypeOK, WorldInv, TablesInv, NEW s \in Server, Action(s)
    PROVE  Tables(server'[s].at, tables', cut')
  <1>a. /\ \A p, n : Goes(s, p, n) => server'[s].at = p
        /\ tables \in Int /\ tables' \in Int /\ tables <= tables' /\ cut \subseteq cut'
        /\ At(s, "create") => Step(s) \in 1..All
    <2>1. \A p, n : Goes(s, p, n) => server'[s].at = p
      BY GoesTo
    <2>2. tables <= tables' /\ cut \subseteq cut'
      BY Growth DEF Grows
    <2>3. tables \in Int /\ tables' \in Int
      <3>1. DataOK'
        BY DataStep
      <3> QED
        BY <3>1 DEF TypeOK, DataOK, All
    <2>4. At(s, "create") => Step(s) \in 1..All
      BY DEF TypeOK
    <2> QED
      BY <2>1, <2>2, <2>3, <2>4
  <1>b. Tables(server[s].at, tables, cut)
    BY DEF TablesInv, Tables, At
  <1>1. CASE Start(s)
    BY <1>1, <1>a, <1>b, FirstScript
    DEF Start, At, Step, Tables, WithTables, worldvariables, world, schema, history, AfterSecond, AfterFirst, AfterCreate
  <1>2. CASE Stop(s)
    BY <1>2, <1>a, <1>b, FirstScript
    DEF Stop, At, Step, Tables, WithTables, worldvariables, world, schema, history, AfterSecond, AfterFirst, AfterCreate
  <1>3. CASE Break(s)
    BY <1>3, <1>a, <1>b, FirstScript
    DEF Break, At, Step, Tables, WithTables, worldvariables, world, schema, history, AfterSecond, AfterFirst, AfterCreate
  <1>4. CASE CountTables(s)
    <2>1. CASE tables < 15
      BY <1>4, <1>a, <2>1 DEF CountTables, TooFew, Tables, WithTables, AfterCreate
    <2>2. CASE ~(tables < 15)
      <3>1. tables' >= worldvariables /\ server'[s].at = "describe"
        BY <1>4, <1>a, <2>2 DEF CountTables, TooFew, worldvariables, schema
      <3> QED
        BY <3>1 DEF Tables
    <2> QED
      BY <2>1, <2>2
  <1>5. CASE Create(s)
    <2>1. CASE Step(s) = All /\ Goes(s, "describe", 0) /\ tables' >= Step(s)
      <3>1. tables' >= worldvariables /\ server'[s].at = "describe"
        BY <1>a, <2>1 DEF All, worldvariables
      <3> QED
        BY <3>1 DEF Tables
    <2>2. CASE Goes(s, "create", Step(s) + 1)
      BY <1>a, <2>2 DEF Tables, WithTables, AfterCreate
    <2>3. CASE \/ Skip(s, "skipped", "describe")
               \/ ~(tables < worldvariables) /\ Skip(s, "tables", "describe")
      <3>1. server'[s].at = "describe" /\ (tables' >= worldvariables \/ "skipped" \in cut')
        BY <1>a, <2>3 DEF Skip, schema, worldvariables
      <3> QED
        BY <3>1 DEF Tables, WithTables
    <2>4. Step(s) \in 1..All /\ tables \in Int
      BY <1>5, <1>a DEF Create
    <2>5. \/ /\ IF Step(s) = All THEN Goes(s, "describe", 0)
                                  ELSE Goes(s, "create", Step(s) + 1)
             /\ tables' >= Step(s)
          \/ tables < worldvariables /\ Skip(s, "skipped", "describe")
          \/ ~(tables < worldvariables) /\ Skip(s, "tables", "describe")
      BY <1>5, <2>4 DEF Create
    <2> QED
      BY <2>1, <2>2, <2>3, <2>5, Zenon
  <1>6. CASE Describe(s)
    BY <1>6, <1>a, <1>b, FirstScript
    DEF Describe, Throw, At, Step, Tables, WithTables, worldvariables, world, schema, history, AfterSecond, AfterFirst, AfterCreate
  <1>7. CASE First(s)
    BY <1>7, <1>a, <1>b, FirstScript
    DEF First, Skip, Throw, Refused, At, Step, Tables, WithTables, worldvariables, world, schema, history, AfterSecond, AfterFirst, AfterCreate
  <1>8. CASE GetVersion(s)
    BY <1>8, <1>a, <1>b, FirstScript
    DEF GetVersion, At, Step, Tables, WithTables, worldvariables, world, schema, history, AfterSecond, AfterFirst, AfterCreate
  <1>9. CASE Second(s)
    BY <1>9, <1>a, <1>b, FirstScript
    DEF Second, Skip, At, Step, Tables, WithTables, worldvariables, world, schema, history, AfterSecond, AfterFirst, AfterCreate
  <1>10. CASE Record(s)
    BY <1>10, <1>a, <1>b, FirstScript
    DEF Record, At, Step, Tables, WithTables, worldvariables, world, schema, history, AfterSecond, AfterFirst, AfterCreate
  <1>11. CASE FindWorld(s)
    BY <1>11, <1>a, <1>b, FirstScript
    DEF FindWorld, At, Step, Tables, WithTables, worldvariables, world, schema, history, AfterSecond, AfterFirst, AfterCreate
  <1>12. CASE PutWorld(s)
    BY <1>12, <1>a, <1>b, FirstScript
    DEF PutWorld, At, Step, Tables, WithTables, worldvariables, world, schema, history, AfterSecond, AfterFirst, AfterCreate
  <1>13. CASE FindVars(s)
    BY <1>13, <1>a, <1>b, FirstScript
    DEF FindVars, Throw, At, Step, Tables, WithTables, worldvariables, world, schema, history, AfterSecond, AfterFirst, AfterCreate
  <1>14. CASE AddVars(s)
    BY <1>14, <1>a, <1>b, FirstScript
    DEF AddVars, At, Step, Tables, WithTables, worldvariables, world, schema, history, AfterSecond, AfterFirst, AfterCreate
  <1>15. CASE LinkVars(s)
    BY <1>15, <1>a, <1>b, FirstScript
    DEF LinkVars, At, Step, Tables, WithTables, worldvariables, world, schema, history, AfterSecond, AfterFirst, AfterCreate
  <1>16. CASE Connect(s)
    BY <1>16, <1>a, <1>b, FirstScript
    DEF Connect, At, Step, Tables, WithTables, worldvariables, world, schema, history, AfterSecond, AfterFirst, AfterCreate
  <1> QED
    BY <1>1, <1>2, <1>3, <1>4, <1>5, <1>6, <1>7, <1>8, <1>9, <1>10, <1>11, <1>12, <1>13, <1>14, <1>15, <1>16 DEF Action

\* The last tables are there, or were cut off, or a server is making them.
LastTables ==
    \/ tables < worldvariables \/ tables = All \/ "tables" \in cut
    \/ \E t \in Server : At(t, "create")

\* Tables after the 15th are missing only if a start was cut off there.
LEMMA LastTablesStep ==
    ASSUME TypeOK, WorldInv, TablesInv, NEW s \in Server, Action(s)
    PROVE  LastTables'
  <1>a. /\ \A t \in Server \ {s} : server'[t] = server[t]
        /\ \A p, n : Goes(s, p, n) => server'[s].at = p
        /\ cut \subseteq cut' /\ LastTables
    BY Lead, GoesTo, Growth DEF Leads, Grows, TablesInv, LastTables
  <1>b. tables \in 0..All /\ tables' \in 0..All /\ tables <= tables'
    <2>1. DataOK'
      BY DataStep
    <2> QED
      BY <2>1, Growth DEF DataOK, Grows, TypeOK
  <1>c. ~At(s, "create") /\ tables' = tables => LastTables'
    BY <1>a, <1>b DEF LastTables, At
  <1>d. At(s, "create") => Step(s) \in 1..All
    BY DEF TypeOK
  <1>1. CASE Start(s)
    BY <1>1, <1>c
    DEF Start, At, Up, schema, history
  <1>2. CASE Stop(s)
    BY <1>2, <1>c
    DEF Stop, At, Up, schema, history
  <1>3. CASE Break(s)
    <2>1. CASE At(s, "create")
      <3>1. tables' = tables /\ (tables \in worldvariables..All - 1 => "tables" \in cut')
        BY <1>3, <2>1 DEF Break, schema
      <3> QED
        BY <1>b, <3>1 DEF LastTables, worldvariables, All
    <2>2. CASE ~At(s, "create")
      BY <1>3, <1>c, <2>2 DEF Break, schema
    <2> QED
      BY <2>1, <2>2
  <1>4. CASE CountTables(s)
    BY <1>4, <1>c
    DEF CountTables, TooFew, At, Up, schema, history
  <1>5. CASE Create(s)
    <2>1. CASE Goes(s, "describe", 0) /\ tables' >= All
      BY <1>b, <2>1 DEF LastTables, All
    <2>2. CASE Goes(s, "create", Step(s) + 1)
      BY <1>a, <2>2 DEF LastTables, At
    <2>3. CASE tables < worldvariables /\ tables' = tables
      BY <2>3 DEF LastTables
    <2>4. CASE ~(tables < worldvariables) /\ Skip(s, "tables", "describe")
      BY <2>4 DEF LastTables, Skip
    <2>5. \/ Goes(s, "describe", 0) /\ tables' >= All
          \/ Goes(s, "create", Step(s) + 1)
          \/ tables < worldvariables /\ tables' = tables
          \/ ~(tables < worldvariables) /\ Skip(s, "tables", "describe")
      BY <1>5, <1>b, <1>d DEF Create, Skip, All, schema
    <2> QED
      BY <2>1, <2>2, <2>3, <2>4, <2>5
  <1>6. CASE Describe(s)
    BY <1>6, <1>c
    DEF Describe, Throw, At, Up, schema, history
  <1>7. CASE First(s)
    BY <1>7, <1>c
    DEF First, Skip, Throw, Refused, At, Up, schema, history
  <1>8. CASE GetVersion(s)
    BY <1>8, <1>c
    DEF GetVersion, At, Up, schema, history
  <1>9. CASE Second(s)
    BY <1>9, <1>c
    DEF Second, Skip, At, Up, schema, history
  <1>10. CASE Record(s)
    BY <1>10, <1>c
    DEF Record, At, Up, schema, history
  <1>11. CASE FindWorld(s)
    BY <1>11, <1>c
    DEF FindWorld, At, Up, schema, history
  <1>12. CASE PutWorld(s)
    BY <1>12, <1>c
    DEF PutWorld, At, Up, schema, history
  <1>13. CASE FindVars(s)
    BY <1>13, <1>c
    DEF FindVars, Throw, At, Up, schema, history
  <1>14. CASE AddVars(s)
    BY <1>14, <1>c
    DEF AddVars, At, Up, schema, history
  <1>15. CASE LinkVars(s)
    BY <1>15, <1>c
    DEF LinkVars, At, Up, schema, history
  <1>16. CASE Connect(s)
    BY <1>16, <1>c
    DEF Connect, At, Up, schema, history
  <1> QED
    BY <1>1, <1>2, <1>3, <1>4, <1>5, <1>6, <1>7, <1>8, <1>9, <1>10, <1>11, <1>12, <1>13, <1>14, <1>15, <1>16 DEF Action

\* Every server has the tables that it relies on.
LEMMA TablesStep ==
    ASSUME TypeOK, WorldInv, TablesInv, NEW s \in Server, Action(s)
    PROVE  TablesInv'
  <1>1. ASSUME NEW t \in Server PROVE Tables(server'[t].at, tables', cut')
    <2>1. CASE t = s
      BY <2>1, TablesHere
    <2>2. CASE t # s
      <3>1. /\ server'[t] = server[t] /\ cut \subseteq cut'
            /\ Tables(server[t].at, tables, cut)
        BY <2>2, Lead, Growth DEF Leads, Grows, TablesInv, Tables, At
      <3>2. tables \in Int /\ tables' \in Int /\ tables <= tables'
        <4>1. DataOK'
          BY DataStep
        <4> QED
          BY <4>1, Growth DEF Grows, TypeOK, DataOK, All
      <3> QED
        BY <3>1, <3>2 DEF Tables, worldvariables, world
    <2> QED
      BY <2>1, <2>2
  <1>2. LastTables'
    BY LastTablesStep
  <1> QED
    BY <1>1, <1>2 DEF TablesInv, Tables, LastTables, At

\* What a place says about the variables of the server's world.
Variables(p, has) ==
    /\ p \in {"addvars", "linkvars"} => ~has
    /\ p \in {"connect", "ready"} => has

\* The server that makes the step knows whether its world has variables.
LEMMA VarsHere ==
    ASSUME TypeOK, VarsInv, NEW s \in Server, Action(s)
    PROVE  Variables(server'[s].at, HasVars(s)')
  <1>a. /\ \A p, n : Goes(s, p, n) => server'[s].at = p
        /\ Variables(server[s].at, HasVars(s))
    BY GoesTo DEF VarsInv, Variables
  <1>b. links' = links => (HasVars(s)' <=> HasVars(s))
    BY DEF HasVars
  <1>1. CASE Start(s)
    BY <1>1, <1>a, <1>b
    DEF Start, At, Variables, schema, history
  <1>2. CASE Stop(s)
    BY <1>2, <1>a, <1>b
    DEF Stop, At, Variables, schema, history
  <1>3. CASE Break(s)
    BY <1>3, <1>a, <1>b
    DEF Break, At, Variables, schema, history
  <1>4. CASE CountTables(s)
    BY <1>4, <1>a, <1>b
    DEF CountTables, TooFew, At, Variables, schema, history
  <1>5. CASE Create(s)
    BY <1>5, <1>a, <1>b
    DEF Create, Skip, Throw, All, At, Variables, schema, history
  <1>6. CASE Describe(s)
    BY <1>6, <1>a, <1>b
    DEF Describe, Throw, At, Variables, schema, history
  <1>7. CASE First(s)
    BY <1>7, <1>a, <1>b
    DEF First, Skip, Throw, Refused, At, Variables, schema, history
  <1>8. CASE GetVersion(s)
    BY <1>8, <1>a, <1>b
    DEF GetVersion, At, Variables, schema, history
  <1>9. CASE Second(s)
    BY <1>9, <1>a, <1>b
    DEF Second, Skip, At, Variables, schema, history
  <1>10. CASE Record(s)
    BY <1>10, <1>a, <1>b
    DEF Record, At, Variables, schema, history
  <1>11. CASE FindWorld(s)
    BY <1>11, <1>a, <1>b
    DEF FindWorld, At, Variables, schema, history
  <1>12. CASE PutWorld(s)
    BY <1>12, <1>a, <1>b
    DEF PutWorld, At, Variables, schema, history
  <1>13. CASE FindVars(s)
    BY <1>13, <1>a, <1>b
    DEF FindVars, Throw, At, Variables, schema, history
  <1>14. CASE AddVars(s)
    BY <1>14, <1>a, <1>b
    DEF AddVars, At, Variables, schema, history
  <1>15. CASE LinkVars(s)
    <2>1. << s, Step(s) >> \in links' /\ server'[s].at = "connect"
      BY <1>15, <1>a DEF LinkVars
    <2>2. HasVars(s)'
      BY <2>1 DEF HasVars
    <2> QED
      BY <2>1, <2>2 DEF Variables
  <1>16. CASE Connect(s)
    BY <1>16, <1>a, <1>b
    DEF Connect, At, Variables, schema, history
  <1> QED
    BY <1>1, <1>2, <1>3, <1>4, <1>5, <1>6, <1>7, <1>8, <1>9, <1>10, <1>11, <1>12, <1>13, <1>14, <1>15, <1>16 DEF Action

\* Only LinkVars changes links.
LEMMA LinksKept ==
    ASSUME NEW s \in Server, Action(s)
    PROVE  links' = links \/ LinkVars(s)
  BY DEF Action, Start, Stop, Break, CountTables, Create, Describe, First, GetVersion,
         Second, Record, FindWorld, PutWorld, FindVars, AddVars, Connect,
         Skip, Throw

\* A world has one set of variables, or none.
LEMMA VarsStep ==
    ASSUME TypeOK, VarsInv, NEW s \in Server, Action(s)
    PROVE  VarsInv'
  <1>1. ASSUME NEW t \in Server PROVE Variables(server'[t].at, HasVars(t)')
    <2>1. CASE t = s
      BY <2>1, VarsHere
    <2>2. CASE t # s
      <3>1. server'[t] = server[t]
        BY <2>2, Lead DEF Leads
      <3>2. HasVars(t)' <=> HasVars(t)
        BY <2>2, LinksKept DEF HasVars, LinkVars
      <3>3. Variables(server[t].at, HasVars(t))
        BY DEF VarsInv, Variables
      <3> QED
        BY <3>1, <3>2, <3>3 DEF Variables
    <2> QED
      BY <2>1, <2>2
  <1>2. \A l, m \in links' : l[1] = m[1] => l = m
    <2>1. CASE links' = links
      BY <2>1 DEF VarsInv
    <2>2. CASE LinkVars(s)
      <3>1. ~HasVars(s) /\ links' = links \cup {<< s, Step(s) >>}
        BY <2>2 DEF LinkVars, VarsInv, At
      <3> QED
        BY <3>1 DEF VarsInv, HasVars
    <2> QED
      BY <2>1, <2>2, LinksKept
  <1> QED
    BY <1>1, <1>2 DEF VarsInv, Variables

\* What a place says about the statements of 0002.
Widens(p, n, wide, done) ==
    /\ p = "second" => 1..(n - 1) \subseteq wide
    /\ p \in AfterSecond => done

\* The server that makes the step knows which statements of 0002 are done.
LEMMA WidensHere ==
    ASSUME TypeOK, WorldInv, TablesInv, VersionInv, NEW s \in Server, Action(s)
    PROVE  Widens(server'[s].at, server'[s].next, widened', Widened')
  <1>a. \A p, n : Goes(s, p, n) => server'[s].at = p /\ server'[s].next = n
    BY GoesTo
  <1>b. Widens(server[s].at, Step(s), widened, Widened)
    BY DEF VersionInv, Widens, At
  <1>c. Widened => Widened'
    <2>1. widened' \subseteq 1..4 /\ widened \subseteq widened' /\ cut \subseteq cut'
      BY DataStep, Growth DEF DataOK, Grows
    <2> QED
      BY <2>1 DEF Widened
  <1>d. (At(s, "second") => Step(s) \in 1..4) /\ widened \subseteq 1..4
    BY SecondScript DEF TypeOK
  <1>1. CASE Start(s)
    BY <1>1, <1>a, <1>b, <1>c
    DEF Start, At, Widens, AfterSecond, AfterFirst, AfterCreate
  <1>2. CASE Stop(s)
    BY <1>2, <1>a, <1>b, <1>c
    DEF Stop, At, Widens, AfterSecond, AfterFirst, AfterCreate
  <1>3. CASE Break(s)
    BY <1>3, <1>a, <1>b, <1>c
    DEF Break, At, Widens, AfterSecond, AfterFirst, AfterCreate
  <1>4. CASE CountTables(s)
    BY <1>4, <1>a, <1>b, <1>c
    DEF CountTables, TooFew, At, Widens, AfterSecond, AfterFirst, AfterCreate
  <1>5. CASE Create(s)
    BY <1>5, <1>a, <1>b, <1>c
    DEF Create, Skip, Throw, All, At, Widens, AfterSecond, AfterFirst, AfterCreate
  <1>6. CASE Describe(s)
    BY <1>6, <1>a, <1>b, <1>c
    DEF Describe, Throw, At, Widens, AfterSecond, AfterFirst, AfterCreate
  <1>7. CASE First(s)
    BY <1>7, <1>a, <1>b, <1>c
    DEF First, Skip, Throw, Refused, At, Widens, AfterSecond, AfterFirst, AfterCreate
  <1>8. CASE GetVersion(s)
    <2>1. CASE Goes(s, "second", 1)
      BY <1>a, <2>1 DEF Widens, AfterSecond, AfterFirst
    <2>2. CASE Goes(s, "record", 0) /\ CurrentVersion # 1
      <3>1. PICK w \in DOMAIN version : version[w] # SqlNull
        BY <2>2 DEF CurrentVersion
      <3>2. Widened
        BY <3>1, SecondScript DEF VersionInv, VersionBacked, Widened, TypeOK
      <3> QED
        BY <1>a, <1>c, <2>2, <3>2 DEF Widens
    <2> QED
      BY <1>8, <2>1, <2>2 DEF GetVersion
  <1>9. CASE Second(s)
    <2> DEFINE n == Step(s)
    <2>1. n \in 1..4 /\ 1..(n - 1) \subseteq widened /\ widened \subseteq 1..4
      BY <1>9, <1>b, <1>d DEF Second, At, Widens
    <2>2. CASE Goes(s, "second", n + 1) /\ widened' = widened \cup {n}
      <3>1. 1..n \subseteq widened'
        BY <2>1, <2>2
      <3> QED
        BY <1>a, <2>1, <2>2, <3>1 DEF Widens, AfterSecond, AfterFirst
    <2>3. CASE Goes(s, "record", 0) /\ n = 4 /\ widened' = widened \cup {n}
      <3>1. \A k \in 1..4 : k \in 1..(n - 1) \/ k = n
        BY <2>3
      <3>2. widened' = 1..4
        BY <2>1, <2>3, <3>1
      <3> QED
        BY <1>a, <2>3, <3>2 DEF Widens, Widened
    <2>4. CASE tables < SecondChange[n] /\ Goes(s, "record", 0) /\ cut' = cut
      <3>1. SecondChange[n] \in 1..14 /\ tables \in Int
        BY <2>1, SecondScript DEF TypeOK, All
      <3>2. "skipped" \in cut
        BY <1>9, <2>4, <3>1 DEF TablesInv, Second, At, AfterCreate, worldvariables
      <3> QED
        BY <1>a, <2>4, <3>2 DEF Widens, Widened
    <2>5. CASE Skip(s, "0002", "record")
      BY <1>a, <2>5 DEF Skip, Widens, Widened
    <2> QED
      BY <1>9, <2>2, <2>3, <2>4, <2>5, SecondScript DEF Second, history
  <1>10. CASE Record(s)
    BY <1>10, <1>a, <1>b, <1>c
    DEF Record, At, Widens, AfterSecond, AfterFirst, AfterCreate
  <1>11. CASE FindWorld(s)
    BY <1>11, <1>a, <1>b, <1>c
    DEF FindWorld, At, Widens, AfterSecond, AfterFirst, AfterCreate
  <1>12. CASE PutWorld(s)
    BY <1>12, <1>a, <1>b, <1>c
    DEF PutWorld, At, Widens, AfterSecond, AfterFirst, AfterCreate
  <1>13. CASE FindVars(s)
    BY <1>13, <1>a, <1>b, <1>c
    DEF FindVars, Throw, At, Widens, AfterSecond, AfterFirst, AfterCreate
  <1>14. CASE AddVars(s)
    BY <1>14, <1>a, <1>b, <1>c
    DEF AddVars, At, Widens, AfterSecond, AfterFirst, AfterCreate
  <1>15. CASE LinkVars(s)
    BY <1>15, <1>a, <1>b, <1>c
    DEF LinkVars, At, Widens, AfterSecond, AfterFirst, AfterCreate
  <1>16. CASE Connect(s)
    BY <1>16, <1>a, <1>b, <1>c
    DEF Connect, At, Widens, AfterSecond, AfterFirst, AfterCreate
  <1> QED
    BY <1>1, <1>2, <1>3, <1>4, <1>5, <1>6, <1>7, <1>8, <1>9, <1>10, <1>11, <1>12, <1>13, <1>14, <1>15, <1>16 DEF Action

\* Only Record and PutWorld change versions.
LEMMA VersionsKept ==
    ASSUME NEW s \in Server, Action(s)
    PROVE  version' = version \/ Record(s) \/ PutWorld(s)
  BY DEF Action, Start, Stop, Break, CountTables, Create, Describe, First, GetVersion,
         Second, FindWorld, FindVars, AddVars, LinkVars, Connect,
         Skip, Throw

\* A version that is shown stands for all of 0002.
LEMMA VersionStep ==
    ASSUME TypeOK, WorldInv, TablesInv, VersionInv, NEW s \in Server, Action(s)
    PROVE  VersionInv'
  <1>1. widened' \subseteq 1..4 /\ widened \subseteq widened' /\ cut \subseteq cut'
    BY DataStep, Growth DEF DataOK, Grows
  <1>2. Widened => Widened'
    BY <1>1 DEF Widened
  <1>3. ASSUME NEW t \in Server
        PROVE  Widens(server'[t].at, server'[t].next, widened', Widened')
    <2>1. CASE t = s
      BY <2>1, WidensHere
    <2>2. CASE t # s
      <3>1. server'[t] = server[t]
        BY <2>2, Lead DEF Leads
      <3>2. Widens(server[t].at, server[t].next, widened, Widened)
        BY DEF VersionInv, Widens, At, Step
      <3> QED
        BY <1>1, <1>2, <3>1, <3>2 DEF Widens
    <2> QED
      BY <2>1, <2>2
  <1>4. VersionBacked'
    <2>1. CASE version' = version
      BY <1>2, <2>1, SecondScript DEF VersionInv, VersionBacked, Widened
    <2>2. CASE Record(s) \/ PutWorld(s)
      <3>1. Widened
        BY <2>2 DEF Record, PutWorld, At, VersionInv, AfterSecond, AfterFirst, AfterCreate
      <3> QED
        BY <1>2, <3>1, SecondScript DEF VersionBacked, Widened
    <2> QED
      BY <2>1, <2>2, VersionsKept
  <1> QED
    BY <1>3, <1>4 DEF VersionInv, Widens, At, Step

------------------------------------------------------------------------------
(* The columns of 0001.                                                     *)

\* Each statement of 0001 leads from one stage to the next.
LEMMA StageNext ==
    ASSUME TypeOK, NEW n \in 1..5, AtStage(columns, n),
           columns' = [columns EXCEPT ![FirstChange[n].col] = FirstChange[n].to]
    PROVE  AtStage(columns', n + 1)
  <1>a. columns \in [Column -> {"none", "old", "new"}]
    BY DEF TypeOK
  <1>1. CASE n = 1
    <2>1. columns' = [columns EXCEPT !["schema_version"] = "new"]
      BY <1>1, FirstScript
    <2>2. Are(columns, "none", "old", "none", "none")
      BY <1>1 DEF AtStage
    <2>3. Are(columns', "new", "old", "none", "none")
      BY <1>a, <2>1, <2>2 DEF Are, Column
    <2> QED
      BY <1>1, <2>3 DEF AtStage
  <1>2. CASE n = 2
    <2>1. columns' = [columns EXCEPT !["playtime"] = "none"]
      BY <1>2, FirstScript
    <2>2. Are(columns, "new", "old", "none", "none")
      BY <1>2 DEF AtStage
    <2>3. Are(columns', "new", "none", "none", "none")
      BY <1>a, <2>1, <2>2 DEF Are, Column
    <2> QED
      BY <1>2, <2>3 DEF AtStage
  <1>3. CASE n = 3
    <2>1. columns' = [columns EXCEPT !["playtime"] = "new"]
      BY <1>3, FirstScript
    <2>2. Are(columns, "new", "none", "none", "none")
      BY <1>3 DEF AtStage
    <2>3. Are(columns', "new", "new", "none", "none")
      BY <1>a, <2>1, <2>2 DEF Are, Column
    <2> QED
      BY <1>3, <2>3 DEF AtStage
  <1>4. CASE n = 4
    <2>1. columns' = [columns EXCEPT !["member id"] = "new"]
      BY <1>4, FirstScript
    <2>2. Are(columns, "new", "new", "none", "none")
      BY <1>4 DEF AtStage
    <2>3. Are(columns', "new", "new", "new", "none")
      BY <1>a, <2>1, <2>2 DEF Are, Column
    <2> QED
      BY <1>4, <2>3 DEF AtStage
  <1>5. CASE n = 5
    <2>1. columns' = [columns EXCEPT !["link id"] = "new"]
      BY <1>5, FirstScript
    <2>2. Are(columns, "new", "new", "new", "none")
      BY <1>5 DEF AtStage
    <2>3. Are(columns', "new", "new", "new", "new")
      BY <1>a, <2>1, <2>2 DEF Are, Column
    <2> QED
      BY <1>5, <2>3 DEF AtStage
  <1> QED
    BY <1>1, <1>2, <1>3, <1>4, <1>5

\* At its stage a statement of 0001 is refused only for want of its table.
LEMMA StageOpen ==
    ASSUME NEW n \in 1..5, AtStage(columns, n)
    PROVE  /\ (FirstChange[n].to = "none") # (columns[FirstChange[n].col] = "none")
           /\ FirstChange[n].table \in 1..14
  <1>1. CASE n = 1
    <2>1. columns["schema_version"] = "none"
      <3>1. Are(columns, "none", "old", "none", "none")
        BY <1>1 DEF AtStage
      <3> QED
        BY <3>1 DEF Are
    <2>2. /\ FirstChange[n].table = 1 /\ FirstChange[n].to = "new"
          /\ columns[FirstChange[n].col] = "none"
      BY <1>1, <2>1, FirstScript
    <2> QED
      BY <2>2
  <1>2. CASE n = 2
    <2>1. columns["playtime"] = "old"
      <3>1. Are(columns, "new", "old", "none", "none")
        BY <1>2 DEF AtStage
      <3> QED
        BY <3>1 DEF Are
    <2>2. /\ FirstChange[n].table = 3 /\ FirstChange[n].to = "none"
          /\ columns[FirstChange[n].col] = "old"
      BY <1>2, <2>1, FirstScript
    <2> QED
      BY <2>2
  <1>3. CASE n = 3
    <2>1. columns["playtime"] = "none"
      <3>1. Are(columns, "new", "none", "none", "none")
        BY <1>3 DEF AtStage
      <3> QED
        BY <3>1 DEF Are
    <2>2. /\ FirstChange[n].table = 3 /\ FirstChange[n].to = "new"
          /\ columns[FirstChange[n].col] = "none"
      BY <1>3, <2>1, FirstScript
    <2> QED
      BY <2>2
  <1>4. CASE n = 4
    <2>1. columns["member id"] = "none"
      <3>1. Are(columns, "new", "new", "none", "none")
        BY <1>4 DEF AtStage
      <3> QED
        BY <3>1 DEF Are
    <2>2. /\ FirstChange[n].table = 14 /\ FirstChange[n].to = "new"
          /\ columns[FirstChange[n].col] = "none"
      BY <1>4, <2>1, FirstScript
    <2> QED
      BY <2>2
  <1>5. CASE n = 5
    <2>1. columns["link id"] = "none"
      <3>1. Are(columns, "new", "new", "new", "none")
        BY <1>5 DEF AtStage
      <3> QED
        BY <3>1 DEF Are
    <2>2. /\ FirstChange[n].table = 8 /\ FirstChange[n].to = "new"
          /\ columns[FirstChange[n].col] = "none"
      BY <1>5, <2>1, FirstScript
    <2> QED
      BY <2>2
  <1> QED
    BY <1>1, <1>2, <1>3, <1>4, <1>5

\* Only First changes columns.
LEMMA ColumnsKept ==
    ASSUME NEW s \in Server, Action(s), ~First(s)
    PROVE  columns' = columns
  BY DEF Action, Start, Stop, Break, CountTables, Create, Describe, GetVersion,
         Second, Record, FindWorld, PutWorld, FindVars, AddVars, LinkVars, Connect,
         Skip, Throw, schema

\* What a place says about the column that 0001 adds first.
Columns(p, n, c) ==
    /\ p = "first" => n = 1 /\ c = "none"
    /\ p \in AfterFirst => c # "none"

\* A server that goes on has seen the column, or that it is not there.
LEMMA ColumnsHere ==
    ASSUME TypeOK, ColumnsInv, NEW s \in Server, Action(s), ~First(s)
    PROVE  Columns(server'[s].at, server'[s].next, columns["schema_version"])
  <1>a. /\ \A p, n : Goes(s, p, n) => server'[s].at = p /\ server'[s].next = n
        /\ server[s].at \in AfterFirst => columns["schema_version"] # "none"
    BY GoesTo DEF ColumnsInv
  <1>1. CASE Start(s)
    BY <1>1, <1>a
    DEF Start, At, Columns, AfterSecond, AfterFirst, AfterCreate
  <1>2. CASE Stop(s)
    BY <1>2, <1>a
    DEF Stop, At, Columns, AfterSecond, AfterFirst, AfterCreate
  <1>3. CASE Break(s)
    BY <1>3, <1>a
    DEF Break, At, Columns, AfterSecond, AfterFirst, AfterCreate
  <1>4. CASE CountTables(s)
    BY <1>4, <1>a
    DEF CountTables, TooFew, At, Columns, AfterSecond, AfterFirst, AfterCreate
  <1>5. CASE Create(s)
    BY <1>5, <1>a
    DEF Create, Skip, Throw, All, At, Columns, AfterSecond, AfterFirst, AfterCreate
  <1>6. CASE Describe(s)
    BY <1>6, <1>a
    DEF Describe, Throw, At, Columns, AfterSecond, AfterFirst, AfterCreate
  <1>7. CASE GetVersion(s)
    BY <1>7, <1>a
    DEF GetVersion, At, Columns, AfterSecond, AfterFirst, AfterCreate
  <1>8. CASE Second(s)
    BY <1>8, <1>a
    DEF Second, Skip, At, Columns, AfterSecond, AfterFirst, AfterCreate
  <1>9. CASE Record(s)
    BY <1>9, <1>a
    DEF Record, At, Columns, AfterSecond, AfterFirst, AfterCreate
  <1>10. CASE FindWorld(s)
    BY <1>10, <1>a
    DEF FindWorld, At, Columns, AfterSecond, AfterFirst, AfterCreate
  <1>11. CASE PutWorld(s)
    BY <1>11, <1>a
    DEF PutWorld, At, Columns, AfterSecond, AfterFirst, AfterCreate
  <1>12. CASE FindVars(s)
    BY <1>12, <1>a
    DEF FindVars, Throw, At, Columns, AfterSecond, AfterFirst, AfterCreate
  <1>13. CASE AddVars(s)
    BY <1>13, <1>a
    DEF AddVars, At, Columns, AfterSecond, AfterFirst, AfterCreate
  <1>14. CASE LinkVars(s)
    BY <1>14, <1>a
    DEF LinkVars, At, Columns, AfterSecond, AfterFirst, AfterCreate
  <1>15. CASE Connect(s)
    BY <1>15, <1>a
    DEF Connect, At, Columns, AfterSecond, AfterFirst, AfterCreate
  <1> QED
    BY <1>1, <1>2, <1>3, <1>4, <1>5, <1>6, <1>7, <1>8, <1>9, <1>10, <1>11, <1>12, <1>13, <1>14, <1>15 DEF Action

\* Who stops halfway through 0001 is noted.
LEMMA HalfwayEnds ==
    ASSUME NEW s \in Server, Action(s), ~First(s)
    PROVE  (Halfway(s) => "0001" \in cut') /\ overtaken \ {s} \subseteq overtaken'
  <1>1. CASE Start(s)
    BY <1>1
    DEF Start, At, Halfway, Up, history
  <1>2. CASE Stop(s)
    BY <1>2
    DEF Stop, At, Halfway, Up, history
  <1>3. CASE Break(s)
    BY <1>3
    DEF Break, At, Halfway, Up, history
  <1>4. CASE CountTables(s)
    BY <1>4
    DEF CountTables, TooFew, At, Halfway, Up, history
  <1>5. CASE Create(s)
    BY <1>5
    DEF Create, Skip, Throw, All, At, Halfway, Up, history
  <1>6. CASE Describe(s)
    BY <1>6
    DEF Describe, Throw, At, Halfway, Up, history
  <1>7. CASE GetVersion(s)
    BY <1>7
    DEF GetVersion, At, Halfway, Up, history
  <1>8. CASE Second(s)
    BY <1>8
    DEF Second, Skip, At, Halfway, Up, history
  <1>9. CASE Record(s)
    BY <1>9
    DEF Record, At, Halfway, Up, history
  <1>10. CASE FindWorld(s)
    BY <1>10
    DEF FindWorld, At, Halfway, Up, history
  <1>11. CASE PutWorld(s)
    BY <1>11
    DEF PutWorld, At, Halfway, Up, history
  <1>12. CASE FindVars(s)
    BY <1>12
    DEF FindVars, Throw, At, Halfway, Up, history
  <1>13. CASE AddVars(s)
    BY <1>13
    DEF AddVars, At, Halfway, Up, history
  <1>14. CASE LinkVars(s)
    BY <1>14
    DEF LinkVars, At, Halfway, Up, history
  <1>15. CASE Connect(s)
    BY <1>15
    DEF Connect, At, Halfway, Up, history
  <1> QED
    BY <1>1, <1>2, <1>3, <1>4, <1>5, <1>6, <1>7, <1>8, <1>9, <1>10, <1>11, <1>12, <1>13, <1>14, <1>15 DEF Action

\* The outcomes of a statement of 0001: done, refused as the first of the
\* script, or the rest of the script skipped.
Done(s) ==
    /\ server'[s].at = IF Step(s) = 5 THEN "version" ELSE "first"
    /\ server'[s].next = IF Step(s) = 5 THEN 0 ELSE Step(s) + 1
    /\ columns' = [columns EXCEPT ![FirstChange[Step(s)].col] = FirstChange[Step(s)].to]
    /\ ~Refused(FirstChange[Step(s)])
    /\ cut' = cut
    /\ Step(s) = 1 => overtaken' = overtaken \cup {t \in Server \ {s} : At(t, "first")}
    /\ Step(s) # 1 => overtaken' = overtaken
Thrown(s) ==
    /\ Step(s) = 1 /\ server'[s].at = "error" /\ Refused(FirstChange[1])
    /\ columns' = columns /\ cut' = cut /\ overtaken' = overtaken
Skipped(s) ==
    /\ Step(s) > 1 /\ server'[s].at = "version"
    /\ columns' = columns /\ overtaken' = overtaken
    /\ cut' = cut \cup {"0001"} \/ (cut' = cut /\ Refused(FirstChange[Step(s)]))

\* First has these outcomes, and leaves the tables alone.
LEMMA FirstCases ==
    ASSUME TypeOK, NEW s \in Server, First(s)
    PROVE  /\ At(s, "first") /\ Step(s) \in 1..5 /\ tables' = tables
           /\ Done(s) \/ Thrown(s) \/ Skipped(s)
  <1>1. At(s, "first") /\ Step(s) \in 1..5
    BY FirstScript DEF First, TypeOK
  <1>2. \A p, n : Goes(s, p, n) => server'[s].at = p /\ server'[s].next = n
    BY GoesTo
  <1>3. tables' = tables
    BY DEF First, Skip, Throw, schema
  <1>4. CASE /\ ~Refused(FirstChange[Step(s)])
             /\ IF Step(s) = 5 THEN Goes(s, "version", 0) ELSE Goes(s, "first", Step(s) + 1)
             /\ columns' = [columns EXCEPT ![FirstChange[Step(s)].col] =
                                               FirstChange[Step(s)].to]
             /\ overtaken' = IF Step(s) > 1 THEN overtaken ELSE
                   overtaken \cup {t \in Server \ {s} : At(t, "first")}
             /\ cut' = cut
    <2>1. /\ server'[s].at = IF Step(s) = 5 THEN "version" ELSE "first"
          /\ server'[s].next = IF Step(s) = 5 THEN 0 ELSE Step(s) + 1
      BY <1>2, <1>4
    <2>2. /\ Step(s) = 1 => overtaken' = overtaken \cup {t \in Server \ {s} : At(t, "first")}
          /\ Step(s) # 1 => overtaken' = overtaken
      BY <1>1, <1>4
    <2> QED
      BY <1>1, <1>3, <1>4, <2>1, <2>2 DEF Done
  <1>5. CASE Refused(FirstChange[Step(s)]) /\ Step(s) = 1 /\ Throw(s)
    BY <1>1, <1>2, <1>3, <1>5 DEF Throw, Thrown, schema, history
  <1>6. CASE /\ Refused(FirstChange[Step(s)]) /\ Step(s) > 1
             /\ Goes(s, "version", 0) /\ UNCHANGED << schema, history >>
    BY <1>1, <1>2, <1>3, <1>6 DEF Skipped, schema, history
  <1>7. CASE Step(s) > 1 /\ Skip(s, "0001", "version")
    BY <1>1, <1>2, <1>3, <1>7 DEF Skip, Skipped, schema
  <1>8. \/ /\ ~Refused(FirstChange[Step(s)])
           /\ IF Step(s) = 5 THEN Goes(s, "version", 0) ELSE Goes(s, "first", Step(s) + 1)
           /\ columns' = [columns EXCEPT ![FirstChange[Step(s)].col] =
                                             FirstChange[Step(s)].to]
           /\ overtaken' = IF Step(s) > 1 THEN overtaken ELSE
                 overtaken \cup {t \in Server \ {s} : At(t, "first")}
           /\ cut' = cut
        \/ Refused(FirstChange[Step(s)]) /\ Step(s) = 1 /\ Throw(s)
        \/ /\ Refused(FirstChange[Step(s)]) /\ Step(s) > 1
           /\ Goes(s, "version", 0) /\ UNCHANGED << schema, history >>
        \/ Step(s) > 1 /\ Skip(s, "0001", "version")
    BY FirstScript DEF First
  <1> QED
    BY <1>4, <1>5, <1>6, <1>7, <1>8

\* From the second stage on the first column is there.
LEMMA StageColumn ==
    ASSUME NEW n \in 1..6, AtStage(columns, n)
    PROVE  IF n = 1 THEN columns["schema_version"] = "none"
                    ELSE columns["schema_version"] = "new"
  <1>1. CASE n = 1
    <2>1. Are(columns, "none", "old", "none", "none")
      BY <1>1 DEF AtStage
    <2> QED
      BY <1>1, <2>1 DEF Are
  <1>2. CASE n # 1
    <2>1. \E p, m, l : Are(columns, "new", p, m, l)
      BY <1>2 DEF AtStage
    <2> QED
      BY <1>2, <2>1 DEF Are
  <1> QED
    BY <1>1, <1>2

\* What the invariant says of each server, and of the columns as a whole.
ColumnsOf(s) ==
    /\ Halfway(s) => AtStage(columns, Step(s))
    /\ At(s, "first") /\ Step(s) = 1
          => columns["schema_version"] = "none" \/ s \in overtaken
    /\ server[s].at \in AfterFirst => columns["schema_version"] # "none"
OneHalfway == \A s, t \in Server : Halfway(s) /\ Halfway(t) => s = t
Columns0001 ==
    \/ AtStage(columns, 1)
    \/ /\ columns["schema_version"] # "none"
       /\ \/ AtStage(columns, 6) \/ cut \cap {"skipped", "0001"} # {}
          \/ \E t \in Server : Halfway(t)

\* The invariant is these three.
LEMMA ColumnsParts ==
    ColumnsInv <=> (\A s \in Server : ColumnsOf(s)) /\ OneHalfway /\ Columns0001
  BY DEF ColumnsInv, ColumnsOf, OneHalfway, Columns0001

\* A step that is not of 0001 leaves its columns as they are.
LEMMA OtherColumns ==
    ASSUME TypeOK, ColumnsInv, NEW s \in Server, Action(s), ~First(s)
    PROVE  ColumnsInv'
  <1>1. /\ columns' = columns /\ cut \subseteq cut' /\ Leads(s)
        /\ Columns(server'[s].at, server'[s].next, columns["schema_version"])
        /\ Halfway(s) => "0001" \in cut'
        /\ overtaken \ {s} \subseteq overtaken'
    BY ColumnsKept, Growth, Lead, ColumnsHere, HalfwayEnds DEF Grows
  <1>2. \A n : AtStage(columns', n) <=> AtStage(columns, n)
    BY <1>1 DEF AtStage, Are
  <1>3. ~Halfway(s)'
    BY <1>1 DEF Columns, Halfway, At, Step
  <1>4. \A t \in Server \ {s} : server'[t] = server[t] /\ (Halfway(t)' <=> Halfway(t))
    BY <1>1 DEF Leads, Halfway, At, Step
  <1>5. ASSUME NEW t \in Server PROVE ColumnsOf(t)'
    <2>1. CASE t = s
      BY <1>1, <1>3, <2>1 DEF ColumnsOf, Columns, At, Step
    <2>2. CASE t # s
      <3>1. ColumnsOf(t) /\ server'[t] = server[t] /\ (t \in overtaken => t \in overtaken')
        BY <1>1, <1>4, <2>2, ColumnsParts
      <3>2. Halfway(t)' => AtStage(columns', server'[t].next)
        BY <1>2, <1>4, <2>2, <3>1 DEF ColumnsOf, Step
      <3> QED
        BY <1>1, <3>1, <3>2 DEF ColumnsOf, At, Step
    <2> QED
      BY <2>1, <2>2
  <1>6. OneHalfway'
    BY <1>3, <1>4, ColumnsParts DEF OneHalfway
  <1>7. Columns0001'
    <2>1. CASE AtStage(columns, 1)
      BY <1>2, <2>1 DEF Columns0001
    <2>2. CASE AtStage(columns, 6) \/ cut \cap {"skipped", "0001"} # {}
      BY <1>1, <1>2, <2>2, ColumnsParts DEF Columns0001
    <2>3. CASE columns["schema_version"] # "none" /\ \E t \in Server : Halfway(t)
      <3>1. PICK t \in Server : Halfway(t)
        BY <2>3
      <3>2. CASE t = s
        BY <1>1, <2>3, <3>1, <3>2 DEF Columns0001
      <3>3. CASE t # s
        BY <1>1, <1>4, <2>3, <3>1, <3>3 DEF Columns0001
      <3> QED
        BY <3>2, <3>3
    <2> QED
      BY <2>1, <2>2, <2>3, ColumnsParts DEF Columns0001
  <1> QED
    BY <1>5, <1>6, <1>7 DEF ColumnsInv, ColumnsOf, OneHalfway, Columns0001

\* A statement of 0001 that is done leads to the next stage, of this server
\* alone.
LEMMA DoneColumns ==
    ASSUME TypeOK, ColumnsInv, NEW s \in Server, Action(s), First(s), Done(s)
    PROVE  ColumnsInv'
  <1> PICK n : n = Step(s)
    OBVIOUS
  <1>1. At(s, "first") /\ n \in 1..5 /\ Leads(s)
    BY FirstCases, Lead
  <1>2. AtStage(columns, n)
    <2>1. CASE n = 1
      <3>1. columns["schema_version"] = "none"
        <4>1. ~Refused(FirstChange[1]) /\ FirstChange[1].to = "new"
              /\ FirstChange[1].col = "schema_version"
          BY <2>1, FirstScript DEF Done
        <4> QED
          BY <4>1 DEF Refused
      <3> QED
        BY <2>1, <3>1, ColumnsParts DEF Columns0001
    <2>2. CASE n # 1
      BY <1>1, <2>2, ColumnsParts DEF ColumnsOf, Halfway
    <2> QED
      BY <2>1, <2>2
  <1>3. \A t \in Server \ {s} : ~Halfway(t)
    <2> SUFFICES ASSUME NEW t \in Server \ {s}, Halfway(t) PROVE FALSE
      OBVIOUS
    <2>1. AtStage(columns, Step(t)) /\ Step(t) \in 2..5
      <3>1. Step(t) \in 1..5 /\ Step(t) > 1 /\ At(t, "first")
        BY FirstScript DEF Halfway, TypeOK
      <3> QED
        BY <3>1, ColumnsParts DEF ColumnsOf
    <2>2. columns["schema_version"] = "new"
      BY <2>1, StageColumn
    <2>3. n # 1
      BY <1>1, <1>2, <2>2, StageColumn
    <2> QED
      BY <1>1, <2>3, ColumnsParts DEF OneHalfway, Halfway
  <1>4. AtStage(columns', n + 1)
    <2>1. columns' = [columns EXCEPT ![FirstChange[n].col] = FirstChange[n].to]
      BY DEF Done
    <2> QED
      BY <1>1, <1>2, <2>1, StageNext
  <1>5. columns'["schema_version"] = "new"
    <2>1. \E p, m, l : Are(columns', "new", p, m, l)
      BY <1>1, <1>4 DEF AtStage
    <2> QED
      BY <2>1 DEF Are
  <1>6. \A t \in Server \ {s} : server'[t] = server[t] /\ ~Halfway(t)'
    BY <1>1, <1>3 DEF Leads, Halfway, At, Step
  <1>7. ASSUME NEW t \in Server PROVE ColumnsOf(t)'
    <2>1. CASE t = s
      <3>1. Halfway(s)' => server'[s].next = n + 1
        BY <1>1 DEF Done, Halfway, At, Step
      <3>2. Halfway(s)' => AtStage(columns', server'[s].next)
        BY <1>4, <3>1
      <3>3. ~(server'[s].at = "first" /\ server'[s].next = 1)
        BY <1>1 DEF Done
      <3> QED
        BY <1>5, <2>1, <3>2, <3>3 DEF ColumnsOf, At, Step
    <2>2. CASE t # s
      <3>1. server'[t] = server[t] /\ ~Halfway(t)'
        BY <1>6, <2>2
      <3>2. At(t, "first") /\ Step(t) = 1 => t \in overtaken'
        <4>1. CASE n = 1
          BY <2>2, <4>1 DEF Done
        <4>2. CASE n # 1
          <5>1. columns["schema_version"] = "new"
            BY <1>1, <1>2, <4>2, StageColumn
          <5> QED
            BY <4>2, <5>1, ColumnsParts DEF ColumnsOf, Done
        <4> QED
          BY <4>1, <4>2
      <3> QED
        BY <1>5, <3>1, <3>2 DEF ColumnsOf, At, Step
    <2> QED
      BY <2>1, <2>2
  <1>8. OneHalfway'
    BY <1>6 DEF OneHalfway
  <1>9. Columns0001'
    <2>1. CASE n = 5
      BY <1>4, <1>5, <2>1 DEF Columns0001
    <2>2. CASE n # 5
      <3>1. Halfway(s)'
        BY <1>1, <2>2 DEF Done, Halfway, At, Step
      <3> QED
        BY <1>5, <3>1 DEF Columns0001
    <2> QED
      BY <2>1, <2>2
  <1> QED
    BY <1>7, <1>8, <1>9 DEF ColumnsInv, ColumnsOf, OneHalfway, Columns0001

\* A statement of 0001 that is refused, or fails, ends the script with a note.
LEMMA EndColumns ==
    ASSUME TypeOK, TablesInv, ColumnsInv, NEW s \in Server, Action(s), First(s),
           Thrown(s) \/ Skipped(s)
    PROVE  ColumnsInv'
  <1> DEFINE n == Step(s)
  <1>1. /\ At(s, "first") /\ n \in 1..5 /\ Leads(s)
        /\ columns' = columns /\ overtaken' = overtaken /\ cut \subseteq cut'
    BY FirstCases, Lead DEF Thrown, Skipped
  <1>2. \A k : AtStage(columns', k) <=> AtStage(columns, k)
    BY <1>1 DEF AtStage, Are
  <1>3. server'[s].at = IF n = 1 THEN "error" ELSE "version"
    BY DEF Thrown, Skipped
  <1>4. Halfway(s) => AtStage(columns, n) /\ columns["schema_version"] = "new"
    <2>1. Halfway(s) => AtStage(columns, n) /\ n # 1
      BY ColumnsParts DEF ColumnsOf, Halfway
    <2> QED
      BY <1>1, <2>1, StageColumn
  <1>5. Halfway(s) => cut' \cap {"skipped", "0001"} # {}
    <2> SUFFICES ASSUME Halfway(s) PROVE cut' \cap {"skipped", "0001"} # {}
      OBVIOUS
    <2>1. n # 1 /\ Skipped(s)
      BY DEF Halfway, Thrown
    <2>2. CASE cut' = cut \cup {"0001"}
      BY <2>2
    <2>3. CASE cut' = cut /\ Refused(FirstChange[n])
      <3>1. /\ (FirstChange[n].to = "none") # (columns[FirstChange[n].col] = "none")
            /\ FirstChange[n].table \in 1..14
        BY <1>1, <1>4, StageOpen
      <3>2. tables < FirstChange[n].table
        BY <2>3, <3>1 DEF Refused
      <3>3. ~(tables >= worldvariables)
        BY <3>1, <3>2 DEF TypeOK, All, worldvariables
      <3>4. "skipped" \in cut
        BY <1>1, <3>3 DEF TablesInv, At, AfterCreate
      <3> QED
        BY <2>3, <3>4
    <2> QED
      BY <2>1, <2>2, <2>3 DEF Skipped
  <1>6. ~Halfway(s)'
    BY <1>3 DEF Halfway, At
  <1>7. \A t \in Server \ {s} : server'[t] = server[t] /\ (Halfway(t)' <=> Halfway(t))
    BY <1>1 DEF Leads, Halfway, At, Step
  <1>8. ASSUME NEW t \in Server PROVE ColumnsOf(t)'
    <2>1. CASE t = s
      <3>1. server'[s].at \in AfterFirst => columns'["schema_version"] # "none"
        BY <1>1, <1>3, <1>4 DEF Halfway, AfterFirst, AfterCreate
      <3> QED
        BY <1>3, <1>6, <2>1, <3>1 DEF ColumnsOf, At
    <2>2. CASE t # s
      <3>1. ColumnsOf(t) /\ server'[t] = server[t]
        BY <1>7, <2>2, ColumnsParts
      <3>2. Halfway(t)' => AtStage(columns', server'[t].next)
        BY <1>2, <1>7, <2>2, <3>1 DEF ColumnsOf, Step
      <3> QED
        BY <1>1, <3>1, <3>2 DEF ColumnsOf, At, Step
    <2> QED
      BY <2>1, <2>2
  <1>9. OneHalfway'
    BY <1>6, <1>7, ColumnsParts DEF OneHalfway
  <1>10. Columns0001'
    <2>1. CASE AtStage(columns, 1)
      BY <1>2, <2>1 DEF Columns0001
    <2>2. CASE AtStage(columns, 6) \/ cut \cap {"skipped", "0001"} # {}
      BY <1>1, <1>2, <2>2, ColumnsParts DEF Columns0001
    <2>3. CASE columns["schema_version"] # "none" /\ \E t \in Server : Halfway(t)
      <3>1. PICK t \in Server : Halfway(t)
        BY <2>3
      <3>2. CASE t = s
        BY <1>1, <1>5, <2>3, <3>1, <3>2 DEF Columns0001
      <3>3. CASE t # s
        BY <1>1, <1>7, <2>3, <3>1, <3>3 DEF Columns0001
      <3> QED
        BY <3>2, <3>3
    <2> QED
      BY <2>1, <2>2, <2>3, ColumnsParts DEF Columns0001
  <1> QED
    BY <1>8, <1>9, <1>10 DEF ColumnsInv, ColumnsOf, OneHalfway, Columns0001

\* The columns are at a stage of 0001 that the servers account for.
LEMMA ColumnsStep ==
    ASSUME TypeOK, TablesInv, ColumnsInv, NEW s \in Server, Action(s)
    PROVE  ColumnsInv'
  <1>1. CASE ~First(s)
    BY <1>1, OtherColumns
  <1>2. CASE First(s) /\ Done(s)
    BY <1>2, DoneColumns
  <1>3. CASE First(s) /\ (Thrown(s) \/ Skipped(s))
    BY <1>3, EndColumns
  <1> QED
    BY <1>1, <1>2, <1>3, FirstCases

------------------------------------------------------------------------------
(* The errors.                                                              *)

\* A server that throws was overtaken, or misses tables that were skipped.
LEMMA Fails ==
    ASSUME TypeOK, TablesInv, ColumnsInv, NEW s \in Server, Action(s),
           server'[s].at = "error"
    PROVE  s \in overtaken' \/ "skipped" \in cut'
  <1>a. \A p, n : Goes(s, p, n) => server'[s].at = p
    BY GoesTo
  <1>b. server[s].at \in AfterCreate /\ tables < worldvariables /\ cut' = cut
           => "skipped" \in cut'
    <2>1. tables \in Int
      BY DEF TypeOK
    <2> QED
      BY <2>1 DEF TablesInv, worldvariables
  <1>1. CASE Describe(s)
    <2>1. tables < world /\ Throw(s) /\ At(s, "describe")
      BY <1>1, <1>a DEF Describe
    <2>2. tables < worldvariables
      BY <2>1 DEF TypeOK, world, worldvariables
    <2> QED
      BY <1>b, <2>1, <2>2 DEF Throw, history, At, AfterCreate
  <1>2. CASE First(s)
    <2>1. Thrown(s) /\ At(s, "first")
      BY <1>2, FirstCases DEF Done, Skipped
    <2>2. tables < 1 \/ columns["schema_version"] # "none"
      <3>1. FirstChange[1].table = 1 /\ FirstChange[1].to = "new"
            /\ FirstChange[1].col = "schema_version"
        BY FirstScript
      <3> QED
        BY <2>1, <3>1 DEF Thrown, Refused
    <2>3. tables >= 1 /\ tables \in Int
      BY <2>1 DEF TablesInv, TypeOK, world
    <2>4. s \in overtaken
      BY <2>1, <2>2, <2>3 DEF ColumnsInv, Thrown
    <2> QED
      BY <2>1, <2>4 DEF Thrown
  <1>3. CASE FindVars(s)
    <2>1. tables < worldvariables /\ Throw(s) /\ At(s, "vars")
      BY <1>3, <1>a DEF FindVars
    <2> QED
      BY <1>b, <2>1 DEF Throw, history, At, AfterCreate
  <1>4. CASE Start(s)
    BY <1>4, <1>a DEF Start
  <1>5. CASE Stop(s)
    BY <1>5, <1>a DEF Stop
  <1>6. CASE Break(s)
    BY <1>6, <1>a DEF Break
  <1>7. CASE CountTables(s)
    BY <1>7, <1>a DEF CountTables
  <1>8. CASE Create(s)
    BY <1>8, <1>a DEF Create, Skip
  <1>9. CASE GetVersion(s)
    BY <1>9, <1>a DEF GetVersion
  <1>10. CASE Second(s)
    BY <1>10, <1>a DEF Second, Skip
  <1>11. CASE Record(s)
    BY <1>11, <1>a DEF Record
  <1>12. CASE FindWorld(s)
    BY <1>12, <1>a DEF FindWorld
  <1>13. CASE PutWorld(s)
    BY <1>13, <1>a DEF PutWorld
  <1>14. CASE AddVars(s)
    BY <1>14, <1>a DEF AddVars
  <1>15. CASE LinkVars(s)
    BY <1>15, <1>a DEF LinkVars
  <1>16. CASE Connect(s)
    BY <1>16, <1>a DEF Connect
  <1> QED
    BY <1>1, <1>2, <1>3, <1>4, <1>5, <1>6, <1>7, <1>8, <1>9, <1>10, <1>11, <1>12, <1>13, <1>14, <1>15, <1>16 DEF Action

\* Only a server's own start makes it forget that it was overtaken.
LEMMA Excused ==
    ASSUME TypeOK, NEW s \in Server, Action(s)
    PROVE  overtaken \ {s} \subseteq overtaken'
  <1>1. CASE ~First(s)
    BY <1>1, HalfwayEnds
  <1>2. CASE First(s)
    BY <1>2, FirstCases DEF Done, Thrown, Skipped
  <1> QED
    BY <1>1, <1>2

\* No error comes from what an earlier start has left behind.
LEMMA RecoversStep ==
    ASSUME TypeOK, TablesInv, ColumnsInv, Recovers, NEW s \in Server, Action(s)
    PROVE  Recovers'
  <1>1. cut \subseteq cut' /\ Leads(s) /\ overtaken \ {s} \subseteq overtaken'
    BY Growth, Lead, Excused DEF Grows
  <1>2. ASSUME NEW t \in Server, server'[t].at = "error"
        PROVE  t \in overtaken' \/ "skipped" \in cut'
    <2>1. CASE t = s
      BY <1>2, <2>1, Fails
    <2>2. CASE t # s
      BY <1>1, <1>2, <2>2 DEF Leads, Recovers, At
    <2> QED
      BY <2>1, <2>2
  <1> QED
    BY <1>2 DEF Recovers, At

------------------------------------------------------------------------------
(* The invariant, and what follows.                                         *)

\* A new database, and one of an earlier version, satisfy the invariant.
LEMMA InitIInv == Init => IInv
  <1> SUFFICES ASSUME Init PROVE IInv
    OBVIOUS
  <1>1. /\ \A s \in Server : server[s].at = "down" /\ server[s].next = 0
        /\ server \in [Server -> [at : Place, next : Nat]]
    BY DEF Init, Place
  <1>2. /\ tables = 0 \/ tables = All
        /\ DOMAIN version \subseteq Server
        /\ \A w \in DOMAIN version : version[w] = SqlNull
    BY DEF Init
  <1>3. TypeOK
    <2>1. columns \in [Column -> {"none", "old", "new"}] /\ tables \in 0..All
      BY <1>2 DEF Init, All
    <2>2. \A s \in Server : ~At(s, "create") /\ ~At(s, "first") /\ ~At(s, "second")
                            /\ ~At(s, "linkvars")
      BY <1>1 DEF At
    <2>3. failures \in 0..MaxFailures /\ last \in Nat
      BY DEF Init
    <2> QED
      BY <1>1, <1>2, <2>1, <2>2, <2>3 DEF Init, TypeOK
  <1>4. WorldInv /\ VarsInv /\ Recovers
    BY <1>1 DEF Init, WorldInv, VarsInv, Recovers, HasVars, At, WithWorld,
                AfterSecond, AfterFirst, AfterCreate
  <1>5. TablesInv
    BY <1>1, <1>2 DEF TablesInv, At, AfterCreate, WithTables, worldvariables, All
  <1>6. ColumnsInv
    <2>1. Are(columns, "none", "old", "none", "none")
      BY DEF Init, Are, Column
    <2>2. AtStage(columns, 1)
      BY <2>1 DEF AtStage
    <2> QED
      BY <1>1, <2>2 DEF ColumnsInv, Halfway, At, AfterFirst, AfterCreate
  <1>7. VersionInv
    BY <1>1, <1>2 DEF VersionInv, VersionBacked, SqlNull, SchemaVersion, At,
                      AfterSecond, AfterFirst, AfterCreate
  <1> QED
    BY <1>3, <1>4, <1>5, <1>6, <1>7 DEF IInv

\* Every step keeps the invariant.
LEMMA Inductive == IInv /\ [Next]_vars => IInv'
  <1> SUFFICES ASSUME IInv, [Next]_vars PROVE IInv'
    OBVIOUS
  <1>1. CASE Next
    <2>1. PICK s \in Server : Action(s)
      BY <1>1 DEF Next, Action
    <2> QED
      BY <2>1, TypeStep, WorldStep, TablesStep, ColumnsStep, VersionStep, VarsStep,
         RecoversStep DEF IInv
  <1>2. CASE UNCHANGED vars
    <2>1. TypeOK' /\ WorldInv'
      BY <1>2 DEF vars, schema, history, IInv, TypeOK, WorldInv, At, Step
    <2>2. TablesInv' /\ Recovers'
      BY <1>2 DEF vars, schema, history, IInv, TablesInv, Recovers, At
    <2>3. ColumnsInv'
      BY <1>2 DEF vars, schema, history, IInv, ColumnsInv, Halfway, At, Step
    <2>4. VersionInv'
      BY <1>2 DEF vars, schema, history, IInv, VersionInv, VersionBacked, Widened, At, Step
    <2>5. VarsInv'
      BY <1>2 DEF vars, IInv, VarsInv, HasVars
    <2> QED
      BY <2>1, <2>2, <2>3, <2>4, <2>5 DEF IInv
  <1> QED
    BY <1>1, <1>2

\* The invariant holds in every state.
THEOREM Invariance == Spec => []IInv
  BY InitIInv, Inductive, PTL DEF Spec

\* Statements of the scripts exist, links and rows too, at every moment of
\* every start.
THEOREM TypeCorrect == Spec => []TypeOK
  BY Invariance, PTL DEF IInv

\* A server that has answered initdb finds the whole schema, but for a script
\* that was cut short or that another server is at.
THEOREM SchemaWhole == Spec => []SchemaComplete
  <1>1. IInv => SchemaComplete
    <2> SUFFICES ASSUME IInv, NEW s \in Server, At(s, "ready")
                 PROVE  /\ \/ tables = All \/ "tables" \in cut
                           \/ \E t \in Server : At(t, "create")
                        /\ \/ \A c \in Column : columns[c] = "new"
                           \/ cut \cap {"skipped", "0001"} # {}
                           \/ \E t \in Server : At(t, "first") /\ Step(t) > 1
      BY DEF SchemaComplete
    <2>1. tables >= worldvariables /\ tables \in Int
      BY DEF IInv, TablesInv, WithTables, At, TypeOK
    <2>2. \/ tables = All \/ "tables" \in cut
          \/ \E t \in Server : At(t, "create")
      BY <2>1 DEF IInv, TablesInv, worldvariables
    <2>3. columns["schema_version"] # "none"
      BY DEF IInv, ColumnsInv, At, AfterFirst, AfterCreate
    <2>4. ~AtStage(columns, 1)
      BY <2>3, StageColumn
    <2>5. AtStage(columns, 6) => \A c \in Column : columns[c] = "new"
      <3>1. AtStage(columns, 6) => Are(columns, "new", "new", "new", "new")
        BY DEF AtStage
      <3> QED
        BY <3>1 DEF Are, Column
    <2>6. \/ AtStage(columns, 6) \/ cut \cap {"skipped", "0001"} # {}
          \/ \E t \in Server : Halfway(t)
      BY <2>4 DEF IInv, ColumnsInv
    <2> QED
      BY <2>2, <2>5, <2>6 DEF Halfway
  <1> QED
    BY <1>1, Invariance, PTL

\* A row of world that shows version 2 stands for all of 0002, unless a
\* statement of it was skipped in silence.
THEOREM VersionMeansSchema == Spec => []VersionBacked
  BY Invariance, PTL DEF IInv, VersionInv

\* No start gives a world a second set of variables, and a server that is
\* ready has one.
THEOREM OneSetOfVars == Spec => []OneVars
  <1>1. IInv => OneVars
    BY DEF IInv, VarsInv, OneVars, At
  <1> QED
    BY <1>1, Invariance, PTL

\* initdb fails only by a failure of its own, by another server at 0001, or
\* for tables that were skipped before: an earlier start that was broken off
\* anywhere does no harm.
THEOREM StartsRecover == Spec => []Recovers
  BY Invariance, PTL DEF IInv

================================================================================
