------------------------------- MODULE ConnPool -------------------------------
(***************************************************************************)
(* The pool of database connections of mysql_db_handler (mysql.cpp).       *)
(* Every query of a worker or of the game thread pops a connection from a  *)
(* lock-free queue, spinning while it is empty, and pushes it back when    *)
(* the query succeeded.  A query that fails throws and keeps it.  The game *)
(* thread alone fills (initdb) and empties (termdb) the queue, while the   *)
(* workers go on using it.                                                 *)
(*                                                                         *)
(* bounded_push takes a node from a fixed store of nodes that only         *)
(* reserve() enlarges: with no node left it does nothing and says so, and  *)
(* nobody looks.                                                           *)
(***************************************************************************)
EXTENDS Integers, Sequences, FiniteSets

CONSTANTS
    Worker,     \* the worker threads: as many as gamesettings.poolsize
    Game,       \* the game thread
    Conn,       \* addresses of connections
    NoConn,     \* no connection
    MaxCapacity \* bound: initdb is not tried when it would reserve more nodes

ASSUME WorkerAssumption == IsFiniteSet(Worker) /\ Worker # {} /\ Game \notin Worker
ASSUME ConnAssumption == NoConn \notin Conn
ASSUME MaxCapacityAssumption == MaxCapacity \in Nat

VARIABLES
    pool,       \* connectionpool
    capacity,   \* the nodes it may use
    poolinitialized, poolcleanup,
    building,   \* initdb is in progress
    built,      \* its loop counter i
    pc,         \* each thread's place in the code
    held,       \* the connection in each thread's hands
    open,       \* the connections the server knows of
    leaked      \* history: connections kept by a query that threw

vars == << pool, capacity, poolinitialized, poolcleanup, building, built, pc,
           held, open, leaked >>

Thread == Worker \cup {Game}
poolsize == Cardinality(Worker)

------------------------------------------------------------------------------
\* boost::lockfree::queue<intptr_t, fixed_sized<false>> connectionpool{1}.
Init ==
    /\ pool = << >>
    /\ capacity = 1
    /\ poolinitialized = FALSE /\ poolcleanup = FALSE
    /\ building = FALSE /\ built = 0
    /\ pc = [t \in Thread |-> "idle"]
    /\ held = [t \in Thread |-> NoConn]
    /\ open = {} /\ leaked = {}

\* bounded_push; its result is ignored.
Pushed(c) == IF Len(pool) < capacity THEN Append(pool, c) ELSE pool

Goes(t, place) == pc' = [pc EXCEPT ![t] = place]
Holds(t, c) == held' = [held EXCEPT ![t] = c]

------------------------------------------------------------------------------
(* Queries: rawquery, rawmultiquerys, preparedStatementQuery.               *)

\* A handler comes to its next query, of a job or of a synchronous dbversion.
Want(t) ==
    /\ pc[t] = "idle"
    /\ Goes(t, "want")
    /\ UNCHANGED << pool, capacity, poolinitialized, poolcleanup, building,
                    built, held, open, leaked >>

\* getconnection: while (!connectionpool.pop(...)).
Get(t) ==
    /\ pc[t] = "want" /\ pool # << >>
    /\ Holds(t, Head(pool))
    /\ pool' = Tail(pool)
    /\ Goes(t, "query")
    /\ UNCHANGED << capacity, poolinitialized, poolcleanup, building, built,
                    open, leaked >>

\* The query succeeded: returnconnection.
Return(t) ==
    /\ pc[t] = "query"
    /\ pool' = Pushed(held[t])
    /\ Holds(t, NoConn)
    /\ Goes(t, IF t = Game /\ building THEN "check" ELSE "idle")
    /\ UNCHANGED << capacity, poolinitialized, poolcleanup, building, built,
                    open, leaked >>

\* The query failed: the exception leaves with the connection.  In a check
\* of initdb it also ends initdb.
Fail(t) ==
    /\ pc[t] = "query"
    /\ leaked' = leaked \cup {held[t]}
    /\ Holds(t, NoConn)
    /\ Goes(t, "idle")
    /\ building' = (building /\ t # Game)
    /\ UNCHANGED << pool, capacity, poolinitialized, poolcleanup, built, open >>

------------------------------------------------------------------------------
(* initdb: spawnHandler.  Called again it throws, unless it failed before.  *)

\* Faulty variant of StartInit: fewer nodes than there are connections.
StartInitShort ==
    /\ pc[Game] = "idle" /\ ~poolinitialized
    /\ capacity + poolsize + 3 <= MaxCapacity
    /\ capacity' = capacity + poolsize - 1
    /\ building' = TRUE /\ built' = 0
    /\ Goes(Game, "connect")
    /\ UNCHANGED << pool, poolinitialized, poolcleanup, held, open, leaked >>

StartInit ==
    /\ pc[Game] = "idle" /\ ~poolinitialized
    /\ capacity + poolsize + 3 <= MaxCapacity
    /\ capacity' = capacity + poolsize + 3
    /\ building' = TRUE /\ built' = 0
    /\ Goes(Game, "connect")
    /\ UNCHANGED << pool, poolinitialized, poolcleanup, held, open, leaked >>

Connect(c) ==
    /\ pc[Game] = "connect"
    /\ c \notin open
    /\ open' = open \cup {c}
    /\ Holds(Game, c)
    /\ Goes(Game, "push")
    /\ UNCHANGED << pool, capacity, poolinitialized, poolcleanup, building,
                    built, leaked >>

\* An exception ends initdb: a connection is refused, or a check throws for
\* another reason than its query.  The connections made so far stay.
InitThrows ==
    /\ pc[Game] \in {"connect", "check"}
    /\ building' = FALSE
    /\ Goes(Game, "idle")
    /\ UNCHANGED << pool, capacity, poolinitialized, poolcleanup, built, held,
                    open, leaked >>

\* Faulty variants of PushNew: the loop makes one connection less, or more.
PushNewLess ==
    /\ pc[Game] = "push"
    /\ pool' = Pushed(held[Game])
    /\ Holds(Game, NoConn)
    /\ IF built = 0
       THEN Goes(Game, "want") /\ UNCHANGED << built, building, poolinitialized >>
       ELSE /\ built' = built + 1
            /\ building' = (built + 1 < poolsize)
            /\ poolinitialized' = ~building'
            /\ Goes(Game, IF building' THEN "connect" ELSE "idle")
    /\ UNCHANGED << capacity, poolcleanup, open, leaked >>
PushNewMore ==
    /\ pc[Game] = "push"
    /\ pool' = Pushed(held[Game])
    /\ Holds(Game, NoConn)
    /\ IF built = 0
       THEN Goes(Game, "want") /\ UNCHANGED << built, building, poolinitialized >>
       ELSE /\ built' = built + 1
            /\ building' = (built <= poolsize)
            /\ poolinitialized' = ~building'
            /\ Goes(Game, IF building' THEN "connect" ELSE "idle")
    /\ UNCHANGED << capacity, poolcleanup, open, leaked >>

\* The new connection enters the pool.  With the first one the checks of the
\* schema and of the world begin, with a query.  The loop ends after
\* poolsize + 1 connections.
PushNew ==
    /\ pc[Game] = "push"
    /\ pool' = Pushed(held[Game])
    /\ Holds(Game, NoConn)
    /\ IF built = 0
       THEN Goes(Game, "want") /\ UNCHANGED << built, building, poolinitialized >>
       ELSE /\ built' = built + 1
            /\ building' = (built + 1 <= poolsize)
            /\ poolinitialized' = ~building'
            /\ Goes(Game, IF building' THEN "connect" ELSE "idle")
    /\ UNCHANGED << capacity, poolcleanup, open, leaked >>

\* checkMigration, checkWorldUUID, checkWorldVARIABLES: some more queries.
CheckMore ==
    /\ pc[Game] = "check"
    /\ Goes(Game, "want")
    /\ UNCHANGED << pool, capacity, poolinitialized, poolcleanup, building,
                    built, held, open, leaked >>

CheckDone ==
    /\ pc[Game] = "check"
    /\ built' = 1
    /\ Goes(Game, "connect")
    /\ UNCHANGED << pool, capacity, poolinitialized, poolcleanup, building,
                    held, open, leaked >>

------------------------------------------------------------------------------
(* termdb: disconnect.                                                      *)

StartTerm ==
    /\ pc[Game] = "idle"
    /\ poolcleanup' = TRUE
    /\ Goes(Game, "close")
    /\ UNCHANGED << pool, capacity, poolinitialized, building, built, held,
                    open, leaked >>

\* Faulty variant of Close: all connections ever made are closed.
CloseAll ==
    /\ pc[Game] = "close" /\ pool # << >>
    /\ open' = {}
    /\ pool' = << >>
    /\ UNCHANGED << capacity, poolinitialized, poolcleanup, building, built,
                    pc, held, leaked >>

Close ==
    /\ pc[Game] = "close" /\ pool # << >>
    /\ open' = open \ {Head(pool)}
    /\ pool' = Tail(pool)
    /\ UNCHANGED << capacity, poolinitialized, poolcleanup, building, built,
                    pc, held, leaked >>

EndTerm ==
    /\ pc[Game] = "close" /\ pool = << >>
    /\ poolcleanup' = FALSE /\ poolinitialized' = FALSE
    /\ Goes(Game, "idle")
    /\ UNCHANGED << pool, capacity, building, built, held, open, leaked >>

------------------------------------------------------------------------------
Query(t) == Want(t) \/ Get(t) \/ Return(t) \/ Fail(t)
Initdb == \/ StartInit \/ InitThrows \/ PushNew \/ CheckMore \/ CheckDone
          \/ \E c \in Conn : Connect(c)
Termdb == StartTerm \/ Close \/ EndTerm

Next == Initdb \/ Termdb \/ \E t \in Thread : Query(t)

Spec == Init /\ [][Next]_vars

\* A spinning thread and a thread whose query is under way are scheduled.
Fairness == \A t \in Thread : WF_vars(Get(t)) /\ WF_vars(Return(t) \/ Fail(t))
FairSpec == Spec /\ Fairness

------------------------------------------------------------------------------
(* Properties.                                                              *)

InPool == {pool[k] : k \in 1..Len(pool)}
Holders == {t \in Thread : held[t] # NoConn}
InHand == {held[t] : t \in Holders}

TypeOK ==
    /\ pool \in Seq(Conn) /\ capacity \in Nat
    /\ poolinitialized \in BOOLEAN /\ poolcleanup \in BOOLEAN
    /\ building \in BOOLEAN /\ built \in 0..(poolsize + 1)
    /\ pc \in [Thread -> {"idle", "want", "query", "connect", "push", "check",
                          "close"}]
    /\ held \in [Thread -> Conn \cup {NoConn}]
    /\ open \in SUBSET Conn /\ leaked \in SUBSET Conn

\* No two threads ever talk over one connection, and none talks over a
\* connection that termdb closed (mysql.cpp:465-513), although termdb runs
\* while the workers take connections and give them back.
Exclusive ==
    /\ \A s, t \in Holders : held[s] = held[t] => s = t
    /\ \A k, l \in 1..Len(pool) : pool[k] = pool[l] => k = l
    /\ InPool \cap InHand = {}
    /\ InPool \cup InHand \subseteq open \ leaked

\* The ignored result of bounded_push (mysql.cpp:429, 505) never matters:
\* every open connection that no failed query kept is in the pool or in the
\* hands of a thread, after any number of failed and repeated initdb calls.
Accounted == open \subseteq InPool \cup InHand \cup leaked

\* The pool that initdb left is empty only when poolsize + 1 connections
\* are in use or were kept by failed queries: as long as no query fails no
\* thread of the program, the game thread included, finds it empty.
Usable == poolinitialized /\ ~poolcleanup
EmptyOnlyIfUsedUp ==
    Usable /\ pool = << >> =>
        Cardinality(leaked) + Cardinality(Holders) >= poolsize + 1

\* A thread spinning in getconnection (mysql.cpp:488) gets a connection, if
\* the scheduler only lets it run, until a query fails or termdb begins.
Served ==
    \A t \in Thread :
        pc[t] = "want" /\ Usable ~> pc[t] = "query" \/ ~Usable \/ leaked # {}
==============================================================================
