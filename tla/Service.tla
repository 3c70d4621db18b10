------------------------------- MODULE Service -------------------------------
(***************************************************************************)
(* The dispatcher and the connection pool at work together.  The handlers  *)
(* that the workers run (Redex) make queries over pooled connections       *)
(* (ConnPool); the game thread runs initdb, termdb and its synchronous     *)
(* queries itself; and the module of the database is terminated, and the   *)
(* pool emptied, when termall or the unloading of the library has joined   *)
(* the workers.  A worker that waits for a connection cannot finish its    *)
(* job, and the game that waits for the workers cannot run initdb.         *)
(***************************************************************************)
EXTENDS ConnPool

CONSTANTS
    Id, NoId, Sizes, Caps, Overhead,    \* of Redex, whose workers are Worker
    MaxQueries  \* bound: the queries one call makes

ASSUME MaxQueriesAssumption == MaxQueries \in Nat

VARIABLES
    \* of Redex
    configured, registered, jobs, work, stopped, wpc, wjob, msgmap,
    gpc, op, iter, hand, cap, reply, class, made, got, lost,
    \* the queries each thread's call may still make
    queries

R == INSTANCE Redex

redexVars == << configured, registered, jobs, work, stopped, wpc, wjob, msgmap,
                gpc, op, iter, hand, cap, reply, class, made, got, lost >>
serviceVars == << redexVars, vars, queries >>

ServiceInit == R!Init /\ Init /\ queries = [t \in Thread |-> 0]

Limit(t, n) == queries' = [queries EXCEPT ![t] = n]

------------------------------------------------------------------------------
(* A worker: its job, and inside the function it calls the queries.         *)

Dispatch(w) == R!Dispatch(w) /\ Limit(w, MaxQueries) /\ UNCHANGED vars

\* A query that failed throws out of the function.
MakeQuery(t) ==
    \/ queries[t] > 0 /\ Want(t) /\ Limit(t, queries[t] - 1)
    \/ (Get(t) \/ Return(t)) /\ UNCHANGED queries
    \/ Fail(t) /\ Limit(t, 0)

JobQuery(w) == wpc[w] = "call" /\ MakeQuery(w) /\ UNCHANGED redexVars

Call(w) ==
    /\ pc[w] = "idle"
    /\ \E n \in Sizes : R!Call(w, n)
    /\ UNCHANGED << vars, queries >>

AfterCall(w) ==
    /\ R!Store(w) \/ R!Callback(w) \/ R!Finish(w) \/ R!Exit(w)
    /\ UNCHANGED << vars, queries >>

WorkerStep(w) == Dispatch(w) \/ JobQuery(w) \/ Call(w) \/ AfterCall(w)

------------------------------------------------------------------------------
(* The game thread is in one call at a time.                                *)

InDatabaseCall == pc[Game] # "idle"

\* The calls that meet the workers.  The synchronous and the receiving ones
\* take no job and no connection: Redex has them.
NewCall ==
    /\ ~InDatabaseCall
    /\ \/ R!Register \/ R!Terminate \/ R!Destroy
       \/ \E i \in Id, k \in {"async", "callback", "quiet"} : R!Post(k, i)
    /\ UNCHANGED << vars, queries >>

\* initdb, termdb and a synchronous query, which the module registered.
NewDatabaseCall ==
    /\ configured /\ gpc = "idle"
    /\ \/ StartInit /\ Limit(Game, MaxQueries)
       \/ StartTerm /\ UNCHANGED queries
       \/ Want(Game) /\ Limit(Game, 0)
    /\ UNCHANGED redexVars

InDatabase ==
    /\ InDatabaseCall
    /\ \/ InitThrows \/ PushNew \/ CheckDone \/ Close \/ EndTerm
       \/ Get(Game) \/ Return(Game) \/ Fail(Game)
       \/ \E c \in Conn : Connect(c)
    /\ UNCHANGED << redexVars, queries >>

CheckAgain ==
    /\ queries[Game] > 0
    /\ CheckMore /\ Limit(Game, queries[Game] - 1)
    /\ UNCHANGED redexVars

Stopped ==
    /\ R!Stopped
    /\ UNCHANGED << vars, queries >>

\* The workers are joined: terminateHandler of the module disconnects.
TerminateModules ==
    /\ ~InDatabaseCall
    /\ R!Join \/ R!Unloaded
    /\ IF configured THEN StartTerm ELSE UNCHANGED vars
    /\ UNCHANGED queries

------------------------------------------------------------------------------
GameStep == InDatabase \/ CheckAgain \/ Stopped \/ TerminateModules

ServiceNext ==
        \/ NewCall \/ NewDatabaseCall \/ GameStep
        \/ \E w \in Worker : WorkerStep(w)

\* The operating system runs every thread, a spinning one included; the game
\* need not call.
ServiceFairness ==
    WF_serviceVars(GameStep) /\ \A w \in Worker : WF_serviceVars(WorkerStep(w))

ServiceSpec == ServiceInit /\ [][ServiceNext]_serviceVars /\ ServiceFairness

------------------------------------------------------------------------------
(* Properties.                                                              *)

\* The connections that failed queries did not keep.
Live == open \ leaked

\* A posted call is executed, to a result or an error (redex.cpp:228-286),
\* whatever its queries meet and whatever the game calls meanwhile, unless the
\* library is unloaded first, the io_service has been stopped, or there is not a
\* connection for every thread: before initdb, after termdb, and once a
\* query has failed.  With fewer, the game's own queries can take the
\* connection from under a spinning worker (mysql.cpp:488) again and again.
Answered ==
    \A i \in Id :
        (\E k \in 1..Len(jobs) : jobs[k] = i) /\ configured /\ ~stopped
            ~> \/ made[i] # 0 \/ gpc \in {"unload", "gone"}
               \/ Cardinality(Live) < Cardinality(Thread)

\* termall (redex.cpp:139-162) and the unloading of the library come back:
\* the workers end, and the database module is terminated.  Only one thing
\* may keep the game waiting for ever: a job waiting for a connection when
\* there is none, because initdb did not run or failed queries kept them all.
Waiting == gpc \in {"spin", "join", "unload"}
Starved == Live = {} /\ \E t \in Thread : pc[t] = "want"
TerminateReturns ==
    configured /\ Waiting ~> (gpc \in {"idle", "gone"} /\ pc[Game] = "idle") \/ Starved

\* Whatever the game waits for, in termall and in the unloading for the
\* workers (redex.cpp:122-128, 146-157), in initdb for the connection that a
\* worker took from it (mysql.cpp:488), it can go on or a worker can that it
\* waits for: the two never wait for each other, unless they starve.
GameCanGoOn ==
    /\ gpc = "spin" => stopped
    /\ gpc \in {"join", "unload"} => R!AllJoined
    /\ pc[Game] = "want" => pool # << >>
WorkerCanGoOn(w) ==
    \/ wpc[w] = "idle" /\ (stopped \/ jobs # << >>)
    \/ wpc[w] = "call" /\ (pc[w] = "want" => pool # << >>)
    \/ wpc[w] \in {"store", "callback", "finish"}
NobodyStuck ==
    configured => GameCanGoOn \/ (\E w \in Worker : WorkerCanGoOn(w)) \/ Starved

\* While the game waits, each step of a worker uses up something that nobody
\* brings back: it takes a job from the queue, or brings its own job nearer to
\* its end and leaves the others where they are.  So the wait cannot go on
\* for ever, as long as each job makes finitely many queries.
JobLeft == [call |-> 4, store |-> 3, callback |-> 3, finish |-> 2, idle |-> 1,
            exited |-> 0, absent |-> 0]
QueryLeft == [want |-> 2, query |-> 1, idle |-> 0]
StepsLeft(w) == JobLeft[wpc[w]] + 3 * queries[w] + QueryLeft[pc[w]]
WaitUsesUp ==
    [][Waiting /\ Waiting' =>
          \/ jobs # << >> /\ jobs' = Tail(jobs)
          \/ /\ jobs' = jobs
             /\ \E w \in Worker : /\ StepsLeft(w)' < StepsLeft(w)
                                 /\ \A v \in Worker \ {w} : StepsLeft(v)' = StepsLeft(v)
          \/ gpc = "spin" /\ gpc' = "join" /\ UNCHANGED << jobs, wpc, queries, pc >>
      ]_serviceVars

\* The unloading (redex.cpp:122-134) leaves no connection behind but those
\* that failed queries kept: the workers are joined before the module empties
\* the pool (mysql.cpp:465-481), so none comes back after that, whatever the
\* workers were doing when stop() was called.
NothingLeftOpen == gpc = "gone" /\ pc[Game] = "idle" => open \subseteq leaked
==============================================================================
