-------------------------------- MODULE Redex --------------------------------
(***************************************************************************)
(* The dispatcher of LibRedex (redex.cpp, main.cpp).  One game thread      *)
(* calls the extension.  A call runs at once (SYNC), or is posted to an    *)
(* io_service whose run() is executed by a pool of worker threads: an      *)
(* ASYNC call answers with a ticket and leaves its result in msgmap, a     *)
(* CALLBACK call hands its result to the registered callback, a QUIET one  *)
(* drops it.  An answer larger than the game's buffer is split, and its    *)
(* rest waits in msgmap under a fresh identifier.                          *)
(*                                                                         *)
(* msgmap is locked only around find, insert and erase: the receiving      *)
(* calls use the iterator they found after they released msgmutex.  A      *)
(* locked section is one step here, the unlocked use of the iterator a     *)
(* step of its own.                                                        *)
(*                                                                         *)
(* A result is abstracted to its length; a piece of it to the interval of  *)
(* characters it carries.                                                  *)
(***************************************************************************)
EXTENDS Integers, Sequences, FiniteSets

CONSTANTS
    Id,         \* uuids, also naming the contents that never need one
    NoId,       \* no identifier
    Worker,     \* the threads of asyncthreadpool
    Sizes,      \* lengths of the results of the registered functions
    Caps,       \* room in the game's buffer: outputSize - 1
    Overhead    \* STATIC_MULTIPART_MESSAGE_PROTOCOL_OVERHEAD

ASSUME IdAssumption == NoId \notin Id
ASSUME SizeAssumption == Sizes \subseteq Nat \ {0}
ASSUME CapAssumption == /\ Overhead \in Nat \ {0}
                        /\ Caps \subseteq Nat
                        /\ \A c \in Caps : c >= Overhead

VARIABLES
    configured, \* the config file was found: threads and modules exist
    registered, \* callbackPtr # nullptr
    \* the io_service
    jobs,       \* posted handlers, each named by its identifier
    work,       \* the idle work object exists
    stopped,    \* REDEXioService.stopped()
    wpc, wjob,  \* each worker's place in the code, and its job
    \* the message store
    msgmap,     \* identifier -> queue of pieces
    \* the game thread
    gpc,        \* its place in the code
    op, iter,   \* the receiving call in progress and its iterator
    hand,       \* rcvasmsg's copy of the first piece
    cap,        \* room in the buffer of the call in progress (0: no call)
    reply,      \* what the call returns
    \* history: what each identifier was given out for, the length of the
    \* content it names (0: not computed yet), and the characters of that
    \* content the game received, or nobody will receive
    class, made, got, lost

gameVars   == << gpc, op, iter, hand, cap, reply >>
threadVars == << jobs, work, stopped, wpc, wjob >>
history    == << class, made, got, lost >>
vars == << configured, registered, threadVars, msgmap, gameVars, history >>

------------------------------------------------------------------------------
(* Pieces and replies.                                                      *)

Piece == [of : Id \cup {NoId}, lo : Nat \ {0}, hi : Nat]
Empty == [of |-> NoId, lo |-> 1, hi |-> 0]
Whole(i, n) == [of |-> i, lo |-> 1, hi |-> n]
Length(p) == p.hi + 1 - p.lo
Chars(p) == p.lo .. p.hi
Least(a, b) == IF a <= b THEN a ELSE b

ReplyKind == {"none", "ticket", "error", "text", "exists", "missing",
              "terminated", "piece", "done", "multipart"}
Reply(k, i, p) == [kind |-> k, id |-> i, piece |-> p]

\* Characters m+1.. of the piece p, cut at every c characters.
ChunkCount(n, c) == (n + c - 1) \div c
\* Faulty variant of Chunks: the rest starts one character late.
ChunksSkipOne(p, m, c) ==
    [k \in 1..ChunkCount(Length(p) - m, c) |->
        [of |-> p.of,
         lo |-> p.lo + m + (k - 1) * c + IF k = 1 THEN 1 ELSE 0,
         hi |-> Least(p.lo + m + k * c - 1, p.hi)]]

Chunks(p, m, c) ==
    [k \in 1..ChunkCount(Length(p) - m, c) |->
        [of |-> p.of,
         lo |-> p.lo + m + (k - 1) * c,
         hi |-> Least(p.lo + m + k * c - 1, p.hi)]]

Without(b, i) == [j \in DOMAIN b \ {i} |-> b[j]]
With(b, i, q) == [j \in DOMAIN b \cup {i} |-> IF j = i THEN q ELSE b[j]]

Receive(p) == IF p.of = NoId THEN got
              ELSE [got EXCEPT ![p.of] = @ \cup Chars(p)]
Lose(i, s) == [lost EXCEPT ![i] = @ \cup s]

Busy(w) == wpc[w] \in {"call", "store", "callback", "finish"}
Fresh(i) == class[i] = "unused"

\* io_service::stop() runs by itself when the last piece of work is gone.
Drained(ws) == jobs = << >> /\ \A w \in ws : ~Busy(w)

------------------------------------------------------------------------------
(* redex::redex(): without a config file no thread is ever started.         *)
Init ==
    /\ configured \in BOOLEAN
    /\ registered = FALSE
    /\ jobs = << >>
    /\ work = configured
    /\ stopped = FALSE
    /\ wpc = [w \in Worker |-> IF configured THEN "idle" ELSE "absent"]
    /\ wjob = [w \in Worker |-> NoId]
    /\ msgmap = [i \in {} |-> << >>]
    /\ gpc = "idle" /\ op = "none" /\ iter = NoId /\ hand = Empty
    /\ cap = 0
    /\ reply = Reply("none", NoId, Empty)
    /\ class = [i \in Id |-> "unused"]
    /\ made = [i \in Id |-> 0]
    /\ got = [i \in Id |-> {}]
    /\ lost = [i \in Id |-> {}]

------------------------------------------------------------------------------
(* The worker threads: io_service::run().                                   *)

\* Faulty variant of Dispatch: the job stays in the queue while it runs.
DispatchWithoutPop(w) ==
    /\ wpc[w] = "idle" /\ ~stopped /\ jobs # << >>
    /\ wpc' = [wpc EXCEPT ![w] = "call"]
    /\ wjob' = [wjob EXCEPT ![w] = Head(jobs)]
    /\ UNCHANGED << configured, registered, jobs, work, stopped, msgmap,
                    gameVars, history >>

Dispatch(w) ==
    /\ wpc[w] = "idle" /\ ~stopped /\ jobs # << >>
    /\ wpc' = [wpc EXCEPT ![w] = "call"]
    /\ wjob' = [wjob EXCEPT ![w] = Head(jobs)]
    /\ jobs' = Tail(jobs)
    /\ UNCHANGED << configured, registered, work, stopped, msgmap, gameVars,
                    history >>

\* The function returns a result, or throws and its message is the result.
\* A quiet call has no identifier and keeps neither.
Call(w, n) ==
    LET i == wjob[w] IN
    /\ wpc[w] = "call"
    /\ made' = [made EXCEPT ![i] = n]
    /\ wpc' = [wpc EXCEPT ![w] = CASE class[i] = "async" -> "store"
                                   [] class[i] = "callback" -> "callback"
                                   [] OTHER -> "finish"]
    /\ lost' = IF class[i] = "quiet" THEN Lose(i, 1..n) ELSE lost
    /\ UNCHANGED << configured, registered, jobs, work, stopped, wjob, msgmap,
                    gameVars, class, got >>

\* map::insert under the lock: it never replaces an object.
Store(w) ==
    LET i == wjob[w] IN
    /\ wpc[w] = "store"
    /\ msgmap' = IF i \in DOMAIN msgmap THEN msgmap
                 ELSE With(msgmap, i, << Whole(i, made[i]) >>)
    /\ wpc' = [wpc EXCEPT ![w] = "finish"]
    /\ UNCHANGED << configured, registered, jobs, work, stopped, wjob,
                    gameVars, history >>

\* The callback runs on the worker and takes the result whole.
Callback(w) ==
    LET i == wjob[w] IN
    /\ wpc[w] = "callback"
    /\ IF registered
       THEN got' = Receive(Whole(i, made[i])) /\ UNCHANGED lost
       ELSE lost' = Lose(i, 1..made[i]) /\ UNCHANGED got
    /\ wpc' = [wpc EXCEPT ![w] = "finish"]
    /\ UNCHANGED << configured, registered, jobs, work, stopped, wjob, msgmap,
                    gameVars, class, made >>

\* Faulty variant of Finish: only idle work, never a job, ends the service.
FinishNeverStops(w) ==
    /\ wpc[w] = "finish"
    /\ wpc' = [wpc EXCEPT ![w] = "idle"]
    /\ wjob' = [wjob EXCEPT ![w] = NoId]
    /\ UNCHANGED << configured, registered, jobs, work, stopped, msgmap,
                    gameVars, history >>

Finish(w) ==
    /\ wpc[w] = "finish"
    /\ wpc' = [wpc EXCEPT ![w] = "idle"]
    /\ wjob' = [wjob EXCEPT ![w] = NoId]
    /\ stopped' = (stopped \/ (~work /\ Drained(Worker \ {w})))
    /\ UNCHANGED << configured, registered, jobs, work, msgmap, gameVars,
                    history >>

\* Faulty variant of Exit: a thread leaves as soon as the idle work is gone.
ExitWithoutWork(w) ==
    /\ wpc[w] = "idle" /\ (stopped \/ ~work)
    /\ wpc' = [wpc EXCEPT ![w] = "exited"]
    /\ UNCHANGED << configured, registered, jobs, work, stopped, wjob, msgmap,
                    gameVars, history >>

Exit(w) ==
    /\ wpc[w] = "idle" /\ stopped
    /\ wpc' = [wpc EXCEPT ![w] = "exited"]
    /\ UNCHANGED << configured, registered, jobs, work, stopped, wjob, msgmap,
                    gameVars, history >>

------------------------------------------------------------------------------
(* The game thread: RVExtensionArgs, processCallExtension.                  *)

Register ==
    /\ gpc = "idle" /\ ~registered
    /\ registered' = TRUE
    /\ UNCHANGED << configured, threadVars, msgmap, gameVars, history >>

\* ASYNC, CALLBACK and QUIET calls.  The dispatcher itself registers an
\* asynchronous and a callback version query, the modules everything else.
Post(k, i) ==
    /\ gpc = "idle" /\ Fresh(i)
    /\ k = "quiet" => configured
    /\ jobs' = Append(jobs, i)
    /\ class' = [class EXCEPT ![i] = k]
    /\ reply' = Reply("ticket", IF k = "quiet" THEN NoId ELSE i, Empty)
    /\ UNCHANGED << configured, registered, work, stopped, wpc, wjob, msgmap,
                    gpc, op, iter, hand, cap, made, got, lost >>

\* A SYNC call, or an unknown function, returns a text of n characters.
Sync(i, n, c) ==
    /\ gpc = "idle" /\ Fresh(i)
    /\ class' = [class EXCEPT ![i] = "sync"]
    /\ made' = [made EXCEPT ![i] = n]
    /\ reply' = Reply("text", NoId, Whole(i, n))
    /\ gpc' = "return" /\ cap' = c
    /\ UNCHANGED << configured, registered, threadVars, msgmap, op, iter, hand,
                    got, lost >>

\* A SYNC call throws: RVExtensionArgs answers with a truncated error text.
Throw ==
    /\ gpc = "idle"
    /\ reply' = Reply("error", NoId, Empty)
    /\ UNCHANGED << configured, registered, threadVars, msgmap, gpc, op, iter,
                    hand, cap, history >>

Chkmsg(i) ==
    /\ gpc = "idle"
    /\ reply' = Reply(IF i \in DOMAIN msgmap THEN "exists" ELSE "missing",
                      i, Empty)
    /\ UNCHANGED << configured, registered, threadVars, msgmap, gpc, op, iter,
                    hand, cap, history >>

\* Faulty variant of Find: any ticket handed out is taken for present.
FindUnchecked(o, i, c) ==
    /\ gpc = "idle" /\ ~Fresh(i)
    /\ gpc' = "use" /\ op' = o /\ iter' = i /\ cap' = c
    /\ UNCHANGED << configured, registered, threadVars, msgmap, hand, reply,
                    history >>

\* rcvmsg and rcvasmsg: find under the lock, then unlock.  For an unknown
\* identifier the one throws, the other says so.
Find(o, i, c) ==
    /\ gpc = "idle"
    /\ IF i \in DOMAIN msgmap
       THEN /\ gpc' = "use" /\ op' = o /\ iter' = i /\ cap' = c
            /\ UNCHANGED reply
       ELSE /\ reply' = Reply("missing", i, Empty)
            /\ UNCHANGED << gpc, op, iter, cap >>
    /\ UNCHANGED << configured, registered, threadVars, msgmap, hand, history >>

\* rcvasmsg, without the lock: copy the first piece.
Copy ==
    /\ gpc = "use" /\ op = "rcvasmsg"
    /\ hand' = IF msgmap[iter] # << >> THEN Head(msgmap[iter]) ELSE Empty
    /\ gpc' = "erase"
    /\ UNCHANGED << configured, registered, threadVars, msgmap, op, iter, cap,
                    reply, history >>

\* Faulty variant of Pop: the piece is read and not removed.
PopKeepsFront ==
    /\ gpc = "use" /\ op = "rcvmsg" /\ msgmap[iter] # << >>
    /\ reply' = Reply("piece", iter, Head(msgmap[iter]))
    /\ gpc' = "return" /\ op' = "none" /\ iter' = NoId
    /\ UNCHANGED << configured, registered, threadVars, msgmap, hand, cap,
                    history >>

\* rcvmsg, without the lock: pop the first piece.
Pop ==
    /\ gpc = "use" /\ op = "rcvmsg" /\ msgmap[iter] # << >>
    /\ reply' = Reply("piece", iter, Head(msgmap[iter]))
    /\ msgmap' = [msgmap EXCEPT ![iter] = Tail(@)]
    /\ gpc' = "return" /\ op' = "none" /\ iter' = NoId
    /\ UNCHANGED << configured, registered, threadVars, hand, cap, history >>

\* Faulty variant of Exhausted: the object goes with its last piece in it.
ExhaustedAtLast ==
    /\ gpc = "use" /\ op = "rcvmsg" /\ Len(msgmap[iter]) <= 1
    /\ gpc' = "erase"
    /\ UNCHANGED << configured, registered, threadVars, msgmap, op, iter, hand,
                    cap, reply, history >>

\* rcvmsg: the queue is empty, the object is to be deleted.
Exhausted ==
    /\ gpc = "use" /\ op = "rcvmsg" /\ msgmap[iter] = << >>
    /\ gpc' = "erase"
    /\ UNCHANGED << configured, registered, threadVars, msgmap, op, iter, hand,
                    cap, reply, history >>

\* The characters of the content j in the queue q that no call copied.
LeftIn(q, j) ==
    UNION {IF q[k].of = j THEN Chars(q[k]) ELSE {}
              : k \in (IF op = "rcvasmsg" THEN 2 ELSE 1)..Len(q)}

\* Erase by iterator, under the lock.  What was not copied is gone.
Erase ==
    /\ gpc = "erase"
    /\ msgmap' = Without(msgmap, iter)
    /\ IF op = "rcvasmsg"
       THEN /\ reply' = Reply("piece", iter, hand)
            /\ gpc' = "return" /\ UNCHANGED cap
       ELSE /\ reply' = Reply("done", iter, Empty)
            /\ gpc' = "idle" /\ cap' = 0
    /\ lost' = [j \in Id |-> lost[j] \cup LeftIn(msgmap[iter], j)]
    /\ op' = "none" /\ iter' = NoId /\ hand' = Empty
    /\ UNCHANGED << configured, registered, threadVars, class, made, got >>

\* The answer fits the game's buffer.
Return ==
    /\ gpc = "return" /\ Length(reply.piece) <= cap
    /\ got' = Receive(reply.piece)
    /\ gpc' = "idle" /\ cap' = 0
    /\ UNCHANGED << configured, registered, threadVars, msgmap, op, iter, hand,
                    reply, class, made, lost >>

\* Faulty variant of Split: the head is one character shorter.
SplitShortHead(i, m) ==
    LET p == reply.piece
        head == [p EXCEPT !.hi = p.lo + m - 2]
    IN
    /\ gpc = "return" /\ Length(p) > cap /\ Fresh(i)
    /\ class' = [class EXCEPT ![i] = "multipart"]
    /\ msgmap' = With(msgmap, i, Chunks(p, m, cap))
    /\ reply' = Reply("multipart", i, head)
    /\ got' = Receive(head)
    /\ gpc' = "idle" /\ cap' = 0
    /\ UNCHANGED << configured, registered, threadVars, op, iter, hand, made,
                    lost >>

\* multipartMSGGenerator: the first m characters are returned, the rest is
\* stored in pieces as large as the buffer.  Each double quote among the
\* first ones costs one more character, so m may be anything up to the
\* room the overhead leaves.
Split(i, m) ==
    LET p == reply.piece
        head == [p EXCEPT !.hi = p.lo + m - 1]
    IN
    /\ gpc = "return" /\ Length(p) > cap /\ Fresh(i)
    /\ class' = [class EXCEPT ![i] = "multipart"]
    /\ msgmap' = With(msgmap, i, Chunks(p, m, cap))
    /\ reply' = Reply("multipart", i, head)
    /\ got' = Receive(head)
    /\ gpc' = "idle" /\ cap' = 0
    /\ UNCHANGED << configured, registered, threadVars, op, iter, hand, made,
                    lost >>

\* Faulty variant of Terminate: stop() comes before the wait.
TerminateStopsFirst ==
    /\ gpc = "idle"
    /\ work' = FALSE /\ stopped' = TRUE
    /\ gpc' = "spin"
    /\ UNCHANGED << configured, registered, jobs, wpc, wjob, msgmap, op, iter,
                    hand, cap, reply, history >>

(* terminate(), called by termall: give up the idle work, spin until the    *)
(* io_service has stopped by itself, join the threads.                      *)
Terminate ==
    /\ gpc = "idle"
    /\ work' = FALSE
    /\ stopped' = (stopped \/ (work /\ Drained(Worker)))
    /\ gpc' = "spin"
    /\ UNCHANGED << configured, registered, jobs, wpc, wjob, msgmap, op, iter,
                    hand, cap, reply, history >>

Stopped ==
    /\ gpc = "spin" /\ stopped
    /\ gpc' = "join"
    /\ UNCHANGED << configured, registered, threadVars, msgmap, op, iter, hand,
                    cap, reply, history >>

AllJoined == \A w \in Worker : wpc[w] \in {"exited", "absent"}

Join ==
    /\ gpc = "join" /\ AllJoined
    /\ gpc' = "idle"
    /\ reply' = Reply("terminated", NoId, Empty)
    /\ UNCHANGED << configured, registered, threadVars, msgmap, op, iter, hand,
                    cap, history >>

(* ~redex(), when the library is unloaded: stop without waiting for jobs.   *)
Destroy ==
    /\ gpc = "idle"
    /\ work' = FALSE /\ stopped' = TRUE
    /\ gpc' = "unload"
    /\ UNCHANGED << configured, registered, jobs, wpc, wjob, msgmap, op, iter,
                    hand, cap, reply, history >>

\* Faulty variant of Unloaded: the threads are not joined, as on Windows.
UnloadedUnjoined ==
    /\ gpc = "unload"
    /\ gpc' = "gone"
    /\ UNCHANGED << configured, registered, threadVars, msgmap, op, iter, hand,
                    cap, reply, history >>

Unloaded ==
    /\ gpc = "unload" /\ AllJoined
    /\ gpc' = "gone"
    /\ UNCHANGED << configured, registered, threadVars, msgmap, op, iter, hand,
                    cap, reply, history >>

------------------------------------------------------------------------------
WorkerStep(w) == \/ Dispatch(w) \/ Store(w) \/ Callback(w)
                 \/ Finish(w) \/ Exit(w)
                 \/ \E n \in Sizes : Call(w, n)

\* The game's own decisions, and the steps of the call it is in.
NewCall == \/ Register \/ Throw \/ Terminate \/ Destroy
           \/ \E i \in Id : \/ \E k \in {"async", "callback", "quiet"} :
                                  Post(k, i)
                            \/ Chkmsg(i)
                            \/ \E c \in Caps :
                                  \/ \E n \in Sizes : Sync(i, n, c)
                                  \/ Find("rcvmsg", i, c)
                                  \/ Find("rcvasmsg", i, c)
InCall == \/ Copy \/ Pop \/ Exhausted \/ Erase \/ Return
          \/ \E i \in Id, m \in 0..(cap - Overhead) : Split(i, m)
          \/ Stopped \/ Join \/ Unloaded

Next == NewCall \/ InCall \/ \E w \in Worker : WorkerStep(w)

Spec == Init /\ [][Next]_vars

------------------------------------------------------------------------------
(* Properties.                                                              *)

TypeOK ==
    /\ configured \in BOOLEAN /\ registered \in BOOLEAN
    /\ jobs \in Seq(Id) /\ work \in BOOLEAN /\ stopped \in BOOLEAN
    /\ wpc \in [Worker -> {"absent", "idle", "call", "store", "callback",
                           "finish", "exited"}]
    /\ wjob \in [Worker -> Id \cup {NoId}]
    /\ DOMAIN msgmap \subseteq Id
    /\ \A i \in DOMAIN msgmap : msgmap[i] \in Seq(Piece)
    /\ gpc \in {"idle", "use", "erase", "return", "spin", "join", "unload",
                "gone"}
    /\ op \in {"none", "rcvmsg", "rcvasmsg"}
    /\ iter \in Id \cup {NoId}
    /\ hand \in Piece /\ cap \in Caps \cup {0}
    /\ reply \in [kind : ReplyKind, id : Id \cup {NoId}, piece : Piece]
    /\ class \in [Id -> {"unused", "async", "callback", "quiet", "sync",
                         "multipart"}]
    /\ made \in [Id -> Nat]
    /\ got \in [Id -> SUBSET Nat] /\ lost \in [Id -> SUBSET Nat]

\* The iterator a receiving call found and uses after it unlocked msgmutex
\* (redex.cpp:374-391, 404-425) still points at its object, however many
\* workers insert meanwhile; when rcvasmsg erases the object its copy is
\* still the front of the queue, when rcvmsg does the queue is still empty.
IteratorValid ==
    /\ gpc \in {"use", "erase"} => iter \in DOMAIN msgmap
    /\ gpc = "erase" =>
          IF op = "rcvasmsg"
          THEN hand = IF msgmap[iter] # << >> THEN Head(msgmap[iter]) ELSE Empty
          ELSE msgmap[iter] = << >>

\* A ticket is posted once, run by one worker, and its result stored at most
\* once: it is never in two stages of redex.cpp:228-286 at the same time,
\* and map::insert (redex.cpp:281) never meets an object already there.
QueuedOnce == \A k, l \in 1..Len(jobs) : jobs[k] = jobs[l] => k = l
RunOnce == \A v, w \in Worker : Busy(v) /\ Busy(w) /\ wjob[v] = wjob[w] => v = w
QueuedNotStored == \A k \in 1..Len(jobs) : jobs[k] \notin DOMAIN msgmap
RunNotQueuedOrStored ==
    \A w \in Worker : Busy(w) =>
        /\ wjob[w] \in Id
        /\ \A k \in 1..Len(jobs) : jobs[k] # wjob[w]
        /\ wpc[w] # "finish" => wjob[w] \notin DOMAIN msgmap
OneStage == QueuedOnce /\ RunOnce /\ QueuedNotStored /\ RunNotQueuedOrStored

\* Where the n-th character of the content i is.
Places(i, n) ==
    LET At(p) == p.of = i /\ n \in Chars(p)
        If(b, x) == IF b THEN {x} ELSE {}
    IN If(n \in got[i], << "received" >>)
       \cup If(n \in lost[i], << "lost" >>)
       \cup If(gpc = "return" /\ At(reply.piece), << "returning" >>)
       \cup {<< "worker", w >> :
               w \in {v \in Worker : wpc[v] \in {"store", "callback"} /\ wjob[v] = i}}
       \cup UNION {{<< "stored", t, k >> :
                       k \in {l \in 1..Len(msgmap[t]) : At(msgmap[t][l])}}
                   : t \in DOMAIN msgmap}

\* Every character of every result is in exactly one place: with a worker,
\* in one piece of one message object, in the answer being returned,
\* received by the game, or given up.  However a result is split, split
\* again for a smaller buffer, and fetched, nothing is lost or repeated.
EveryCharacterOnce ==
    \A i \in Id : \A n \in 1..made[i] : Cardinality(Places(i, n)) = 1

\* Only a call whose protocol has no answer gives a result up: a quiet one, a
\* callback nobody registered for, or rcvasmsg asked for a message that was
\* split (redex.cpp:383-390 drops its other pieces).
OnlyMisuseLoses ==
    [][\A i \in Id : lost'[i] # lost[i] =>
          \/ class[i] \in {"quiet", "callback"}
          \/ gpc = "erase" /\ op = "rcvasmsg" /\ class[iter] = "multipart"]_vars

\* terminate() means to "wait until all jobs are finished" (redex.cpp:146):
\* its wait cannot end before every call posted so far was executed, and its
\* result left the worker.
JobsFinished ==
    [][~stopped /\ stopped' /\ gpc' # "unload" =>
          /\ \A i \in Id :
                class[i] \in {"async", "callback", "quiet"} => made[i] # 0
          /\ \A w \in Worker : wpc'[w] = "idle"]_vars

\* Redex implements Mailbox: the receiving calls, built from a locked find,
\* an unlocked use and a locked erase, take effect at one instant.
Box == INSTANCE Mailbox WITH box <- msgmap
Atomic == Box!Spec
==============================================================================
