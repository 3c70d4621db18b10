------------------------------ MODULE RestServer ------------------------------
(***************************************************************************)
(* The REST server of rest/.  One thread of its own runs an io_context,    *)
(* accepts connections, and hands the body of every POST to /execute/...   *)
(* to the game's callback.  The game thread starts it once, and stops and  *)
(* joins it in terminateHandler, wherever the thread is in its code.       *)
(*                                                                         *)
(* terminateHandler deletes the thread object and keeps the pointer.  What *)
(* a second call then does is undefined: it joins or frees freed memory.   *)
(***************************************************************************)
EXTENDS Naturals

VARIABLES
    registered,         \* callbackPtr # nullptr
    serverinitialized,
    thread,             \* where the server's thread is in its code, and,
                        \* once it has been deleted, that serverThread dangles
    stopped,            \* serverReference.stop() was called
    rpc                 \* terminateHandler's place in the code

vars == << registered, serverinitialized, thread, stopped, rpc >>

\* The module's constructor; no callback is known to a library just loaded.
Init ==
    /\ registered = FALSE
    /\ serverinitialized = FALSE
    /\ thread = "none"
    /\ stopped = FALSE
    /\ rpc = "idle"

Load ==
    /\ registered' = FALSE
    /\ serverinitialized' = FALSE
    /\ thread' = "none"
    /\ stopped' = FALSE
    /\ rpc' = "idle"

\* RVExtensionRegisterCallback.
Register ==
    /\ registered' = TRUE
    /\ UNCHANGED << serverinitialized, thread, stopped, rpc >>

\* spawnHandler; a server that was started before, ended or not, throws.
Spawn ==
    /\ ~serverinitialized
    /\ serverinitialized' = TRUE
    /\ thread' = "starting"
    /\ UNCHANGED << registered, stopped, rpc >>

------------------------------------------------------------------------------
(* serverFunction, on the server's thread.                                  *)

Moves(place) ==
    /\ thread' = place
    /\ UNCHANGED << registered, serverinitialized, stopped, rpc >>

\* Faulty variant of Listen: the io_context is made ready before it runs.
ListenRestarts ==
    /\ thread = "starting"
    /\ thread' = "running" /\ stopped' = FALSE
    /\ UNCHANGED << registered, serverinitialized, rpc >>

\* The acceptor is opened, the first accept posted, run() entered.  When the
\* acceptor throws, it throws out of the thread, which ends the process.
Listen == thread = "starting" /\ Moves("running")

\* A connection is accepted, its request read and processed; whatever it is,
\* only a POST to /execute/name gets as far as the callback.  Without one
\* handle_callback calls a null pointer, which ends the process.
Request == thread = "running" /\ ~stopped /\ registered /\ Moves("callback")

\* The game's callback returns, and the response is written.
Respond == thread = "callback" /\ Moves("running")

\* run() returns, also when stop() came before it.
RunEnds == thread = "running" /\ stopped /\ Moves("ended")

------------------------------------------------------------------------------
(* terminateHandler, on the game thread.                                    *)

NothingToEnd == thread = "none" /\ UNCHANGED vars

Stop ==
    /\ thread \notin {"none", "deleted"}
    /\ stopped' = TRUE
    /\ rpc' = "join"
    /\ UNCHANGED << registered, serverinitialized, thread >>

EndAgain == thread = "deleted" /\ UNCHANGED vars

\* Faulty variant of Join: the thread is detached.
JoinDetaches ==
    /\ rpc = "join"
    /\ rpc' = "idle"
    /\ thread' = IF thread = "ended" THEN "deleted" ELSE thread
    /\ UNCHANGED << registered, serverinitialized, stopped >>

Join ==
    /\ rpc = "join" /\ thread = "ended"
    /\ rpc' = "idle"
    /\ thread' = "deleted"
    /\ UNCHANGED << registered, serverinitialized, stopped >>
==============================================================================
