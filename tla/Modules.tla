------------------------------- MODULE Modules -------------------------------
(***************************************************************************)
(* The modules with a life of their own that redex owns besides the        *)
(* database, over the life of the library: loaded, called, terminated by   *)
(* termall as often as the game likes, terminated once more when it is     *)
(* unloaded, and loaded again.  Calls of other kinds, and what termall     *)
(* does before it comes to the modules, are in Redex and Service.          *)
(*                                                                         *)
(* The library of a process that died, of whatever reason, is gone, and    *)
(* so is its memory; its files stay.                                       *)
(***************************************************************************)
EXTENDS Naturals, Sequences

CONSTANTS
    File, Readable, ReadOnce, MaxMessages,  \* of FileIO
    MaxLoads    \* bound: how often the library is loaded

ASSUME ReadOnceAssumption == ReadOnce \subseteq Readable
ASSUME BoundAssumption == MaxMessages \in Nat /\ MaxLoads \in Nat

VARIABLES
    readlist, stream, disk, sent, base, told,                   \* of FileIO
    registered, serverinitialized, thread, stopped, rpc,        \* of RestServer
    library,    \* where the game is in the library's life
    loads,
    ended       \* history: termall or the unloading was the last to change
                \* the modules' threads

F == INSTANCE FileIO
S == INSTANCE RestServer

fileVars == << readlist, stream, disk, sent, base, told >>
restVars == << registered, serverinitialized, thread, stopped, rpc >>
vars == << fileVars, restVars, library, loads, ended >>

Init ==
    /\ F!Init /\ S!Init
    /\ library = "absent" /\ loads = 0 /\ ended = FALSE

------------------------------------------------------------------------------
\* extensioninit: init() makes a redex, and it its modules.
Load ==
    /\ library \in {"absent", "dead"} /\ loads < MaxLoads
    /\ F!Load /\ S!Load
    /\ library' = "loaded" /\ loads' = loads + 1 /\ ended' = FALSE

\* The process ends, and with it its threads and streams: by a call on a
\* deleted stream, a port that is taken, a request without a callback, a
\* second end of the REST server, or a cause outside of the library.
Die ==
    /\ library \in {"loaded", "terminating", "unloading"}
    /\ F!Terminate /\ S!Load
    /\ library' = "dead" /\ ended' = FALSE
    /\ UNCHANGED loads

FileCall ==
    /\ library = "loaded"
    /\ \/ \E f \in Readable : F!ReadFile(f)
       \/ \E f \in File : F!WriteFile(f) \/ F!AppendFile(f)
    /\ UNCHANGED << restVars, library, loads, ended >>

RestCall ==
    /\ library = "loaded"
    /\ \/ S!Register /\ UNCHANGED ended
       \/ S!Spawn /\ ended' = FALSE
    /\ UNCHANGED << fileVars, library, loads >>

\* The modules are terminated one after the other, the REST server last.
\* For a server that was terminated before, it may come back.
Terminate(next, last) ==
    /\ library = "loaded"
    /\ F!Terminate
    /\ \/ S!Stop /\ library' = next /\ UNCHANGED ended
       \/ (S!NothingToEnd \/ S!EndAgain) /\ library' = last /\ ended' = TRUE
    /\ UNCHANGED loads

Termall == Terminate("terminating", "loaded")
Unload == Terminate("unloading", "absent")

Join ==
    /\ S!Join
    /\ library' = IF library = "terminating" THEN "loaded" ELSE "absent"
    /\ ended' = TRUE
    /\ UNCHANGED << fileVars, loads >>

ServerStep ==
    /\ S!Listen \/ S!Respond \/ S!RunEnds
    /\ UNCHANGED << fileVars, library, loads, ended >>

Request == S!Request /\ UNCHANGED << fileVars, library, loads, ended >>

Next == \/ Load \/ Die \/ FileCall \/ RestCall \/ Termall \/ Unload \/ Join
        \/ ServerStep \/ Request

\* The game thread and the server's are scheduled, and the game's callback
\* returns.  Nobody need send a request.
Fairness == WF_vars(Join) /\ WF_vars(ServerStep)
Spec == Init /\ [][Next]_vars /\ Fairness

------------------------------------------------------------------------------
(* Properties.                                                              *)

\* FileIO's promise, over any number of loads, ends and deaths.
Kept == F!Kept

\* When termall or the unloading has come back, no thread of the REST server
\* is left to run the library's code or to call the game
\* (restserver.cpp:42-57, redex.cpp:132-134, 157-159), wherever it was when
\* it was stopped: until the next start of the server after a termall, and
\* for good after an unloading.
Quiet ==
    (library = "loaded" /\ ended) \/ library = "absent" =>
        thread \in {"none", "deleted"}

\* terminateHandler, and with it termall and the unloading, comes back
\* (restserver.cpp:49-54): also if it stops the server before the thread has
\* come to run it, or while it is in a callback.
Ending == library \in {"terminating", "unloading"}
Returns == Ending ~> ~Ending
==============================================================================
