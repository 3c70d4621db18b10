------------------------------- MODULE WorldStore -------------------------------
(***************************************************************************)
(* What the database keeps of players as such and of a world as such       *)
(* (mysql.cpp): the table player, which loadPlayer and logoutPlayer write, *)
(* and the variables of one world, which initdb and setWorldVariables both *)
(* make when they find none.  The callers are the workers of all servers   *)
(* on the database, and the game thread of each that starts.               *)
(*                                                                         *)
(* A step is a statement; it may fail, and then the call throws and what   *)
(* it did stays.  Columns that only travel (names, target world, main      *)
(* clan, counts of kills) are left out.  Bans and the whitelist belong to  *)
(* the operator of the database: no call of the program changes them.      *)
(***************************************************************************)
EXTENDS Integers, FiniteSets

CONSTANTS
    Caller,     \* the threads that run calls
    Steam,      \* steamids
    Strict,     \* the callers whose server has gamesettings.whitelistonly
    Value,      \* contents of the world's variables
    Empty,      \* "[]", of initdb without variables
    MaxUuid,    \* bound: uuids that are handed out
    MaxTime,    \* bound: the clock
    MaxPlaytime,\* bound: no logout that would count more
    MaxFailures \* bound: statements that fail

Uuid == 1..MaxUuid
NoUuid == 0
Time == 0..MaxTime
NoValue == "none"

ASSUME SteamAssumption == Steam # {}
ASSUME CallerAssumption == Strict \subseteq Caller
ASSUME ValueAssumption == NoValue \notin Value /\ Empty \in Value
ASSUME BoundAssumption == MaxUuid \in Nat /\ MaxTime \in Nat /\ MaxFailures \in Nat
ASSUME PlaytimeAssumption == MaxPlaytime \in Nat

VARIABLES
    player,     \* steamid -> [uuid, firstlogin, lastlogin, playtime]
    variables,  \* persistent_variables of this world: uuid -> value
    linked,     \* world_has_persistent_variables: their uuids
    call,       \* each caller's call: its next statement, steamid, uuid, value
    now,        \* the database's clock
    last,       \* the last uuid that orderedUUID made
    failures,   \* how often a statement failed
    \* history: << steamid, uuid >> that loadPlayer answered; players with no
    \* login since their last logout, and those who logged out like that; a
    \* call found no variables while another one was about to link some
    told, out, twice, overlap

world == << variables, linked, overlap >>
people == << player, told, out, twice >>
counters == << now, last, failures >>
vars == << world, people, call, counters >>

Idle == [at |-> "idle", steam |-> CHOOSE p \in Steam : TRUE, uuid |-> NoUuid,
         value |-> NoValue]
At(c, place) == call[c].at = place
Sets(c, r) == call' = [call EXCEPT ![c] = r]
Ends(c) == Sets(c, Idle)
Goes(c, place) == Sets(c, [call[c] EXCEPT !.at = place])
Known == DOMAIN player
NewUuid == last < MaxUuid /\ last' = last + 1

------------------------------------------------------------------------------
Init ==
    /\ player = [p \in {} |-> 0]
    /\ variables = [u \in {} |-> Empty] /\ linked = {}
    /\ call = [c \in Caller |-> Idle]
    /\ now = 0 /\ last = 0 /\ failures = 0
    /\ told = {} /\ out = {} /\ twice = {} /\ overlap = FALSE

Tick ==
    /\ now < MaxTime /\ now' = now + 1
    /\ UNCHANGED << world, people, call, last, failures >>

\* A statement fails and the call throws; or the server dies.
Throw(c) ==
    /\ ~At(c, "idle")
    /\ failures < MaxFailures /\ failures' = failures + 1
    /\ Ends(c)
    /\ UNCHANGED << world, people, now, last >>

------------------------------------------------------------------------------
(* loadPlayer.                                                              *)

\* The SELECT.  Whether a player in the table is banned is the operator's
\* matter; then the call ends here.
LoadPlayer(c, p) ==
    /\ At(c, "idle")
    /\ IF p \in Known
       THEN \/ Sets(c, [Idle EXCEPT !.at = "login", !.steam = p,
                                    !.uuid = player[p].uuid]) /\ UNCHANGED last
            \/ UNCHANGED << call, last >>
       ELSE /\ NewUuid
            /\ Sets(c, [Idle EXCEPT !.at = "insert", !.steam = p, !.uuid = last + 1])
    /\ UNCHANGED << world, people, now, failures >>

\* What follows the login: the whitelist is asked, or the call answers.
Enters(c) ==
    IF c \in Strict THEN Goes(c, "whitelist") /\ UNCHANGED told
    ELSE Ends(c) /\ told' = told \cup {<< call[c].steam, call[c].uuid >>}

\* Faulty variant of InsertPlayer: the refused INSERT goes unnoticed.
InsertPlayerQuietly(c) ==
    LET p == call[c].steam IN
    /\ At(c, "insert")
    /\ IF p \in Known THEN UNCHANGED player
       ELSE player' = [q \in Known \cup {p} |->
               IF q # p THEN player[q] ELSE
               [uuid |-> call[c].uuid, firstlogin |-> now, lastlogin |-> now,
                playtime |-> 0]]
    /\ Enters(c)
    /\ UNCHANGED << world, out, twice, counters >>

\* The INSERT, for a steamid the SELECT did not find.  UNIQUE: the steamid.
InsertPlayer(c) ==
    LET p == call[c].steam IN
    /\ At(c, "insert")
    /\ IF p \in Known THEN Ends(c) /\ UNCHANGED << player, told >> ELSE
       /\ player' = [q \in Known \cup {p} |->
               IF q # p THEN player[q] ELSE
               [uuid |-> call[c].uuid, firstlogin |-> now, lastlogin |-> now,
                playtime |-> 0]]
       /\ Enters(c)
    /\ UNCHANGED << world, out, twice, counters >>

\* Faulty variant of Login: only the first login is recorded.
LoginKeepsTime(c) ==
    /\ At(c, "login")
    /\ out' = out \ {call[c].steam}
    /\ Enters(c)
    /\ UNCHANGED << world, player, twice, counters >>

\* The UPDATE of lastlogin.
Login(c) ==
    LET p == call[c].steam IN
    /\ At(c, "login")
    /\ player' = [player EXCEPT ![p].lastlogin = now]
    /\ out' = out \ {p}
    /\ Enters(c)
    /\ UNCHANGED << world, twice, counters >>

\* The SELECT of the whitelist: who is not on it is answered as banned.
Whitelist(c) ==
    /\ At(c, "whitelist")
    /\ \/ told' = told \cup {<< call[c].steam, call[c].uuid >>}
       \/ UNCHANGED told
    /\ Ends(c)
    /\ UNCHANGED << world, player, out, twice, counters >>

\* logoutPlayer: one UPDATE adds the time since lastlogin.
LogoutPlayer(c, p) ==
    /\ At(c, "idle") /\ p \in Known
    /\ player[p].playtime + (now - player[p].lastlogin) <= MaxPlaytime
    /\ player' = [player EXCEPT ![p].playtime = @ + (now - player[p].lastlogin)]
    /\ twice' = IF p \in out THEN twice \cup {p} ELSE twice
    /\ out' = out \cup {p}
    /\ UNCHANGED << world, told, call, counters >>

------------------------------------------------------------------------------
(* checkWorldVARIABLES, of initdb and setWorldVariables.                    *)

\* A call that has found no variables and not yet linked its own.
Making(c) == At(c, "addvars") \/ At(c, "linkvars")

\* Faulty variant of FindVars: a call with variables always makes a new row.
FindVarsNever(c, v) ==
    /\ At(c, "idle")
    /\ NewUuid
    /\ Sets(c, [Idle EXCEPT !.at = "addvars", !.uuid = last + 1, !.value = v])
    /\ overlap' = (overlap \/ \E d \in Caller : Making(d))
    /\ UNCHANGED << variables, linked, people, now, failures >>

\* The SELECT of the world's variables.  Found, they are set to the call's; a
\* call without any (Empty, of initdb) is done.
FindVars(c, v) ==
    /\ At(c, "idle")
    /\ IF linked = {}
       THEN /\ NewUuid
            /\ Sets(c, [Idle EXCEPT !.at = "addvars", !.uuid = last + 1, !.value = v])
            /\ overlap' = (overlap \/ \E d \in Caller : Making(d))
       ELSE /\ v # Empty
            /\ Sets(c, [Idle EXCEPT !.at = "setvars", !.value = v])
            /\ UNCHANGED << last, overlap >>
    /\ UNCHANGED << variables, linked, people, now, failures >>

AddVars(c) ==
    LET u == call[c].uuid IN
    /\ At(c, "addvars")
    /\ variables' = [x \in DOMAIN variables \cup {u} |->
                        IF x = u THEN call[c].value ELSE variables[x]]
    /\ Goes(c, "linkvars")
    /\ UNCHANGED << linked, overlap, people, counters >>

LinkVars(c) ==
    /\ At(c, "linkvars")
    /\ linked' = linked \cup {call[c].uuid}
    /\ Ends(c)
    /\ UNCHANGED << variables, overlap, people, counters >>

\* The UPDATE takes the uuid from a subquery, which fails when it has two rows.
SetVars(c) ==
    /\ At(c, "setvars")
    /\ variables' = IF Cardinality(linked) > 1 THEN variables ELSE
                    [u \in DOMAIN variables |->
                        IF u \in linked THEN call[c].value ELSE variables[u]]
    /\ Ends(c)
    /\ UNCHANGED << linked, overlap, people, counters >>

------------------------------------------------------------------------------
Step(c) ==
    \/ Throw(c) \/ InsertPlayer(c) \/ Login(c) \/ Whitelist(c)
    \/ AddVars(c) \/ LinkVars(c) \/ SetVars(c)
    \/ \E p \in Steam : LoadPlayer(c, p) \/ LogoutPlayer(c, p)
    \/ \E v \in Value : FindVars(c, v)

Next == Tick \/ \E c \in Caller : Step(c)

Spec == Init /\ [][Next]_vars

------------------------------------------------------------------------------
(* Properties.                                                              *)

TypeOK ==
    /\ Known \subseteq Steam
    /\ \A p \in Known : player[p] \in [uuid : Uuid, firstlogin : Time,
                                       lastlogin : Time, playtime : Nat]
    /\ DOMAIN variables \subseteq Uuid
    /\ \A u \in DOMAIN variables : variables[u] \in Value
    /\ linked \subseteq DOMAIN variables
    /\ call \in [Caller -> [at : {"idle", "insert", "login", "whitelist",
                                  "addvars", "linkvars", "setvars"},
                            steam : Steam, uuid : Uuid \cup {NoUuid},
                            value : Value \cup {NoValue}]]
    /\ now \in Time /\ last \in 0..MaxUuid /\ failures \in 0..MaxFailures
    /\ told \subseteq Steam \X Uuid
    /\ out \subseteq Steam /\ twice \subseteq Steam /\ overlap \in BOOLEAN

\* However many logins of one player run at once (mysql.cpp:1141-1150), all
\* answers name the one uuid he has in the table.
OneIdentity == \A t \in told : t[1] \in Known /\ player[t[1]].uuid = t[2]

\* playtime (mysql.cpp:1189) counts no second twice: it never exceeds the time
\* since the first login, though logins and logouts of several servers come in
\* any order, unless two logouts follow one login.
NoTimeTwice ==
    \A p \in Known \ twice :
        player[p].playtime <= now - player[p].firstlogin

\* A world has two sets of variables, after which every call that reads or sets
\* them fails (mysql.cpp:887, 995), only if two calls looked for them before
\* either had linked its own.
VarsOnce == Cardinality(linked) > 1 => overlap
==============================================================================
