--------------------------------- MODULE Clan ---------------------------------
(***************************************************************************)
(* The clans of mysql_db_handler (mysql.cpp).  Each call is a sequence of  *)
(* SQL statements, every one on its own and without a transaction, run by  *)
(* a worker thread while other workers run theirs.  A statement is one     *)
(* step; it fails by itself (a key, a foreign key) or because the          *)
(* connection fails, and then the call throws and what it did stays.       *)
(*                                                                         *)
(* A name is a word and its spelling: LOWER() compares words.  A uuid is   *)
(* written in lower case (as orderedUUID makes it) or in upper case (as    *)
(* HEX() prints it).                                                       *)
(***************************************************************************)
EXTENDS Integers, FiniteSets

CONSTANTS
    Worker,             \* the worker threads
    Player, Clan, Name, \* the rows' keys, and [word, spelling] records
    NoPlayer, NoClan, NoName,   \* an argument that is not given, SQL's NULL
    NoJob,              \* no call
    Job                 \* the calls: [op, clan, player, name, form]

ASSUME NullAssumption == NoPlayer \notin Player /\ NoClan \notin Clan /\ NoName \notin Name
ASSUME JobAssumption ==
    Job \subseteq [op : {"createClan", "updateClan", "addClanPlayer",
                         "deleteClanPlayer", "updatePlayerMainClan"},
                   clan : Clan \cup {NoClan}, player : Player \cup {NoPlayer},
                   name : Name \cup {NoName}, form : {"lower", "upper"}]

\* Every call but these names a player, and every call but one a clan.
ASSUME ArgumentAssumption ==
    \A j \in Job :
        /\ j.op # "updateClan" => j.player \in Player
        /\ j.op # "updatePlayerMainClan" => j.clan \in Clan
        /\ j.op = "createClan" => j.name \in Name

VARIABLES
    clan,       \* table clan: [founder, name] of each clan
    member,     \* table clan_member: its keys
    mainclan,   \* table player: mainclan_uuid of each player
    call,       \* each worker's call: [at, job, seen], its next statement, its
                \* arguments, and the main clan that addClanPlayer read
    \* history: memberships ever deleted; clans whose owner never became a
    \* member; workers after whose check of a name another one was written,
    \* and the clans that got their name from such a worker
    removed, torn, late, raced

tables == << clan, member, mainclan >>
history == << removed, torn, late, raced >>
vars == << tables, call, history >>

Idle == [at |-> "idle", job |-> NoJob, seen |-> NoClan]
Goes(w, place) ==
    call' = [call EXCEPT ![w] = IF place = "idle" THEN Idle
                                ELSE [@ EXCEPT !.at = place]]
Ends(w) == Goes(w, "idle")
At(w, place) == call[w].at = place
Arg(w) == call[w].job
Calls(w, ops) == Arg(w).op \in ops
Pair(w) == << Arg(w).clan, Arg(w).player >>
Known(p) == p \in DOMAIN mainclan
Exists(c) == c \in DOMAIN clan

------------------------------------------------------------------------------
Init ==
    /\ clan = [c \in {} |-> 0] /\ member = {}
    /\ \E known \in SUBSET Player : mainclan = [p \in known |-> NoClan]
    /\ call = [w \in Worker |-> Idle]
    /\ removed = {} /\ torn = {} /\ raced = {}
    /\ late = [w \in Worker |-> FALSE]

\* The worker begins a call.
Start(w, j) ==
    /\ At(w, "idle")
    /\ call' = [call EXCEPT ![w] =
          [at |-> CASE j.op = "createClan" -> "owner"
                    [] j.op = "updatePlayerMainClan" /\ j.clan = NoClan -> "unset"
                    [] OTHER -> "exists",
           job |-> j, seen |-> NoClan]]
    /\ UNCHANGED << tables, history >>

\* The statement fails and the call throws.
Throw(w) ==
    /\ ~At(w, "idle")
    /\ Ends(w)
    /\ torn' = IF At(w, "insertmember") /\ Calls(w, {"createClan"})
               THEN torn \cup {Arg(w).clan} ELSE torn
    /\ UNCHANGED << tables, removed, late, raced >>

------------------------------------------------------------------------------
(* The checks.                                                              *)

\* createClan: "only create clan if owner actually exists".
Owner(w) ==
    /\ At(w, "owner")
    /\ Known(Arg(w).player)
    /\ Goes(w, "unique")
    /\ UNCHANGED << tables, history >>

Taken(n) == \E c \in DOMAIN clan : clan[c].name.word = n.word

\* Faulty variant of Unique: LOWER is forgotten.
UniqueSpelling(w) ==
    /\ At(w, "unique")
    /\ \A c \in DOMAIN clan : clan[c].name # Arg(w).name
    /\ Goes(w, IF Calls(w, {"createClan"}) THEN "insert" ELSE "rename")
    /\ late' = [late EXCEPT ![w] = FALSE]
    /\ UNCHANGED << tables, removed, torn, raced >>

\* failIfClanNameNotUnique.
Unique(w) ==
    /\ At(w, "unique")
    /\ ~Taken(Arg(w).name)
    /\ Goes(w, IF Calls(w, {"createClan"}) THEN "insert" ELSE "rename")
    /\ late' = [late EXCEPT ![w] = FALSE]
    /\ UNCHANGED << tables, removed, torn, raced >>

\* updateClan goes on with the name, if one is given.
NameNext(w) == Goes(w, IF Arg(w).name # NoName THEN "unique" ELSE "idle")

\* failIfClanNotExists.
ClanExists(w) ==
    /\ At(w, "exists")
    /\ Exists(Arg(w).clan)
    /\ IF Calls(w, {"updateClan"}) /\ Arg(w).player = NoPlayer
       THEN NameNext(w) ELSE Goes(w, "ismember")
    /\ UNCHANGED << tables, history >>

\* Faulty variant of IsMember: the new owner need not be a member.
IsMemberAnyOwner(w) ==
    LET yes == Pair(w) \in member IN
    /\ At(w, "ismember")
    /\ Calls(w, {"updatePlayerMainClan"}) => yes
    /\ Goes(w, CASE Arg(w).op = "updateClan" -> "founder"
                 [] Arg(w).op = "updatePlayerMainClan" -> "setmain"
                 [] Arg(w).op = "addClanPlayer" ->
                        IF yes THEN "idle" ELSE "readmain"
                 [] Arg(w).op = "deleteClanPlayer" ->
                        IF yes THEN "delete" ELSE "idle")
    /\ UNCHANGED << tables, history >>

\* Faulty variant of IsMember: the check is made for a new owner only.
IsMemberOwnerOnly(w) ==
    LET yes == Pair(w) \in member IN
    /\ At(w, "ismember")
    /\ Calls(w, {"updateClan"}) => yes
    /\ Goes(w, CASE Arg(w).op = "updateClan" -> "founder"
                 [] Arg(w).op = "updatePlayerMainClan" -> "setmain"
                 [] Arg(w).op = "addClanPlayer" ->
                        IF yes THEN "idle" ELSE "readmain"
                 [] Arg(w).op = "deleteClanPlayer" ->
                        IF yes THEN "delete" ELSE "idle")
    /\ UNCHANGED << tables, history >>

\* playerMemberOfClan: a new owner and a new main clan need it, adding a
\* member does nothing then, deleting one does nothing otherwise.
IsMember(w) ==
    LET yes == Pair(w) \in member IN
    /\ At(w, "ismember")
    /\ Calls(w, {"updateClan", "updatePlayerMainClan"}) => yes
    /\ Goes(w, CASE Arg(w).op = "updateClan" -> "founder"
                 [] Arg(w).op = "updatePlayerMainClan" -> "setmain"
                 [] Arg(w).op = "addClanPlayer" ->
                        IF yes THEN "idle" ELSE "readmain"
                 [] Arg(w).op = "deleteClanPlayer" ->
                        IF yes THEN "delete" ELSE "idle")
    /\ UNCHANGED << tables, history >>

\* The player's main clan, read before he is added and after he is deleted.
\* The latter unsets it if the two uuids, compared as strings, are equal.
ReadMain(w) ==
    LET j == Arg(w) IN
    /\ At(w, "readmain")
    /\ Known(j.player)
    /\ IF j.op = "addClanPlayer"
       THEN call' = [call EXCEPT ![w].at = "insertmember",
                                 ![w].seen = mainclan[j.player]]
       ELSE Goes(w, IF mainclan[j.player] = j.clan /\ j.form = "upper"
                    THEN "unset" ELSE "idle")
    /\ UNCHANGED << tables, history >>

------------------------------------------------------------------------------
(* The writes.                                                              *)

\* The worker w names its clan: whoever checked a name before is late.
Named(w) ==
    /\ raced' = IF late[w] THEN raced \cup {Arg(w).clan}
                ELSE raced \ {Arg(w).clan}
    /\ late' = [v \in Worker |-> v # w \/ late[v]]

\* createClan: the clan's row, then its owner as the first member.  (Its
\* variables follow, in two rows of their own.)
InsertClan(w) ==
    LET j == Arg(w) IN
    /\ At(w, "insert")
    /\ ~Exists(j.clan) /\ Known(j.player)
    /\ clan' = [c \in DOMAIN clan \cup {j.clan} |->
                   IF c = j.clan THEN [founder |-> j.player, name |-> j.name]
                   ELSE clan[c]]
    /\ Goes(w, "insertmember")
    /\ Named(w)
    /\ UNCHANGED << member, mainclan, removed, torn >>

\* The primary key of clan_member refuses a second row.
InsertMember(w) ==
    /\ At(w, "insertmember")
    /\ Pair(w) \notin member
    /\ Exists(Arg(w).clan) /\ Known(Arg(w).player)
    /\ member' = member \cup {Pair(w)}
    /\ Goes(w, IF Calls(w, {"addClanPlayer"}) /\ call[w].seen = NoClan
               THEN "setmain" ELSE "idle")
    /\ UNCHANGED << clan, mainclan, history >>

\* updateClan: the owner, then the name.
Founder(w) ==
    LET j == Arg(w) IN
    /\ At(w, "founder")
    /\ Known(j.player)
    /\ clan' = [clan EXCEPT ![j.clan].founder = j.player]
    /\ NameNext(w)
    /\ UNCHANGED << member, mainclan, history >>

Rename(w) ==
    LET j == Arg(w) IN
    /\ At(w, "rename")
    /\ clan' = [clan EXCEPT ![j.clan].name = j.name]
    /\ Ends(w)
    /\ Named(w)
    /\ UNCHANGED << member, mainclan, removed, torn >>

Delete(w) ==
    /\ At(w, "delete")
    /\ member' = member \ {Pair(w)}
    /\ removed' = removed \cup {Pair(w)}
    /\ Goes(w, "readmain")
    /\ UNCHANGED << clan, mainclan, torn, late, raced >>

\* UPDATE player SET mainclan_uuid: an unknown player has no row to change.
SetMain(w) ==
    /\ At(w, "setmain")
    /\ mainclan' = [p \in DOMAIN mainclan |->
                       IF p = Arg(w).player THEN Arg(w).clan ELSE mainclan[p]]
    /\ Ends(w)
    /\ UNCHANGED << clan, member, history >>

Unset(w) ==
    /\ At(w, "unset")
    /\ mainclan' = [p \in DOMAIN mainclan |->
                       IF p = Arg(w).player THEN NoClan ELSE mainclan[p]]
    /\ Ends(w)
    /\ UNCHANGED << clan, member, history >>

------------------------------------------------------------------------------
Statement(w) == \/ Owner(w) \/ Unique(w) \/ ClanExists(w) \/ IsMember(w)
                \/ ReadMain(w) \/ InsertClan(w) \/ InsertMember(w)
                \/ Founder(w) \/ Rename(w) \/ Delete(w) \/ SetMain(w)
                \/ Unset(w) \/ Throw(w)

Next == \E w \in Worker : Statement(w) \/ \E j \in Job : Start(w, j)

Spec == Init /\ [][Next]_vars

------------------------------------------------------------------------------
(* Properties.                                                              *)

Place == {"idle", "owner", "unique", "exists", "ismember", "readmain", "insert",
          "insertmember", "founder", "rename", "delete", "setmain", "unset"}
TypeOK ==
    /\ DOMAIN clan \subseteq Clan
    /\ \A c \in DOMAIN clan : clan[c] \in [founder : Player, name : Name]
    /\ member \subseteq Clan \X Player /\ removed \subseteq Clan \X Player
    /\ DOMAIN mainclan \subseteq Player
    /\ \A p \in DOMAIN mainclan : mainclan[p] \in Clan \cup {NoClan}
    /\ call \in [Worker -> [at : Place, job : Job \cup {NoJob},
                            seen : Clan \cup {NoClan}]]
    /\ torn \subseteq Clan /\ raced \subseteq Clan
    /\ late \in [Worker -> BOOLEAN]

\* A player's main clan is one he is a member of, or was until a call of
\* deleteClanPlayer took him out (mysql.cpp:2404-2434, 2537-2546): however
\* the checks and the writes of several workers interleave, and wherever a
\* call breaks off, he never gets a main clan he did not belong to.
MainClanBacked ==
    \A p \in DOMAIN mainclan :
        mainclan[p] # NoClan => << mainclan[p], p >> \in member \cup removed

\* The owner of a clan is or was one of its members (mysql.cpp:2304-2312,
\* 2343-2355), unless createClan broke off between the clan's row and its
\* owner's, or is just there.
Creating(c) == \E w \in Worker : /\ At(w, "insertmember")
                                 /\ Arg(w).op = "createClan"
                                 /\ Arg(w).clan = c
OwnerBacked ==
    \A c \in DOMAIN clan :
        \/ << c, clan[c].founder >> \in member \cup removed
        \/ c \in torn \/ Creating(c)

SameName(c, d) == c # d /\ clan[c].name.word = clan[d].name.word

\* Two clans have the same name, but for its spelling, only if one of them
\* got it from a worker after whose check (mysql.cpp:2146-2165) another
\* worker wrote a name.  With one worker there are no such clans.
NamesUniqueUnlessRaced ==
    \A c, d \in DOMAIN clan :
        SameName(c, d) => c \in raced \/ d \in raced

\* "prevent name duplication case insensitive" (mysql.cpp:2293, 2359).
NamesUnique == \A c, d \in DOMAIN clan : ~SameName(c, d)

\* "if the main clan of player is the clan he was deleted from, unset the
\* main clan link" (mysql.cpp:2512): the call does not end with the link set.
MainClanUnset ==
    [][\A w \in Worker :
          /\ ReadMain(w) /\ Calls(w, {"deleteClanPlayer"})
          /\ mainclan[Arg(w).player] = Arg(w).clan
          => call'[w].at # "idle"]_vars
==============================================================================
