------------------------------ MODULE WorldProofs ------------------------------
(***************************************************************************)
(* The inductive invariant of WorldStore and what follows from it: all     *)
(* logins of a player are answered one uuid, no second of his is counted   *)
(* twice, and a world has two sets of variables only by a race.            *)
(***************************************************************************)
EXTENDS WorldStore, FiniteSetTheorems, TLAPS

USE SteamAssumption, ValueAssumption, BoundAssumption, PlaytimeAssumption

\* What a call knows at each of its statements.
CallOK(c) ==
    /\ At(c, "insert") => call[c].uuid \in Uuid
    /\ At(c, "login") \/ At(c, "whitelist") =>
          /\ call[c].steam \in Known
          /\ call[c].uuid = player[call[c].steam].uuid
    /\ At(c, "addvars") => call[c].uuid \in Uuid
    /\ At(c, "addvars") \/ At(c, "setvars") => call[c].value \in Value
    /\ At(c, "linkvars") => call[c].uuid \in DOMAIN variables
CallInv == \A c \in Caller : CallOK(c)

\* The time counted so far is before the last login, or, for a player who has
\* logged out, before now.
Counted(p) == IF p \in out THEN now ELSE player[p].lastlogin
TimeInv ==
    \A p \in Known :
        /\ player[p].firstlogin <= player[p].lastlogin
        /\ player[p].lastlogin <= now
        /\ p \notin twice => player[p].playtime <= Counted(p) - player[p].firstlogin

\* Without a race one call at a time makes variables, for a world with none.
VarsInv ==
    ~overlap =>
        /\ \A c, d \in Caller : Making(c) /\ Making(d) => c = d
        /\ \A c \in Caller : Making(c) => linked = {}
        /\ \A u, v \in linked : u = v

IInv == TypeOK /\ CallInv /\ OneIdentity /\ TimeInv /\ VarsInv

CallType == [at : {"idle", "insert", "login", "whitelist",
                   "addvars", "linkvars", "setvars"},
             steam : Steam, uuid : Uuid \cup {NoUuid},
             value : Value \cup {NoValue}]

------------------------------------------------------------------------------
LEMMA IdleType == Idle \in CallType /\ Idle.at = "idle"
  BY DEF Idle, CallType, NoUuid, NoValue

LEMMA InitIInv == Init => IInv
  <1> SUFFICES ASSUME Init PROVE IInv
    OBVIOUS
  <1> USE DEF Init
  <1>1. TypeOK
    <2>1. call \in [Caller -> CallType]
      BY IdleType
    <2>2. 0 \in Time /\ 0 \in 0..MaxUuid /\ 0 \in 0..MaxFailures
      BY DEF Time
    <2>3. Known = {} /\ DOMAIN variables = {}
      BY DEF Known
    <2> QED
      BY <2>1, <2>2, <2>3 DEF TypeOK, CallType
  <1>2. \A c \in Caller : call[c].at = "idle"
    BY IdleType
  <1>3. CallInv
    BY <1>2 DEF CallInv, CallOK, At
  <1>4. OneIdentity /\ TimeInv
    BY DEF OneIdentity, TimeInv, Known
  <1>5. VarsInv
    BY <1>2 DEF VarsInv, Making, At
  <1> QED
    BY <1>1, <1>3, <1>4, <1>5 DEF IInv

\* One call takes a step and the others stay where they are.
LEMMA SetsOne ==
    ASSUME TypeOK, NEW c \in Caller, NEW r \in CallType, Sets(c, r)
    PROVE  /\ call' \in [Caller -> CallType]
           /\ call'[c] = r
           /\ \A d \in Caller \ {c} : call'[d] = call[d]
  BY DEF TypeOK, Sets, CallType

LEMMA GoesOne ==
    ASSUME TypeOK, NEW c \in Caller,
           NEW place \in {"whitelist", "linkvars"}, Goes(c, place)
    PROVE  /\ call' \in [Caller -> CallType]
           /\ call'[c] = [call[c] EXCEPT !.at = place]
           /\ \A d \in Caller \ {c} : call'[d] = call[d]
  <1>1. [call[c] EXCEPT !.at = place] \in CallType
    BY DEF TypeOK, CallType
  <1> QED
    BY <1>1, SetsOne DEF Goes

\* Steps of the variables leave the players alone, and the other way round.
LEMMA PeopleKept ==
    ASSUME IInv, UNCHANGED << people, now >>
    PROVE  OneIdentity' /\ TimeInv'
  BY DEF IInv, people, OneIdentity, TimeInv, Counted, Known

LEMMA WorldKept ==
    ASSUME IInv, UNCHANGED world, \A c \in Caller : Making(c)' => Making(c)
    PROVE  VarsInv'
  BY DEF IInv, world, VarsInv

\* Throw, Tick and the SELECT of the whitelist write no table.
LEMMA StepThrow ==
    ASSUME IInv, NEW c \in Caller, Throw(c) PROVE IInv'
  <1>1. /\ call' \in [Caller -> CallType] /\ call'[c] = Idle
        /\ \A d \in Caller \ {c} : call'[d] = call[d]
    BY IdleType, SetsOne DEF IInv, Throw, Ends
  <1>2. TypeOK'
    BY <1>1 DEF IInv, TypeOK, CallType, Throw, world, people, Known
  <1>3. CallInv'
    BY <1>1, IdleType DEF IInv, CallInv, CallOK, At, Throw, world, people, Known
  <1>4. \A d \in Caller : Making(d)' => Making(d)
    BY <1>1, IdleType DEF Making, At
  <1> QED
    BY <1>2, <1>3, <1>4, PeopleKept, WorldKept DEF IInv, Throw

LEMMA StepTick == ASSUME IInv, Tick PROVE IInv'
  <1> USE DEF Tick, world, people, Known
  <1>1. now \in Nat /\ now' = now + 1 /\ now' \in Time
    BY DEF IInv, TypeOK, Time
  <1>2. TypeOK'
    BY <1>1 DEF IInv, TypeOK
  <1>3. CallInv' /\ OneIdentity' /\ VarsInv'
    BY DEF IInv, CallInv, CallOK, At, OneIdentity, VarsInv, Making
  <1>4. TimeInv'
    BY <1>1 DEF IInv, TimeInv, Counted, TypeOK, Time
  <1> QED
    BY <1>2, <1>3, <1>4 DEF IInv

------------------------------------------------------------------------------
(* loadPlayer and logoutPlayer.                                             *)

LEMMA StepLoadPlayer ==
    ASSUME IInv, NEW c \in Caller, NEW p \in Steam, LoadPlayer(c, p)
    PROVE  IInv'
  <1> USE DEF LoadPlayer, world, people, Known
  <1>1. CASE call' = call /\ last' = last
    BY <1>1 DEF IInv, TypeOK, CallInv, CallOK, At, OneIdentity, TimeInv, Counted,
                VarsInv, Making
  <1>2. ASSUME NEW r \in CallType, Sets(c, r), last' \in 0..MaxUuid,
               \/ r.at = "login" /\ r.steam \in Known /\ r.uuid = player[r.steam].uuid
               \/ r.at = "insert" /\ r.uuid \in Uuid
        PROVE  IInv'
    <2>1. /\ call' \in [Caller -> CallType] /\ call'[c] = r
          /\ \A d \in Caller \ {c} : call'[d] = call[d]
      BY <1>2, SetsOne DEF IInv
    <2>2. TypeOK'
      BY <1>2, <2>1 DEF IInv, TypeOK, CallType
    <2>3. CallInv'
      BY <1>2, <2>1 DEF IInv, CallInv, CallOK, At
    <2>4. \A d \in Caller : Making(d)' => Making(d)
      BY <1>2, <2>1 DEF Making, At
    <2> QED
      BY <2>2, <2>3, <2>4, PeopleKept, WorldKept DEF IInv
  <1>3. CASE /\ p \in Known /\ last' = last
             /\ Sets(c, [Idle EXCEPT !.at = "login", !.steam = p,
                                     !.uuid = player[p].uuid])
    <2> DEFINE r == [Idle EXCEPT !.at = "login", !.steam = p, !.uuid = player[p].uuid]
    <2>1. player[p].uuid \in Uuid /\ last \in 0..MaxUuid
      BY <1>3 DEF IInv, TypeOK
    <2>2. r \in CallType /\ r.at = "login" /\ r.steam = p /\ r.uuid = player[p].uuid
      BY <2>1, IdleType DEF CallType
    <2> QED
      BY <1>2, <1>3, <2>1, <2>2
  <1>4. CASE /\ NewUuid
             /\ Sets(c, [Idle EXCEPT !.at = "insert", !.steam = p, !.uuid = last + 1])
    <2> DEFINE r == [Idle EXCEPT !.at = "insert", !.steam = p, !.uuid = last + 1]
    <2>1. last + 1 \in Uuid /\ last' \in 0..MaxUuid
      BY <1>4 DEF IInv, TypeOK, NewUuid, Uuid
    <2>2. r \in CallType /\ r.at = "insert" /\ r.uuid \in Uuid
      BY <2>1, IdleType DEF CallType
    <2> QED
      BY <1>2, <1>4, <2>1, <2>2
  <1> QED
    BY <1>1, <1>3, <1>4

\* A login that is done asks the whitelist or answers.
LEMMA EntersOne ==
    ASSUME IInv, NEW c \in Caller, Enters(c),
           call[c].steam \in Steam, call[c].uuid \in Uuid
    PROVE  /\ call' \in [Caller -> CallType]
           /\ call'[c].at \in {"idle", "whitelist"}
           /\ call'[c].at = "whitelist" =>
                 call'[c].steam = call[c].steam /\ call'[c].uuid = call[c].uuid
           /\ \A d \in Caller \ {c} : call'[d] = call[d]
           /\ \A t \in told' : t \in told \/ t = << call[c].steam, call[c].uuid >>
           /\ told' \subseteq Steam \X Uuid
           /\ \A d \in Caller : Making(d)' => Making(d)
  <1>0. call[c] \in CallType /\ told \subseteq Steam \X Uuid
    BY DEF IInv, TypeOK, CallType
  <1>1. CASE Goes(c, "whitelist") /\ UNCHANGED told
    <2>1. /\ call' \in [Caller -> CallType]
          /\ call'[c] = [call[c] EXCEPT !.at = "whitelist"]
          /\ \A d \in Caller \ {c} : call'[d] = call[d]
      BY <1>1, GoesOne DEF IInv
    <2>2. /\ call'[c].at = "whitelist" /\ call'[c].steam = call[c].steam
          /\ call'[c].uuid = call[c].uuid
      BY <1>0, <2>1 DEF CallType
    <2> QED
      BY <1>0, <1>1, <2>1, <2>2 DEF Making, At
  <1>2. CASE Ends(c) /\ told' = told \cup {<< call[c].steam, call[c].uuid >>}
    <2>1. /\ call' \in [Caller -> CallType] /\ call'[c] = Idle
          /\ \A d \in Caller \ {c} : call'[d] = call[d]
      BY <1>2, IdleType, SetsOne DEF IInv, Ends
    <2> QED
      BY <1>0, <1>2, <2>1, IdleType DEF Making, At
  <1> QED
    BY <1>1, <1>2 DEF Enters

LEMMA StepInsertPlayer ==
    ASSUME IInv, NEW c \in Caller, InsertPlayer(c) PROVE IInv'
  <1> DEFINE p == call[c].steam
             e == [uuid |-> call[c].uuid, firstlogin |-> now, lastlogin |-> now,
                   playtime |-> 0]
  <1>0. /\ p \in Steam /\ call[c].uuid \in Uuid /\ now \in Time
        /\ UNCHANGED << world, out, twice, counters >>
    BY DEF IInv, TypeOK, CallInv, CallOK, At, InsertPlayer
  <1>1. CASE p \in Known /\ Ends(c) /\ UNCHANGED << player, told >>
    <2>1. /\ call' \in [Caller -> CallType] /\ call'[c] = Idle
          /\ \A d \in Caller \ {c} : call'[d] = call[d]
      BY <1>1, IdleType, SetsOne DEF IInv, Ends
    <2>2. TypeOK'
      BY <1>0, <1>1, <2>1 DEF IInv, TypeOK, CallType, world, counters, Known
    <2>3. CallInv'
      BY <1>0, <1>1, <2>1, IdleType DEF IInv, CallInv, CallOK, At, world, Known
    <2>4. \A d \in Caller : Making(d)' => Making(d)
      BY <2>1, IdleType DEF Making, At
    <2> QED
      BY <1>0, <1>1, <2>2, <2>3, <2>4, PeopleKept, WorldKept
      DEF IInv, people, counters
  <1>2. CASE /\ p \notin Known /\ Enters(c)
             /\ player' = [q \in Known \cup {p} |-> IF q # p THEN player[q] ELSE e]
    <2>1. /\ call' \in [Caller -> CallType]
          /\ call'[c].at \in {"idle", "whitelist"}
          /\ call'[c].at = "whitelist" =>
                call'[c].steam = p /\ call'[c].uuid = call[c].uuid
          /\ \A d \in Caller \ {c} : call'[d] = call[d]
          /\ \A t \in told' : t \in told \/ t = << p, call[c].uuid >>
          /\ told' \subseteq Steam \X Uuid
          /\ \A d \in Caller : Making(d)' => Making(d)
      BY <1>0, <1>2, EntersOne
    <2>2. /\ Known' = Known \cup {p} /\ player'[p] = e
          /\ \A q \in Known : q # p /\ player'[q] = player[q]
      BY <1>2 DEF Known
    <2>3. TypeOK'
      <3>1. e \in [uuid : Uuid, firstlogin : Time, lastlogin : Time, playtime : Nat]
        BY <1>0
      <3>2. \A q \in Known' : player'[q] \in [uuid : Uuid, firstlogin : Time,
                                              lastlogin : Time, playtime : Nat]
        BY <2>2, <3>1 DEF IInv, TypeOK
      <3>3. Known' \subseteq Steam
        BY <1>0, <2>2 DEF IInv, TypeOK
      <3> QED
        BY <1>0, <2>1, <3>2, <3>3 DEF IInv, TypeOK, CallType, world, counters
    <2>4. CallInv'
      BY <1>0, <2>1, <2>2 DEF IInv, CallInv, CallOK, At, world
    <2>5. OneIdentity'
      <3> SUFFICES ASSUME NEW t \in told'
                   PROVE  t[1] \in Known' /\ player'[t[1]].uuid = t[2]
        BY DEF OneIdentity
      <3>1. CASE t \in told
        BY <2>2, <3>1 DEF IInv, OneIdentity
      <3>2. CASE t = << p, call[c].uuid >>
        BY <2>2, <3>2
      <3> QED
        BY <2>1, <3>1, <3>2
    <2>6. TimeInv'
      <3> SUFFICES ASSUME NEW q \in Known'
                   PROVE  /\ player'[q].firstlogin <= player'[q].lastlogin
                          /\ player'[q].lastlogin <= now'
                          /\ q \notin twice' =>
                               player'[q].playtime <= Counted(q)' - player'[q].firstlogin
        BY DEF TimeInv
      <3>1. CASE q \in Known
        BY <1>0, <2>2, <3>1 DEF IInv, TimeInv, Counted, counters
      <3>2. CASE q = p
        BY <1>0, <2>2, <3>2 DEF Counted, counters, Time
      <3> QED
        BY <2>2, <3>1, <3>2
    <2> QED
      BY <1>0, <2>1, <2>3, <2>4, <2>5, <2>6, WorldKept DEF IInv
  <1> QED
    BY <1>1, <1>2 DEF InsertPlayer

LEMMA StepLogin ==
    ASSUME IInv, NEW c \in Caller, Login(c) PROVE IInv'
  <1> DEFINE p == call[c].steam
  <1>0. /\ p \in Known /\ p \in Steam /\ now \in Time /\ call[c].uuid = player[p].uuid
        /\ player[p] \in [uuid : Uuid, firstlogin : Time, lastlogin : Time, playtime : Nat]
        /\ call[c].uuid \in Uuid
        /\ UNCHANGED << world, twice, counters >> /\ out' = out \ {p}
        /\ player' = [player EXCEPT ![p].lastlogin = now]
        /\ Enters(c)
    BY DEF IInv, TypeOK, CallInv, CallOK, At, Login
  <1>1. /\ call' \in [Caller -> CallType]
        /\ call'[c].at \in {"idle", "whitelist"}
        /\ call'[c].at = "whitelist" =>
              call'[c].steam = p /\ call'[c].uuid = call[c].uuid
        /\ \A d \in Caller \ {c} : call'[d] = call[d]
        /\ \A t \in told' : t \in told \/ t = << p, call[c].uuid >>
        /\ told' \subseteq Steam \X Uuid
        /\ \A d \in Caller : Making(d)' => Making(d)
    BY <1>0, EntersOne
  <1>2. /\ Known' = Known
        /\ \A q \in Known \ {p} : player'[q] = player[q]
        /\ player'[p] \in [uuid : Uuid, firstlogin : Time, lastlogin : Time,
                           playtime : Nat]
        /\ player'[p].uuid = player[p].uuid /\ player'[p].lastlogin = now
        /\ player'[p].firstlogin = player[p].firstlogin
        /\ player'[p].playtime = player[p].playtime
    BY <1>0 DEF Known
  <1>3. TypeOK'
    <2>1. \A q \in Known' : player'[q] \in [uuid : Uuid, firstlogin : Time,
                                            lastlogin : Time, playtime : Nat]
      BY <1>2 DEF IInv, TypeOK
    <2> QED
      BY <1>0, <1>1, <1>2, <2>1 DEF IInv, TypeOK, CallType, world, counters
  <1>4. CallInv'
    BY <1>0, <1>1, <1>2 DEF IInv, CallInv, CallOK, At, world
  <1>5. OneIdentity'
    <2> SUFFICES ASSUME NEW t \in told'
                 PROVE  t[1] \in Known' /\ player'[t[1]].uuid = t[2]
      BY DEF OneIdentity
    <2>1. CASE t \in told
      BY <1>2, <2>1 DEF IInv, OneIdentity
    <2>2. CASE t = << p, call[c].uuid >>
      BY <1>0, <1>2, <2>2
    <2> QED
      BY <1>1, <2>1, <2>2
  <1>6. TimeInv'
    <2> SUFFICES ASSUME NEW q \in Known'
                 PROVE  /\ player'[q].firstlogin <= player'[q].lastlogin
                        /\ player'[q].lastlogin <= now'
                        /\ q \notin twice' =>
                             player'[q].playtime <= Counted(q)' - player'[q].firstlogin
      BY DEF TimeInv
    <2>1. CASE q # p
      BY <1>0, <1>2, <2>1 DEF IInv, TimeInv, Counted, counters
    <2>2. CASE q = p
      <3>1. /\ player[p].firstlogin <= player[p].lastlogin
            /\ player[p].lastlogin <= now
            /\ p \notin twice => player[p].playtime <= Counted(p) - player[p].firstlogin
        BY <1>0 DEF IInv, TimeInv
      <3>2. Counted(q)' = now
        BY <1>0, <1>2, <2>2 DEF Counted, counters
      <3>3. /\ now \in Int /\ player[p].lastlogin \in Int
            /\ player[p].firstlogin \in Int /\ player[p].playtime \in Int
        BY <1>0 DEF Time
      <3>4. Counted(p) <= now /\ Counted(p) \in Int
        BY <3>1, <3>3 DEF Counted
      <3>5. p \notin twice => player[p].playtime <= now - player[p].firstlogin
        BY <3>1, <3>3, <3>4
      <3> QED
        BY <1>0, <1>2, <2>2, <3>1, <3>2, <3>3, <3>5 DEF counters
    <2> QED
      BY <2>1, <2>2
  <1> QED
    BY <1>0, <1>1, <1>3, <1>4, <1>5, <1>6, WorldKept DEF IInv

LEMMA StepWhitelist ==
    ASSUME IInv, NEW c \in Caller, Whitelist(c) PROVE IInv'
  <1>0. /\ call[c].steam \in Known /\ call[c].uuid = player[call[c].steam].uuid
        /\ UNCHANGED << world, player, out, twice, counters >>
        /\ \A t \in told' : t \in told \/ t = << call[c].steam, call[c].uuid >>
    BY DEF IInv, CallInv, CallOK, At, Whitelist
  <1>1. /\ call' \in [Caller -> CallType] /\ call'[c] = Idle
        /\ \A d \in Caller \ {c} : call'[d] = call[d]
    BY IdleType, SetsOne DEF IInv, Whitelist, Ends
  <1>2. TypeOK'
    <2>1. call[c].steam \in Steam /\ call[c].uuid \in Uuid
      BY <1>0 DEF IInv, TypeOK
    <2>2. told' \subseteq Steam \X Uuid
      BY <1>0, <2>1 DEF IInv, TypeOK
    <2> QED
      BY <1>0, <1>1, <2>2 DEF IInv, TypeOK, CallType, world, counters, Known
  <1>3. CallInv'
    BY <1>0, <1>1, IdleType DEF IInv, CallInv, CallOK, At, world, Known
  <1>4. OneIdentity'
    BY <1>0 DEF IInv, OneIdentity, Known
  <1>5. TimeInv'
    BY <1>0 DEF IInv, TimeInv, Counted, Known, counters
  <1>6. \A d \in Caller : Making(d)' => Making(d)
    BY <1>1, IdleType DEF Making, At
  <1> QED
    BY <1>0, <1>2, <1>3, <1>4, <1>5, <1>6, WorldKept DEF IInv

LEMMA StepLogoutPlayer ==
    ASSUME IInv, NEW c \in Caller, NEW p \in Steam, LogoutPlayer(c, p)
    PROVE  IInv'
  <1> DEFINE n == player[p].playtime + (now - player[p].lastlogin)
  <1>0. /\ p \in Known /\ now \in Time
        /\ player[p] \in [uuid : Uuid, firstlogin : Time, lastlogin : Time, playtime : Nat]
        /\ UNCHANGED << world, told, call, counters >> /\ out' = out \cup {p}
        /\ twice' = IF p \in out THEN twice \cup {p} ELSE twice
        /\ player' = [player EXCEPT ![p].playtime = n]
    BY DEF IInv, TypeOK, LogoutPlayer
  <1>1. /\ player[p].firstlogin <= player[p].lastlogin
        /\ player[p].lastlogin <= now
        /\ p \notin twice => player[p].playtime <= Counted(p) - player[p].firstlogin
    BY <1>0 DEF IInv, TimeInv
  <1>2. /\ Known' = Known
        /\ \A q \in Known \ {p} : player'[q] = player[q]
        /\ player'[p].uuid = player[p].uuid
        /\ player'[p].lastlogin = player[p].lastlogin
        /\ player'[p].firstlogin = player[p].firstlogin
        /\ player'[p].playtime = n
        /\ player'[p] = [player[p] EXCEPT !.playtime = n]
    BY <1>0 DEF Known
  <1>3. n \in Nat
    BY <1>0, <1>1 DEF Time
  <1>4. TypeOK'
    <2>1. player'[p] \in [uuid : Uuid, firstlogin : Time, lastlogin : Time,
                          playtime : Nat]
      BY <1>0, <1>2, <1>3
    <2>2. \A q \in Known' : player'[q] \in [uuid : Uuid, firstlogin : Time,
                                            lastlogin : Time, playtime : Nat]
      BY <1>2, <2>1 DEF IInv, TypeOK
    <2> QED
      BY <1>0, <1>2, <2>2 DEF IInv, TypeOK, world, counters
  <1>5. CallInv' /\ VarsInv'
    BY <1>0, <1>2 DEF IInv, CallInv, CallOK, At, VarsInv, Making, world
  <1>6. OneIdentity'
    BY <1>0, <1>2 DEF IInv, OneIdentity
  <1>7. TimeInv'
    <2> SUFFICES ASSUME NEW q \in Known'
                 PROVE  /\ player'[q].firstlogin <= player'[q].lastlogin
                        /\ player'[q].lastlogin <= now'
                        /\ q \notin twice' =>
                             player'[q].playtime <= Counted(q)' - player'[q].firstlogin
      BY DEF TimeInv
    <2>1. CASE q # p
      BY <1>0, <1>2, <2>1 DEF IInv, TimeInv, Counted, counters
    <2>2. CASE q = p
      BY <1>0, <1>1, <1>2, <2>2 DEF Counted, Time, counters
    <2> QED
      BY <2>1, <2>2
  <1> QED
    BY <1>4, <1>5, <1>6, <1>7 DEF IInv

------------------------------------------------------------------------------
(* The variables of the world.                                              *)

LEMMA StepFindVars ==
    ASSUME IInv, NEW c \in Caller, NEW v \in Value, FindVars(c, v)
    PROVE  IInv'
  <1> USE DEF FindVars
  <1>1. CASE linked = {}
    <2> DEFINE r == [Idle EXCEPT !.at = "addvars", !.uuid = last + 1, !.value = v]
    <2>1. /\ NewUuid /\ Sets(c, r)
          /\ overlap' = (overlap \/ \E d \in Caller : Making(d))
          /\ UNCHANGED << variables, linked, people, now, failures >>
      BY <1>1
    <2>2. last + 1 \in Uuid /\ last' \in 0..MaxUuid
      BY <2>1 DEF IInv, TypeOK, NewUuid, Uuid
    <2>3. /\ r \in CallType /\ r.at = "addvars" /\ r.uuid \in Uuid /\ r.value = v
      BY <2>2, IdleType DEF CallType
    <2>4. /\ call' \in [Caller -> CallType] /\ call'[c] = r
          /\ \A d \in Caller \ {c} : call'[d] = call[d]
      BY <2>1, <2>3, SetsOne DEF IInv
    <2>5. TypeOK'
      BY <2>1, <2>2, <2>4 DEF IInv, TypeOK, CallType, people, Known
    <2>6. CallInv'
      BY <2>1, <2>3, <2>4 DEF IInv, CallInv, CallOK, At, people, Known
    <2>7. VarsInv'
      <3>1. \A d \in Caller \ {c} : Making(d)' <=> Making(d)
        BY <2>4 DEF Making, At
      <3> QED
        BY <1>1, <2>1, <3>1 DEF IInv, VarsInv
    <2> QED
      BY <2>1, <2>5, <2>6, <2>7, PeopleKept DEF IInv
  <1>2. CASE linked # {}
    <2> DEFINE r == [Idle EXCEPT !.at = "setvars", !.value = v]
    <2>1. Sets(c, r) /\ UNCHANGED << world, people, counters >>
      BY <1>2 DEF world, counters
    <2>2. r \in CallType /\ r.at = "setvars" /\ r.value = v
      BY IdleType DEF CallType
    <2>3. /\ call' \in [Caller -> CallType] /\ call'[c] = r
          /\ \A d \in Caller \ {c} : call'[d] = call[d]
      BY <2>1, <2>2, SetsOne DEF IInv
    <2>4. TypeOK'
      BY <2>1, <2>3 DEF IInv, TypeOK, CallType, world, people, counters, Known
    <2>5. CallInv'
      BY <2>1, <2>2, <2>3 DEF IInv, CallInv, CallOK, At, world, people, Known
    <2>6. \A d \in Caller : Making(d)' => Making(d)
      BY <2>2, <2>3 DEF Making, At
    <2> QED
      BY <2>1, <2>4, <2>5, <2>6, PeopleKept, WorldKept DEF IInv, counters
  <1> QED
    BY <1>1, <1>2

LEMMA StepAddVars ==
    ASSUME IInv, NEW c \in Caller, AddVars(c) PROVE IInv'
  <1> DEFINE u == call[c].uuid
  <1>0. /\ At(c, "addvars") /\ u \in Uuid /\ call[c].value \in Value
        /\ Goes(c, "linkvars") /\ call[c] \in CallType
        /\ UNCHANGED << linked, overlap, people, counters >>
        /\ variables' = [x \in DOMAIN variables \cup {u} |->
                            IF x = u THEN call[c].value ELSE variables[x]]
    BY DEF IInv, TypeOK, CallType, CallInv, CallOK, AddVars, At
  <1>1. /\ call' \in [Caller -> CallType]
        /\ call'[c] = [call[c] EXCEPT !.at = "linkvars"]
        /\ \A d \in Caller \ {c} : call'[d] = call[d]
    BY <1>0, GoesOne DEF IInv
  <1>2. call'[c].at = "linkvars" /\ call'[c].uuid = u
    BY <1>0, <1>1 DEF CallType
  <1>3. /\ DOMAIN variables' = DOMAIN variables \cup {u}
        /\ \A x \in DOMAIN variables' : variables'[x] \in Value
    BY <1>0 DEF IInv, TypeOK
  <1>4. TypeOK'
    BY <1>0, <1>1, <1>3 DEF IInv, TypeOK, CallType, people, counters, Known
  <1>5. CallInv'
    BY <1>0, <1>1, <1>2, <1>3 DEF IInv, CallInv, CallOK, At, people, Known
  <1>6. VarsInv'
    <2>1. \A d \in Caller : Making(d)' => Making(d)
      BY <1>0, <1>1 DEF Making, At
    <2> QED
      BY <1>0, <2>1 DEF IInv, VarsInv
  <1> QED
    BY <1>0, <1>4, <1>5, <1>6, PeopleKept DEF IInv, counters

LEMMA StepLinkVars ==
    ASSUME IInv, NEW c \in Caller, LinkVars(c) PROVE IInv'
  <1> USE DEF LinkVars
  <1>1. /\ call' \in [Caller -> CallType] /\ call'[c] = Idle
        /\ \A d \in Caller \ {c} : call'[d] = call[d]
    BY IdleType, SetsOne DEF IInv, Ends
  <1>2. TypeOK'
    BY <1>1 DEF IInv, TypeOK, CallType, CallInv, CallOK, people, counters, Known
  <1>3. CallInv'
    BY <1>1, IdleType DEF IInv, CallInv, CallOK, At, people, Known
  <1>4. VarsInv'
    <2>1. Making(c) /\ ~Making(c)'
      BY <1>1, IdleType DEF Making, At
    <2>2. \A d \in Caller \ {c} : Making(d)' <=> Making(d)
      BY <1>1 DEF Making, At
    <2> QED
      BY <2>1, <2>2 DEF IInv, VarsInv
  <1> QED
    BY <1>2, <1>3, <1>4, PeopleKept DEF IInv, counters

LEMMA StepSetVars ==
    ASSUME IInv, NEW c \in Caller, SetVars(c) PROVE IInv'
  <1> USE DEF SetVars
  <1>1. /\ call' \in [Caller -> CallType] /\ call'[c] = Idle
        /\ \A d \in Caller \ {c} : call'[d] = call[d]
    BY IdleType, SetsOne DEF IInv, Ends
  <1>2. call[c].value \in Value
    BY DEF IInv, CallInv, CallOK
  <1>3. /\ DOMAIN variables' = DOMAIN variables
        /\ \A u \in DOMAIN variables' : variables'[u] \in Value
    BY <1>2 DEF IInv, TypeOK
  <1>4. TypeOK'
    BY <1>1, <1>3 DEF IInv, TypeOK, CallType, people, counters, Known
  <1>5. CallInv'
    BY <1>1, <1>3, IdleType DEF IInv, CallInv, CallOK, At, people, Known
  <1>6. VarsInv'
    <2>1. \A d \in Caller : Making(d)' => Making(d)
      BY <1>1, IdleType DEF Making, At
    <2> QED
      BY <2>1 DEF IInv, VarsInv
  <1> QED
    BY <1>4, <1>5, <1>6, PeopleKept DEF IInv, counters

------------------------------------------------------------------------------
\* The invariant is inductive: every step of a call, and of the clock, keeps it.
LEMMA NextIInv == IInv /\ [Next]_vars => IInv'
  <1> SUFFICES ASSUME IInv, [Next]_vars PROVE IInv'
    OBVIOUS
  <1>1. CASE Tick
    BY <1>1, StepTick
  <1>2. ASSUME NEW c \in Caller, Step(c) PROVE IInv'
    <2>1. ASSUME NEW p \in Steam, LoadPlayer(c, p) \/ LogoutPlayer(c, p) PROVE IInv'
      BY <2>1, StepLoadPlayer, StepLogoutPlayer
    <2>2. ASSUME NEW v \in Value, FindVars(c, v) PROVE IInv'
      BY <2>2, StepFindVars
    <2> QED
      BY <1>2, <2>1, <2>2, StepThrow, StepInsertPlayer, StepLogin, StepWhitelist,
         StepAddVars, StepLinkVars, StepSetVars DEF Step
  <1>3. CASE UNCHANGED vars
    BY <1>3 DEF IInv, TypeOK, CallInv, CallOK, At, OneIdentity, TimeInv, Counted,
                VarsInv, Making, Known, vars, world, people, counters
  <1> QED
    BY <1>1, <1>2, <1>3 DEF Next

LEMMA Inductive == Spec => []IInv
  BY InitIInv, NextIInv, PTL DEF Spec

\* The tables and the calls stay well formed, for any numbers of callers,
\* players and uuids: no statement is reached with an argument not given.
THEOREM TypeCorrect == Spec => []TypeOK
  BY Inductive, PTL DEF IInv

\* All logins of a player are answered the uuid he has in the table, however
\* many run at once (mysql.cpp:1141-1150): the row is never written anew, and a
\* refused INSERT ends its call.
THEOREM AnswersAgree == Spec => []OneIdentity
  BY Inductive, PTL DEF IInv

\* A player's playtime never exceeds the time since his first login, unless
\* two logouts followed one login (mysql.cpp:1189), in any order of logins and
\* logouts of any number of servers.
THEOREM TimeCountedOnce == Spec => []NoTimeTwice
  <1>1. IInv => NoTimeTwice
    <2> SUFFICES ASSUME IInv, NEW p \in Known \ twice
                 PROVE  player[p].playtime <= now - player[p].firstlogin
      BY DEF NoTimeTwice
    <2>1. player[p] \in [uuid : Uuid, firstlogin : Time, lastlogin : Time,
                         playtime : Nat] /\ now \in Time
      BY DEF IInv, TypeOK
    <2>2. /\ player[p].firstlogin \in Int /\ player[p].lastlogin \in Int
          /\ player[p].playtime \in Int /\ now \in Int
      BY <2>1 DEF Time
    <2>3. /\ player[p].lastlogin <= now
          /\ player[p].playtime <= Counted(p) - player[p].firstlogin
      BY DEF IInv, TimeInv
    <2> QED
      BY <2>2, <2>3 DEF Counted
  <1> QED
    BY Inductive, <1>1, PTL

\* A world gets a second set of variables only if two calls looked for the
\* first before either had linked one (mysql.cpp:857-893).
THEOREM VariablesOnce == Spec => []VarsOnce
  <1>1. IInv => VarsOnce
    <2> SUFFICES ASSUME IInv, ~overlap PROVE ~(Cardinality(linked) > 1)
      BY DEF VarsOnce, IInv, TypeOK
    <2>1. CASE linked = {}
      BY <2>1, FS_EmptySet
    <2>2. ASSUME NEW u \in linked PROVE Cardinality(linked) = 1
      <3>1. linked = {u}
        BY DEF IInv, VarsInv
      <3> QED
        BY <3>1, FS_Singleton
    <2> QED
      BY <2>1, <2>2
  <1> QED
    BY Inductive, <1>1, PTL
==============================================================================
