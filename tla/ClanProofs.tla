------------------------------ MODULE ClanProofs ------------------------------
(***************************************************************************)
(* The inductive invariant of Clan, and its safety properties for any      *)
(* number of workers, players, clans and names, and any set of calls.      *)
(***************************************************************************)
EXTENDS Clan, TLAPS

USE NullAssumption, JobAssumption, ArgumentAssumption

Joined == member \cup removed
Naming(w) == At(w, "insert") \/ At(w, "rename")

\* What a call knows at each of its statements.
CallOK(w) ==
    LET a == call[w].at
        j == call[w].job
    IN /\ a # "idle" => j \in Job
       /\ a \in {"owner", "insert"} => j.op = "createClan"
       /\ a = "unique" => /\ j.op \in {"createClan", "updateClan"}
                          /\ j.name # NoName
       /\ a \in {"exists", "ismember"} => j.op # "createClan" /\ j.clan # NoClan
       /\ a \in {"readmain", "insertmember"} =>
             j.op \in {"createClan", "addClanPlayer", "deleteClanPlayer"}
       /\ a = "readmain" => j.op # "createClan"
       /\ a = "insertmember" => j.op # "deleteClanPlayer"
       /\ a = "delete" => j.op = "deleteClanPlayer"
       /\ a \in {"founder", "rename"} => j.op = "updateClan"
       /\ a = "rename" => j.name # NoName
       /\ a \in {"ismember", "founder"} => j.player # NoPlayer
       /\ a = "setmain" => /\ j.op \in {"addClanPlayer", "updatePlayerMainClan"}
                           /\ j.clan # NoClan
       /\ a \notin {"idle", "exists"} /\ j.op = "updateClan" =>
             j.clan \in DOMAIN clan
       /\ a \in {"founder", "setmain"} => << j.clan, j.player >> \in Joined

CallInv == \A w \in Worker : CallOK(w)

\* While no other worker wrote a name, the name checked is still free.
NameInv == \A w \in Worker : Naming(w) /\ ~late[w] => ~Taken(Arg(w).name)

\* A worker creating a clan is about to make its owner a member.
OwnerInv ==
    \A c \in DOMAIN clan :
        \/ << c, clan[c].founder >> \in Joined
        \/ c \in torn
        \/ \E w \in Worker : /\ At(w, "insertmember")
                             /\ Arg(w).op = "createClan"
                             /\ Arg(w).clan = c
                             /\ Arg(w).player = clan[c].founder

IInv == /\ TypeOK /\ CallInv /\ NameInv /\ OwnerInv
        /\ MainClanBacked /\ NamesUniqueUnlessRaced

------------------------------------------------------------------------------
\* The arguments of a call.
LEMMA JobType ==
    ASSUME NEW j \in Job
    PROVE  /\ j.op \in {"createClan", "updateClan", "addClanPlayer",
                        "deleteClanPlayer", "updatePlayerMainClan"}
           /\ j.clan # NoClan => j.clan \in Clan
           /\ j.player # NoPlayer => j.player \in Player
           /\ j.name # NoName => j.name \in Name
           /\ j.op # "updateClan" => j.player \in Player
           /\ j.op # "updatePlayerMainClan" => j.clan \in Clan
           /\ j.op = "createClan" => j.name \in Name
  OBVIOUS

\* Each statement changes the call of its own worker only.
LEMMA StepFrame ==
    ASSUME TypeOK, NEW w \in Worker, Statement(w) \/ \E j \in Job : Start(w, j)
    PROVE  /\ \A v \in Worker \ {w} : call'[v] = call[v]
           /\ DOMAIN call' = Worker
  BY DEF TypeOK, Statement, Start, Owner, Unique, ClanExists, IsMember, ReadMain,
         InsertClan, InsertMember, Founder, Rename, Delete, SetMain, Unset, Throw,
         Goes, Ends, NameNext

\* Clans stay, and memberships stay or become removed ones.
LEMMA Monotone ==
    ASSUME TypeOK, NEW w \in Worker, Statement(w) \/ \E j \in Job : Start(w, j)
    PROVE  DOMAIN clan \subseteq DOMAIN clan' /\ Joined \subseteq Joined'
  <1> USE DEF Joined, tables, history
  <1>1. CASE InsertClan(w)
    BY <1>1 DEF InsertClan
  <1>2. CASE Founder(w) \/ Rename(w)
    BY <1>2 DEF Founder, Rename
  <1>3. CASE InsertMember(w)
    BY <1>3 DEF InsertMember
  <1>4. CASE Delete(w)
    BY <1>4 DEF Delete
  <1>5. CASE SetMain(w) \/ Unset(w)
    BY <1>5 DEF SetMain, Unset
  <1>6. CASE Owner(w) \/ Unique(w) \/ ClanExists(w) \/ IsMember(w) \/ ReadMain(w)
    BY <1>6 DEF Owner, Unique, ClanExists, IsMember, ReadMain
  <1>7. CASE Throw(w) \/ \E j \in Job : Start(w, j)
    BY <1>7 DEF Throw, Start
  <1> QED
    BY <1>1, <1>2, <1>3, <1>4, <1>5, <1>6, <1>7 DEF Statement

\* A database without clans satisfies the invariant.
LEMMA InitIInv == Init => IInv
  <1> SUFFICES ASSUME Init PROVE IInv
    OBVIOUS
  <1> USE DEF Init, Idle
  <1>1. TypeOK
    BY DEF TypeOK, Place
  <1>2. CallInv /\ NameInv
    BY DEF CallInv, CallOK, NameInv, Naming, At
  <1>3. OwnerInv /\ MainClanBacked /\ NamesUniqueUnlessRaced
    BY DEF OwnerInv, MainClanBacked, NamesUniqueUnlessRaced
  <1> QED
    BY <1>1, <1>2, <1>3 DEF IInv

------------------------------------------------------------------------------
(* The call of the worker that takes the step.                              *)

\* Each statement leaves a well-formed call behind.
LEMMA CallType ==
    ASSUME TypeOK, NEW w \in Worker, CallOK(w),
           Statement(w) \/ \E j \in Job : Start(w, j)
    PROVE  call' \in [Worker -> [at : Place, job : Job \cup {NoJob},
                                 seen : Clan \cup {NoClan}]]
  <1> USE DEF TypeOK, Place, Idle, Goes, Ends, NameNext
  <1>0. ASSUME NEW place \in Place, Goes(w, place)
        PROVE  call' \in [Worker -> [at : Place, job : Job \cup {NoJob},
                                     seen : Clan \cup {NoClan}]]
    BY <1>0
  <1>1. ASSUME NEW j \in Job, Start(w, j)
        PROVE  call' \in [Worker -> [at : Place, job : Job \cup {NoJob},
                                     seen : Clan \cup {NoClan}]]
    BY <1>1 DEF Start
  <1>2. CASE ReadMain(w)
    <2>1. mainclan[Arg(w).player] \in Clan \cup {NoClan}
      BY <1>2 DEF ReadMain, Known
    <2> QED
      BY <1>2, <2>1 DEF ReadMain
  <1>3. CASE IsMember(w)
    <2>1. Arg(w).op \in {"updateClan", "updatePlayerMainClan", "addClanPlayer",
                         "deleteClanPlayer"}
      BY <1>3, JobType DEF IsMember, CallOK, At, Arg
    <2> QED
      BY <1>0, <1>3, <2>1 DEF IsMember
  <1>4. CASE Owner(w) \/ Unique(w) \/ ClanExists(w)
    BY <1>0, <1>4 DEF Owner, Unique, ClanExists
  <1>5. CASE InsertClan(w) \/ InsertMember(w) \/ Founder(w) \/ Rename(w)
    BY <1>0, <1>5 DEF InsertClan, InsertMember, Founder, Rename
  <1>6. CASE Delete(w) \/ SetMain(w) \/ Unset(w) \/ Throw(w)
    BY <1>0, <1>6 DEF Delete, SetMain, Unset, Throw
  <1> QED
    BY <1>1, <1>2, <1>3, <1>4, <1>5, <1>6 DEF Statement

\* A call that goes on keeps its arguments.
LEMMA Moves ==
    ASSUME TypeOK, NEW w \in Worker, NEW place, Goes(w, place)
    PROVE  /\ call'[w].at = place
           /\ place # "idle" => call'[w].job = call[w].job
  BY DEF TypeOK, Goes, Idle

\* At its next statement a call knows what that statement relies on.
LEMMA CallStep ==
    ASSUME TypeOK, NEW w \in Worker, CallOK(w),
           Statement(w) \/ \E j \in Job : Start(w, j)
    PROVE  CallOK(w)'
  <1> DEFINE j == call[w].job
  <1> USE DEF At, Arg, Calls, Ends, NameNext
  <1>0. DOMAIN clan \subseteq DOMAIN clan' /\ Joined \subseteq Joined'
    BY Monotone
  <1>1. ASSUME NEW k \in Job, Start(w, k) PROVE CallOK(w)'
    <2>1. /\ call'[w].job = k
          /\ call'[w].at = CASE k.op = "createClan" -> "owner"
                    [] k.op = "updatePlayerMainClan" /\ k.clan = NoClan -> "unset"
                    [] OTHER -> "exists"
      BY <1>1 DEF Start, TypeOK
    <2>2. k.op = "createClan" => call'[w].at = "owner"
      BY <2>1
    <2>3. k.op # "createClan" /\ k.clan = NoClan => call'[w].at = "unset"
      BY <2>1, JobType
    <2>4. k.op # "createClan" /\ k.clan # NoClan => call'[w].at = "exists"
      BY <2>1
    <2> QED
      BY <2>1, <2>2, <2>3, <2>4 DEF CallOK
  <1>2. CASE Owner(w)
    <2>1. call'[w].at = "unique" /\ call'[w].job = j /\ call[w].at = "owner"
      BY <1>2, Moves DEF Owner
    <2> QED
      BY <2>1, JobType DEF CallOK
  <1>3. CASE Unique(w)
    <2>1. /\ call[w].at = "unique" /\ call'[w].job = j
          /\ call'[w].at = IF j.op = "createClan" THEN "insert" ELSE "rename"
      BY <1>3, Moves DEF Unique
    <2> QED
      BY <1>0, <2>1, JobType DEF CallOK
  <1>4. CASE ClanExists(w)
    <2>1. /\ call[w].at = "exists" /\ j.clan \in DOMAIN clan
          /\ call'[w].at # "idle" => call'[w].job = j
          /\ call'[w].at = IF j.op = "updateClan" /\ j.player = NoPlayer
                           THEN IF j.name # NoName THEN "unique" ELSE "idle"
                           ELSE "ismember"
      BY <1>4, Moves DEF ClanExists, Exists
    <2>2. j \in Job /\ j.op # "createClan" /\ j.clan # NoClan
      BY <2>1 DEF CallOK
    <2>3. CASE call'[w].at = "idle"
      BY <2>3 DEF CallOK
    <2>4. CASE call'[w].at = "unique"
      BY <1>0, <2>1, <2>2, <2>4 DEF CallOK
    <2>5. CASE call'[w].at = "ismember"
      <3>1. j.player # NoPlayer
        BY <2>1, <2>2, <2>5, JobType
      <3> QED
        BY <1>0, <2>1, <2>2, <2>5, <3>1 DEF CallOK
    <2> QED
      BY <2>1, <2>3, <2>4, <2>5
  <1>5. CASE IsMember(w)
    <2>1. /\ call[w].at = "ismember" /\ j \in Job
          /\ j.op \in {"updateClan", "updatePlayerMainClan", "addClanPlayer",
                       "deleteClanPlayer"}
          /\ j.clan # NoClan /\ j.player # NoPlayer
          /\ j.op = "updateClan" => j.clan \in DOMAIN clan
      BY <1>5, JobType DEF IsMember, CallOK
    <2>2. /\ Pair(w) = << j.clan, j.player >>
          /\ j.op \in {"updateClan", "updatePlayerMainClan"} => Pair(w) \in Joined
      BY <1>5 DEF IsMember, Pair, Joined
    <2>3. CASE j.op = "updateClan"
      <3>1. call'[w].at = "founder" /\ call'[w].job = j
        BY <1>5, <2>3, Moves DEF IsMember
      <3> QED
        BY <1>0, <2>1, <2>2, <2>3, <3>1 DEF CallOK
    <2>4. CASE j.op = "updatePlayerMainClan"
      <3>1. call'[w].at = "setmain" /\ call'[w].job = j
        BY <1>5, <2>4, Moves DEF IsMember
      <3> QED
        BY <1>0, <2>1, <2>2, <2>4, <3>1 DEF CallOK
    <2>5. CASE j.op = "addClanPlayer"
      <3>1. \/ call'[w].at = "idle"
            \/ call'[w].at = "readmain" /\ call'[w].job = j
        <4>1. Goes(w, IF Pair(w) \in member THEN "idle" ELSE "readmain")
          BY <1>5, <2>5 DEF IsMember
        <4> QED
          BY <4>1, Moves
      <3> QED
        BY <2>1, <2>5, <3>1 DEF CallOK
    <2>6. CASE j.op = "deleteClanPlayer"
      <3>1. \/ call'[w].at = "idle"
            \/ call'[w].at = "delete" /\ call'[w].job = j
        <4>1. Goes(w, IF Pair(w) \in member THEN "delete" ELSE "idle")
          BY <1>5, <2>6 DEF IsMember
        <4> QED
          BY <4>1, Moves
      <3> QED
        BY <2>1, <2>6, <3>1 DEF CallOK
    <2> QED
      BY <2>1, <2>3, <2>4, <2>5, <2>6
  <1>6. CASE ReadMain(w)
    <2>1. call[w].at = "readmain" /\ j \in Job
          /\ j.op \in {"addClanPlayer", "deleteClanPlayer"}
      BY <1>6 DEF ReadMain, CallOK
    <2>2. CASE j.op = "addClanPlayer"
      <3>1. call'[w].at = "insertmember" /\ call'[w].job = j
        BY <1>6, <2>2 DEF ReadMain, TypeOK
      <3> QED
        BY <2>1, <2>2, <3>1 DEF CallOK
    <2>3. CASE j.op = "deleteClanPlayer"
      <3>1. \/ call'[w].at = "idle"
            \/ call'[w].at = "unset" /\ call'[w].job = j
        <4>1. Goes(w, IF mainclan[j.player] = j.clan /\ j.form = "upper"
                      THEN "unset" ELSE "idle")
          BY <1>6, <2>3 DEF ReadMain
        <4> QED
          BY <4>1, Moves
      <3> QED
        BY <2>1, <2>3, <3>1 DEF CallOK
    <2> QED
      BY <2>1, <2>2, <2>3
  <1>7. CASE InsertClan(w)
    <2>1. call'[w].at = "insertmember" /\ call'[w].job = j /\ call[w].at = "insert"
      BY <1>7, Moves DEF InsertClan
    <2> QED
      BY <2>1 DEF CallOK
  <1>8. CASE InsertMember(w)
    <2>1. /\ call[w].at = "insertmember"
          /\ \/ call'[w].at = "idle"
             \/ /\ call'[w].at = "setmain" /\ call'[w].job = j
                /\ j.op = "addClanPlayer"
      BY <1>8, Moves DEF InsertMember
    <2>2. Pair(w) = << j.clan, j.player >> /\ Pair(w) \in Joined'
      BY <1>8 DEF InsertMember, Pair, Joined
    <2> QED
      BY <2>1, <2>2, JobType DEF CallOK
  <1>9. CASE Founder(w)
    <2>1. /\ call[w].at = "founder"
          /\ \/ call'[w].at = "idle"
             \/ call'[w].at = "unique" /\ call'[w].job = j /\ j.name # NoName
      BY <1>9, Moves DEF Founder
    <2> QED
      BY <1>0, <2>1 DEF CallOK
  <1>10. CASE Delete(w)
    <2>1. call'[w].at = "readmain" /\ call'[w].job = j /\ call[w].at = "delete"
      BY <1>10, Moves DEF Delete
    <2> QED
      BY <2>1 DEF CallOK
  <1>11. CASE Rename(w) \/ SetMain(w) \/ Unset(w) \/ Throw(w)
    <2>1. call'[w].at = "idle"
      BY <1>11, Moves DEF Rename, SetMain, Unset, Throw
    <2> QED
      BY <2>1 DEF CallOK
  <1> QED
    BY <1>1, <1>2, <1>3, <1>4, <1>5, <1>6, <1>7, <1>8, <1>9, <1>10, <1>11
       DEF Statement

------------------------------------------------------------------------------
(* The parts of the invariant, at a step of the worker w.                   *)

\* Every statement keeps the types of the tables.
LEMMA TypeStep ==
    ASSUME TypeOK, CallInv, NEW w \in Worker,
           Statement(w) \/ \E j \in Job : Start(w, j)
    PROVE  TypeOK'
  <1> DEFINE j == call[w].job
  <1> USE DEF At, Arg
  <1>0. /\ CallOK(w)
        /\ call' \in [Worker -> [at : Place, job : Job \cup {NoJob},
                                 seen : Clan \cup {NoClan}]]
    BY CallType DEF CallInv
  <1>1. CASE InsertClan(w)
    <2>1. j \in Job /\ j.op = "createClan"
      BY <1>0, <1>1 DEF InsertClan, CallOK
    <2>2. j.clan \in Clan /\ j.player \in Player /\ j.name \in Name
      BY <2>1, JobType
    <2> QED
      BY <1>0, <1>1, <2>2 DEF InsertClan, Named, TypeOK
  <1>2. CASE Founder(w)
    <2>1. j.player \in Player
      BY <1>2 DEF Founder, Known, TypeOK
    <2>2. \A c \in DOMAIN clan : clan'[c] \in [founder : Player, name : Name]
      BY <1>2, <2>1 DEF Founder, TypeOK
    <2> QED
      BY <1>0, <1>2, <2>2 DEF Founder, TypeOK, history
  <1>3. CASE Rename(w)
    <2>1. j \in Job /\ j.name # NoName /\ j.op = "updateClan" /\ j.clan \in DOMAIN clan
      BY <1>0, <1>3 DEF Rename, CallOK
    <2>2. j.name \in Name /\ j.clan \in Clan
      BY <2>1, JobType DEF TypeOK
    <2>3. \A c \in DOMAIN clan : clan'[c] \in [founder : Player, name : Name]
      BY <1>3, <2>2 DEF Rename, TypeOK
    <2> QED
      BY <1>0, <1>3, <2>2, <2>3 DEF Rename, Named, TypeOK
  <1>4. CASE InsertMember(w)
    <2>1. Pair(w) \in Clan \X Player
      BY <1>4 DEF InsertMember, Pair, Exists, Known, TypeOK
    <2> QED
      BY <1>0, <1>4, <2>1 DEF InsertMember, TypeOK, history
  <1>5. CASE Delete(w)
    <2>1. j \in Job /\ j.op = "deleteClanPlayer"
      BY <1>0, <1>5 DEF Delete, CallOK
    <2>2. Pair(w) \in Clan \X Player
      BY <2>1, JobType DEF Pair
    <2> QED
      BY <1>0, <1>5, <2>2 DEF Delete, TypeOK
  <1>6. CASE SetMain(w)
    <2>1. j \in Job /\ j.clan # NoClan
      BY <1>0, <1>6 DEF SetMain, CallOK
    <2>2. j.clan \in Clan
      BY <2>1, JobType
    <2> QED
      BY <1>0, <1>6, <2>2 DEF SetMain, TypeOK, history
  <1>7. CASE Unset(w)
    BY <1>0, <1>7 DEF Unset, TypeOK, history
  <1>8. CASE Throw(w)
    <2>1. At(w, "insertmember") /\ Calls(w, {"createClan"}) => j.clan \in Clan
      BY <1>0, JobType DEF CallOK, Calls
    <2> QED
      BY <1>0, <1>8, <2>1 DEF Throw, TypeOK, tables
  <1>9. CASE Owner(w) \/ Unique(w) \/ ClanExists(w) \/ IsMember(w) \/ ReadMain(w)
    BY <1>0, <1>9 DEF Owner, Unique, ClanExists, IsMember, ReadMain, TypeOK,
                      tables, history
  <1>10. CASE \E k \in Job : Start(w, k)
    BY <1>0, <1>10 DEF Start, TypeOK, tables, history
  <1> QED
    BY <1>1, <1>2, <1>3, <1>4, <1>5, <1>6, <1>7, <1>8, <1>9, <1>10 DEF Statement

\* A statement of one worker does not spoil what the others know.
LEMMA CallInvStep ==
    ASSUME TypeOK, CallInv, NEW w \in Worker,
           Statement(w) \/ \E j \in Job : Start(w, j)
    PROVE  CallInv'
  <1>1. CallOK(w)'
    BY CallStep DEF CallInv
  <1>2. ASSUME NEW v \in Worker \ {w} PROVE CallOK(v)'
    <2>1. /\ call'[v] = call[v] /\ CallOK(v)
          /\ DOMAIN clan \subseteq DOMAIN clan' /\ Joined \subseteq Joined'
      BY StepFrame, Monotone DEF CallInv
    <2> QED
      BY <2>1 DEF CallOK
  <1> QED
    BY <1>1, <1>2 DEF CallInv

\* No statement gives a player a main clan he was never a member of.
LEMMA MainClanStep ==
    ASSUME TypeOK, CallInv, MainClanBacked, NEW w \in Worker,
           Statement(w) \/ \E j \in Job : Start(w, j)
    PROVE  MainClanBacked'
  <1>0. Joined \subseteq Joined'
    BY Monotone
  <1> USE DEF Joined, MainClanBacked
  <1>1. CASE SetMain(w)
    <2>1. Pair(w) \in Joined
      BY <1>1 DEF SetMain, CallInv, CallOK, At, Arg, Pair
    <2> QED
      BY <1>0, <1>1, <2>1 DEF SetMain, Pair
  <1>2. CASE Unset(w)
    BY <1>0, <1>2 DEF Unset
  <1>3. ASSUME UNCHANGED mainclan PROVE MainClanBacked'
    BY <1>0, <1>3
  <1> QED
    BY <1>1, <1>2, <1>3 DEF Statement, Start, Owner, Unique, ClanExists, IsMember,
         ReadMain, InsertClan, InsertMember, Founder, Rename, Delete, Throw, tables

\* No statement leaves a clan with an owner who never was a member, but for
\* a createClan that broke off.
LEMMA OwnerStep ==
    ASSUME TypeOK, CallInv, OwnerInv, NEW w \in Worker,
           Statement(w) \/ \E j \in Job : Start(w, j)
    PROVE  OwnerInv'
  <1> DEFINE Makes(v, c) == /\ At(v, "insertmember")
                            /\ Arg(v).op = "createClan" /\ Arg(v).clan = c
                            /\ Arg(v).player = clan[c].founder
             Good(c) == \/ << c, clan[c].founder >> \in Joined
                        \/ c \in torn
                        \/ \E v \in Worker : Makes(v, c)
  <1> USE DEF At, Arg
  <1>a. (\A c \in DOMAIN clan : Good(c)) /\ ((\A c \in DOMAIN clan : Good(c))' => OwnerInv')
    BY DEF OwnerInv
  <1>0. /\ Joined \subseteq Joined' /\ DOMAIN clan \subseteq DOMAIN clan'
        /\ \A v \in Worker \ {w} : call'[v] = call[v]
        /\ CallOK(w)
    BY Monotone, StepFrame DEF CallInv
  <1>1. torn \subseteq torn'
    BY DEF Statement, Start, Owner, Unique, ClanExists, IsMember, ReadMain,
           InsertClan, InsertMember, Founder, Rename, Delete, SetMain, Unset,
           Throw, history
  <1>2. ASSUME NEW c \in DOMAIN clan, clan'[c].founder = clan[c].founder,
               ~Makes(w, c) \/ c \in torn' \/ << c, clan[c].founder >> \in Joined'
        PROVE  Good(c)'
    <2>1. CASE << c, clan[c].founder >> \in Joined \/ c \in torn
      BY <1>0, <1>1, <1>2, <2>1
    <2>2. ASSUME NEW v \in Worker, Makes(v, c)
          PROVE  Good(c)'
      <3>1. CASE v = w
        BY <1>2, <2>2, <3>1
      <3>2. CASE v # w
        <4>1. Makes(v, c)'
          BY <1>0, <1>2, <2>2, <3>2
        <4> QED
          BY <4>1
      <3> QED
        BY <3>1, <3>2
    <2> QED
      BY <1>a, <2>1, <2>2
  <1>3. CASE InsertClan(w)
    <2> DEFINE b == call[w].job.clan
    <2>1. /\ DOMAIN clan' = DOMAIN clan \cup {b}
          /\ b \notin DOMAIN clan
          /\ clan'[b].founder = call[w].job.player
          /\ \A c \in DOMAIN clan : clan'[c] = clan[c]
          /\ call[w].at = "insert"
      BY <1>3 DEF InsertClan, Exists
    <2>2. /\ call'[w].at = "insertmember" /\ call'[w].job = call[w].job
          /\ call[w].job.op = "createClan"
      BY <1>0, <1>3, <2>1, Moves DEF InsertClan, CallOK
    <2>3. \A c \in DOMAIN clan : ~Makes(w, c)
      BY <2>1
    <2>4. \A c \in DOMAIN clan : Good(c)'
      BY <1>2, <2>1, <2>3
    <2>5. ASSUME NEW c \in DOMAIN clan' PROVE Good(c)'
      <3>1. c = b \/ c \in DOMAIN clan
        BY <2>1
      <3>2. CASE c \in DOMAIN clan
        BY <2>4, <3>2
      <3>3. CASE c = b
        BY <2>1, <2>2, <3>3
      <3> QED
        BY <3>1, <3>2, <3>3
    <2> HIDE DEF Good
    <2> QED
      BY <1>a, <2>5
  <1>4. CASE Founder(w)
    <2> DEFINE b == call[w].job.clan
    <2>1. /\ DOMAIN clan' = DOMAIN clan /\ call[w].at = "founder"
          /\ \A c \in DOMAIN clan \ {b} : clan'[c] = clan[c]
          /\ b \in DOMAIN clan => clan'[b].founder = call[w].job.player
      BY <1>4 DEF Founder, TypeOK
    <2>2. << b, call[w].job.player >> \in Joined
      BY <1>0, <2>1 DEF CallOK
    <2>3. \A c \in DOMAIN clan : ~Makes(w, c)
      BY <2>1
    <2>4. ASSUME NEW c \in DOMAIN clan PROVE Good(c)'
      <3>1. CASE c = b
        BY <1>0, <2>1, <2>2, <3>1
      <3>2. CASE c # b
        BY <1>2, <2>1, <2>3, <3>2
      <3> QED
        BY <3>1, <3>2
    <2> QED
      BY <1>a, <2>1, <2>4
  <1>5. CASE Rename(w)
    <2>1. /\ DOMAIN clan' = DOMAIN clan /\ call[w].at = "rename"
          /\ \A c \in DOMAIN clan : clan'[c].founder = clan[c].founder
      BY <1>5 DEF Rename, TypeOK
    <2>2. \A c \in DOMAIN clan : ~Makes(w, c)
      BY <2>1
    <2>3. \A c \in DOMAIN clan : Good(c)'
      BY <1>2, <2>1, <2>2
    <2> QED
      BY <1>a, <2>1, <2>3
  <1>6. CASE InsertMember(w)
    <2>1. clan' = clan /\ Pair(w) \in Joined'
      BY <1>6 DEF InsertMember, Joined
    <2>2. \A c \in DOMAIN clan :
             Makes(w, c) => << c, clan[c].founder >> \in Joined'
      BY <2>1 DEF Pair
    <2> QED
      BY <1>2, <2>1, <2>2 DEF OwnerInv
  <1>7. CASE Throw(w)
    <2>1. clan' = clan
      BY <1>7 DEF Throw, tables
    <2>2. \A c \in DOMAIN clan : Makes(w, c) => c \in torn'
      BY <1>7 DEF Throw, Calls
    <2> QED
      BY <1>2, <2>1, <2>2 DEF OwnerInv
  <1>8. ASSUME UNCHANGED clan, ~At(w, "insertmember") PROVE OwnerInv'
    BY <1>2, <1>8 DEF OwnerInv
  <1> QED
    BY <1>3, <1>4, <1>5, <1>6, <1>7, <1>8 DEF Statement, Start, Owner, Unique,
       ClanExists, IsMember, ReadMain, Delete, SetMain, Unset, tables

------------------------------------------------------------------------------
(* Names.                                                                   *)

\* What a write of a name does to the clans that have it.
LEMMA NamedStep ==
    ASSUME TypeOK, NameInv, NamesUniqueUnlessRaced, NEW w \in Worker,
           Naming(w), Named(w),
           \A v \in Worker \ {w} : call'[v] = call[v],
           call'[w].at \notin {"insert", "rename"},
           NEW b, b = Arg(w).clan,
           DOMAIN clan' = DOMAIN clan \cup {b},
           clan'[b].name = Arg(w).name,
           \A c \in DOMAIN clan \ {b} : clan'[c].name = clan[c].name
    PROVE  NameInv' /\ NamesUniqueUnlessRaced'
  <1>1. NameInv'
    <2> SUFFICES ASSUME NEW v \in Worker, Naming(v)', ~late'[v] PROVE FALSE
      BY DEF NameInv
    <2>1. v # w
      BY DEF Naming, At
    <2>2. late'[v]
      BY <2>1 DEF Named
    <2> QED
      BY <2>2
  <1>2. NamesUniqueUnlessRaced'
    <2> SUFFICES ASSUME NEW c \in DOMAIN clan', NEW d \in DOMAIN clan',
                        c # d, clan'[c].name.word = clan'[d].name.word,
                        c \notin raced', d \notin raced'
                 PROVE  FALSE
      BY DEF NamesUniqueUnlessRaced, SameName
    <2>1. CASE late[w]
      <3>1. raced' = raced \cup {b}
        BY <2>1 DEF Named
      <3>2. c \in DOMAIN clan \ {b} /\ d \in DOMAIN clan \ {b}
        BY <3>1
      <3> QED
        BY <3>1, <3>2 DEF NamesUniqueUnlessRaced, SameName
    <2>2. CASE ~late[w]
      <3>1. raced' = raced \ {b} /\ ~Taken(Arg(w).name)
        BY <2>2 DEF Named, NameInv
      <3>2. ASSUME NEW e \in DOMAIN clan \ {b}
            PROVE  clan'[e].name.word # clan'[b].name.word
        BY <3>1 DEF Taken
      <3>3. c # b /\ d # b
        BY <3>2
      <3>4. c \in DOMAIN clan \ {b} /\ d \in DOMAIN clan \ {b}
        BY <3>3
      <3> QED
        BY <3>1, <3>4 DEF NamesUniqueUnlessRaced, SameName
    <2> QED
      BY <2>1, <2>2
  <1> QED
    BY <1>1, <1>2

\* No statement makes two clans of one name, but for a late check.
LEMMA NameStep ==
    ASSUME TypeOK, CallInv, NameInv, NamesUniqueUnlessRaced, NEW w \in Worker,
           Statement(w) \/ \E j \in Job : Start(w, j)
    PROVE  NameInv' /\ NamesUniqueUnlessRaced'
  <1>0. \A v \in Worker \ {w} : call'[v] = call[v]
    BY StepFrame
  <1>1. CASE InsertClan(w)
    <2>1. Naming(w) /\ Named(w) /\ call'[w].at = "insertmember"
      BY <1>1, Moves DEF InsertClan, Naming
    <2>2. /\ DOMAIN clan' = DOMAIN clan \cup {Arg(w).clan}
          /\ clan'[Arg(w).clan].name = Arg(w).name
          /\ \A c \in DOMAIN clan \ {Arg(w).clan} : clan'[c].name = clan[c].name
      BY <1>1 DEF InsertClan
    <2> QED
      BY <1>0, <2>1, <2>2, NamedStep
  <1>2. CASE Rename(w)
    <2>1. Naming(w) /\ Named(w) /\ call'[w].at = "idle"
      BY <1>2, Moves DEF Rename, Naming, Ends
    <2>2. Arg(w).clan \in DOMAIN clan
      BY <1>2 DEF Rename, CallInv, CallOK, At, Arg
    <2>3. /\ DOMAIN clan' = DOMAIN clan \cup {Arg(w).clan}
          /\ clan'[Arg(w).clan].name = Arg(w).name
          /\ \A c \in DOMAIN clan \ {Arg(w).clan} : clan'[c].name = clan[c].name
      BY <1>2, <2>2 DEF Rename, TypeOK
    <2> QED
      BY <1>0, <2>1, <2>3, NamedStep
  <1>3. CASE Founder(w)
    <2>1. /\ DOMAIN clan' = DOMAIN clan /\ late' = late /\ raced' = raced
          /\ \A c \in DOMAIN clan : clan'[c].name = clan[c].name
      BY <1>3 DEF Founder, TypeOK, history
    <2>2. call'[w].at \in {"unique", "idle"}
      BY <1>3, Moves DEF Founder, NameNext
    <2>3. NamesUniqueUnlessRaced'
      BY <2>1 DEF NamesUniqueUnlessRaced, SameName
    <2>4. NameInv'
      <3> SUFFICES ASSUME NEW v \in Worker, Naming(v)', ~late'[v]
                   PROVE  ~Taken(Arg(v).name)'
        BY DEF NameInv
      <3>1. v # w /\ call'[v] = call[v]
        BY <1>0, <2>2 DEF Naming, At
      <3>2. ~Taken(Arg(v).name)
        BY <2>1, <3>1 DEF NameInv, Naming, At
      <3> QED
        BY <2>1, <3>1, <3>2 DEF Taken, Arg
    <2> QED
      BY <2>3, <2>4
  <1>4. CASE Unique(w)
    <2>1. /\ clan' = clan /\ raced' = raced
          /\ late' = [late EXCEPT ![w] = FALSE]
          /\ ~Taken(Arg(w).name) /\ call'[w].job = call[w].job
      BY <1>4, Moves DEF Unique, tables
    <2>2. NamesUniqueUnlessRaced'
      BY <2>1 DEF NamesUniqueUnlessRaced, SameName
    <2>3. NameInv'
      <3> SUFFICES ASSUME NEW v \in Worker, Naming(v)', ~late'[v]
                   PROVE  ~Taken(Arg(v).name)'
        BY DEF NameInv
      <3>1. CASE v = w
        BY <2>1, <3>1 DEF Taken, Arg
      <3>2. CASE v # w
        <4>1. call'[v] = call[v] /\ late'[v] = late[v]
          BY <1>0, <2>1, <3>2 DEF TypeOK
        <4>2. ~Taken(Arg(v).name)
          BY <4>1 DEF NameInv, Naming, At
        <4> QED
          BY <2>1, <4>1, <4>2 DEF Taken, Arg
      <3> QED
        BY <3>1, <3>2
    <2> QED
      BY <2>2, <2>3
  <1>5. ASSUME UNCHANGED << clan, late, raced >>,
               call'[w].at \notin {"insert", "rename"}
        PROVE  NameInv' /\ NamesUniqueUnlessRaced'
    <2>1. NamesUniqueUnlessRaced'
      BY <1>5 DEF NamesUniqueUnlessRaced, SameName
    <2>2. NameInv'
      <3> SUFFICES ASSUME NEW v \in Worker, Naming(v)', ~late'[v]
                   PROVE  ~Taken(Arg(v).name)'
        BY DEF NameInv
      <3>1. call'[v] = call[v]
        BY <1>0, <1>5 DEF Naming, At
      <3>2. ~Taken(Arg(v).name)
        BY <1>5, <3>1 DEF NameInv, Naming, At
      <3> QED
        BY <1>5, <3>1, <3>2 DEF Taken, Arg
    <2> QED
      BY <2>1, <2>2
  <1>6. CASE Owner(w) \/ ClanExists(w) \/ ReadMain(w)
    <2>1. call'[w].at \notin {"insert", "rename"}
      BY <1>6, Moves DEF Owner, ClanExists, ReadMain, NameNext, TypeOK
    <2> QED
      BY <1>5, <1>6, <2>1 DEF Owner, ClanExists, ReadMain, tables, history
  <1>7. CASE IsMember(w)
    <2>1. Arg(w).op \in {"updateClan", "updatePlayerMainClan", "addClanPlayer",
                         "deleteClanPlayer"}
      BY <1>7, JobType DEF IsMember, CallInv, CallOK, At, Arg
    <2>2. call'[w].at \notin {"insert", "rename"}
      BY <1>7, <2>1, Moves DEF IsMember
    <2> QED
      BY <1>5, <1>7, <2>2 DEF IsMember, tables, history
  <1>8. CASE InsertMember(w) \/ Delete(w) \/ SetMain(w) \/ Unset(w) \/ Throw(w)
    <2>1. call'[w].at \notin {"insert", "rename"}
      BY <1>8, Moves DEF InsertMember, Delete, SetMain, Unset, Throw, Ends
    <2> QED
      BY <1>5, <1>8, <2>1
         DEF InsertMember, Delete, SetMain, Unset, Throw, tables, history
  <1>9. CASE \E j \in Job : Start(w, j)
    <2>1. call'[w].at \in {"owner", "unset", "exists"}
      BY <1>9 DEF Start, TypeOK
    <2> QED
      BY <1>5, <1>9, <2>1 DEF Start, tables, history
  <1> QED
    BY <1>1, <1>2, <1>3, <1>4, <1>6, <1>7, <1>8, <1>9 DEF Statement

------------------------------------------------------------------------------
(* The invariant, and the invariants of the runs.                           *)

\* The invariant holds in every state.
LEMMA Inductive == Spec => []IInv
  <1>1. IInv /\ [Next]_vars => IInv'
    <2> SUFFICES ASSUME IInv, [Next]_vars PROVE IInv'
      OBVIOUS
    <2>1. ASSUME NEW w \in Worker, Statement(w) \/ \E j \in Job : Start(w, j)
          PROVE  IInv'
      BY <2>1, TypeStep, CallInvStep, MainClanStep, OwnerStep, NameStep DEF IInv
    <2>2. CASE UNCHANGED vars
      <3> USE <2>2 DEF vars, tables, history
      <3>1. TypeOK' /\ CallInv'
        BY DEF IInv, TypeOK, CallInv, CallOK, Joined
      <3>2. NameInv' /\ OwnerInv'
        BY DEF IInv, NameInv, Naming, Taken, OwnerInv, Joined, At, Arg
      <3>3. MainClanBacked' /\ NamesUniqueUnlessRaced'
        BY DEF IInv, MainClanBacked, NamesUniqueUnlessRaced, SameName
      <3> QED
        BY <3>1, <3>2, <3>3 DEF IInv
    <2> QED
      BY <2>1, <2>2 DEF Next
  <1> QED
    BY InitIInv, <1>1, PTL DEF Spec

\* Type correctness of the clan tables and of the calls in progress
\* (mysql.cpp:2123-2555).
THEOREM TypeCorrect == Spec => []TypeOK
  <1>1. IInv => TypeOK
    BY DEF IInv
  <1> QED
    BY Inductive, <1>1, PTL

\* Nobody gets a main clan he never belonged to (mysql.cpp:2404-2434,
\* 2537-2546), whatever the workers do at the same time.
THEOREM MainClansBacked == Spec => []MainClanBacked
  <1>1. IInv => MainClanBacked
    BY DEF IInv
  <1> QED
    BY Inductive, <1>1, PTL

\* A clan whose createClan went through has an owner who is or was a member
\* (mysql.cpp:2304-2309, 2343-2355).
THEOREM OwnersBacked == Spec => []OwnerBacked
  <1>1. IInv => OwnerBacked
    BY DEF IInv, OwnerInv, OwnerBacked, Creating, Joined, At, Arg
  <1> QED
    BY Inductive, <1>1, PTL

\* Two clans share a name only after a race of two writers
\* (mysql.cpp:2146-2165, 2294-2304, 2357-2370).
THEOREM NamesClashByRaceOnly == Spec => []NamesUniqueUnlessRaced
  <1>1. IInv => NamesUniqueUnlessRaced
    BY DEF IInv
  <1> QED
    BY Inductive, <1>1, PTL

\* With a poolsize of 1 no name is ever given twice, but for its spelling:
\* what mysql.cpp:2293 intends is then what happens.
THEOREM OneWorkerNamesUnique ==
    ASSUME NEW u, Worker = {u}
    PROVE  Spec => []NamesUnique
  <1> DEFINE Serial == raced = {} /\ ~late[u]
  <1>1. Init => Serial
    BY DEF Init
  <1>2. TypeOK /\ Serial /\ [Next]_vars => Serial'
    <2> SUFFICES ASSUME TypeOK, Serial, [Next]_vars PROVE Serial'
      OBVIOUS
    <2>1. CASE InsertClan(u) \/ Rename(u)
      BY <2>1 DEF InsertClan, Rename, Named
    <2>2. CASE Unique(u)
      BY <2>2 DEF Unique, TypeOK
    <2>3. CASE UNCHANGED << late, raced >>
      BY <2>3
    <2> QED
      BY <2>1, <2>2, <2>3 DEF Next, Statement, Start, Owner, ClanExists, IsMember,
         ReadMain, InsertMember, Founder, Delete, SetMain, Unset, Throw, history,
         vars
  <1>3. Serial /\ NamesUniqueUnlessRaced => NamesUnique
    BY DEF NamesUniqueUnlessRaced, NamesUnique
  <1> HIDE DEF Serial
  <1> QED
    BY <1>1, <1>2, <1>3, TypeCorrect, NamesClashByRaceOnly, PTL DEF Spec
==============================================================================
