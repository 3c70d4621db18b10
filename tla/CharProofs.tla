----------------------------- MODULE CharProofs -----------------------------
(***************************************************************************)
(* The inductive invariant of CharStore and what follows from it: a world  *)
(* with one worker never has two live characters, the cache differs from   *)
(* the tables only where history says so, updates go to the rows that      *)
(* loadChar reads, and gear is not shared with the dead.                   *)
(***************************************************************************)
EXTENDS CharStore, TLAPS

\* The places of createChar, and of it those where it has a gear that is a
\* row already.
Creating == {"findvars", "insertvars", "linkvars", "readvars", "findgear",
             "insertgear", "readgear", "insertplace", "insertlive"}
Equipped == {"readgear", "insertplace", "insertlive"}

\* Uuids are handed out in order, rows lead to rows, and the tables of links
\* name rows: the FOREIGN KEYs.
RowsInv ==
    /\ \A p \in Part : \A u \in DOMAIN db[p] : u <= last
    /\ \A u \in DOMAIN db["place"] : db["place"][u].up \in DOMAIN db["gear"]
    /\ \A g \in DOMAIN db["gear"] : db["gear"][g].up \in DOMAIN db["vars"]
    /\ \A r \in linked : r[2] \in DOMAIN db["vars"]
    /\ \A r \in live \cup dead : r[2] \in DOMAIN db["place"]

\* A cached character has no uuid that was not handed out, and his own or none.
EntriesInv ==
    \A s \in World : \A k \in Cached(s) :
        /\ k[1] <= last
        /\ cache[s][k].id["place"] \in {k[1], NoUuid}
        /\ \A p \in Part : cache[s][k].id[p] <= last

\* The uuid that the worker's entry has for the part is nobody else's yet:
\* neither a row nor another entry has it.
OwnId(w, p) ==
    LET u == Entry(w).id[p] IN
    /\ u # NoUuid
    /\ u \notin DOMAIN db[p]
    /\ \A s \in World : \A k \in Cached(s) :
          cache[s][k].id[p] = u => s = ServerOf[w] /\ k = call[w].key

\* No other entry is one of the character that the worker makes.
OwnKey(w) ==
    \A s \in World : \A k \in Cached(s) :
        k[1] = call[w].key[1] => s = ServerOf[w] /\ k = call[w].key

\* What a call knows at each of its places.
HasEntry(w) ==
    call[w].at \in Part \cup Creating => call[w].key \in Cached(ServerOf[w])
IsNew(w) ==
    /\ call[w].at \in Creating => /\ call[w].key[1] \notin Told
                                 /\ Entry(w).id["place"] = call[w].key[1]
    /\ call[w].at \in Creating \ {"insertlive"} => OwnId(w, "place") /\ OwnKey(w)
    /\ call[w].at = "insertvars" => OwnId(w, "vars")
    /\ call[w].at = "insertgear" => OwnId(w, "gear")
HasVars(w) ==
    /\ call[w].at \in Creating \ {"findvars", "insertvars"} =>
          Entry(w).id["vars"] \in DOMAIN db["vars"]
    /\ call[w].at \in Creating \ {"findvars", "insertvars", "linkvars"} =>
          << ServerOf[w], Entry(w).id["vars"] >> \in linked
HasGear(w) ==
    call[w].at \in Equipped =>
        LET g == Entry(w).id["gear"] IN
        /\ g \in DOMAIN db["gear"]
        /\ OneLink => db["gear"][g].up = Entry(w).id["vars"]
        /\ \A q \in dead : db["place"][q[2]].up = g => g \in raced
HasPlace(w) ==
    call[w].at = "insertlive" =>
        /\ call[w].key[1] \in DOMAIN db["place"]
        /\ db["place"][call[w].key[1]].up = Entry(w).id["gear"]
CallOK(w) == HasEntry(w) /\ IsNew(w) /\ HasVars(w) /\ HasGear(w) /\ HasPlace(w)

\* Two calls never make the same character.
Apart == \A v, w \in Worker :
    v # w /\ call[v].at \in Creating /\ call[w].at \in Creating
        => call[v].key[1] # call[w].key[1]
CallsInv == Apart /\ \A w \in Worker : CallOK(w)

\* A live character has the variables that his world is linked to.
LiveLinked ==
    OneLink => \A r \in live : << r[1], RowsOf(r[2])["vars"] >> \in linked

IInv == /\ TypeOK /\ RowsInv /\ EntriesInv /\ CallsInv
        /\ Coherent /\ OwnRows /\ LiveLinked /\ GearOfLiving

\* The workers of a world, and what follows for it if that is one.
OneWorker == \A v, w \in Worker : ServerOf[v] = ServerOf[w] => v = w
NoneYet == \A w \in Worker : call[w].at \in Creating =>
              \A r \in live : r[1] # ServerOf[w]
LiveInv == OneLive /\ NoneYet

USE ServerAssumption

------------------------------------------------------------------------------
(* The operators the model is built from.                                   *)

\* Filling an entry of a server's cache leaves every other entry alone.
LEMMA SetEntryFacts ==
    ASSUME TypeOK, NEW s \in World, NEW k, NEW e, SetEntry(s, k, e)
    PROVE  /\ DOMAIN cache' = World
           /\ Cached(s)' = Cached(s) \cup {k}
           /\ \A t \in World : t # s => cache'[t] = cache[t]
           /\ cache'[s][k] = e
           /\ \A j \in Cached(s) : j # k => cache'[s][j] = cache[s][j]
  <1>1. DOMAIN cache = World
    BY DEF TypeOK
  <1>2. cache' = [cache EXCEPT ![s] = With(cache[s], k, e)]
    BY DEF SetEntry
  <1>3. /\ DOMAIN cache' = World /\ cache'[s] = With(cache[s], k, e)
        /\ \A t \in World : t # s => cache'[t] = cache[t]
    BY <1>1, <1>2
  <1> QED
    BY <1>3 DEF Cached, With

\* A call goes on to another statement, or ends.
LEMMA GoesFacts ==
    ASSUME TypeOK, NEW w \in Worker, NEW place \in Place, Goes(w, place)
    PROVE  /\ call' \in [Worker -> [at : Place, key : Key \cup {NoKey}]]
           /\ call'[w].at = place
           /\ place # "idle" => call'[w].key = call[w].key
           /\ \A v \in Worker \ {w} : call'[v] = call[v]
  <1>1. call \in [Worker -> [at : Place, key : Key \cup {NoKey}]]
    BY DEF TypeOK
  <1>2. Idle \in [at : Place, key : Key \cup {NoKey}] /\ Idle.at = "idle"
    BY DEF Idle, Place
  <1> QED
    BY <1>1, <1>2 DEF Goes

\* A call begins.
LEMMA BeginsFacts ==
    ASSUME TypeOK, NEW w \in Worker, NEW place \in Place,
           NEW k \in Key \cup {NoKey}, Begins(w, place, k)
    PROVE  /\ call' \in [Worker -> [at : Place, key : Key \cup {NoKey}]]
           /\ call'[w].at = place /\ call'[w].key = k
           /\ \A v \in Worker \ {w} : call'[v] = call[v]
  BY DEF TypeOK, Begins

\* The rows of a character whose place is a row.
LEMMA RowsOfFacts ==
    ASSUME NEW u
    PROVE  /\ DOMAIN RowsOf(u) = Part
           /\ RowsOf(u)["place"] = u
           /\ RowsOf(u)["gear"] = db["place"][u].up
           /\ RowsOf(u)["vars"] = db["gear"][db["place"][u].up].up
  BY DEF RowsOf, Part

\* Marks, entry by entry.
LEMMA MarksFacts ==
    ASSUME NEW s, NEW k, NEW ps, NEW t, NEW j, NEW p
    PROVE  << t, j, p >> \in Marks(s, k, ps) <=> t = s /\ j = k /\ p \in ps
  BY DEF Marks

\* A worker's entry, typed.
LEMMA EntryType ==
    ASSUME TypeOK, NEW w \in Worker, HasEntry(w),
           call[w].at \in Part \cup Creating
    PROVE  /\ ServerOf[w] \in World /\ call[w].key \in Key
           /\ call[w].key \in Cached(ServerOf[w])
           /\ Entry(w) = cache[ServerOf[w]][call[w].key]
           /\ Entry(w) \in [val : [Part -> Value \cup {Null}],
                            id : [Part -> Uuid \cup {NoUuid}]]
  BY DEF TypeOK, HasEntry, Entry

------------------------------------------------------------------------------
(* What a step of one worker leaves to the others.                          *)

\* Rows stay, and lead where they led.
RowsKept ==
    \A p \in Part : \A u \in DOMAIN db[p] :
        u \in DOMAIN db'[p] /\ db'[p][u].up = db[p][u].up

\* The entries stay, those of the other calls of createChar as they are, and
\* a new one is of a character that the game was told of, or of a new one.
EntriesKept(w) ==
    /\ \A s \in World : \A k \in Cached(s) : k \in Cached(s)'
    /\ \A s \in World : \A k \in Cached(s)' :
          k \in Cached(s) \/ k[1] \in Told \/ k[1] = last + 1
    /\ \A v \in Worker \ {w} : call[v].at \in Creating =>
          cache'[ServerOf[v]][call[v].key] = Entry(v)

\* A uuid new in an entry is a row's, or was just handed out; a new row has
\* one that the worker's own entry had for itself.
IdsFrom(w) ==
    /\ \A s \in World : \A k \in Cached(s)' : \A p \in Part :
          LET u == cache'[s][k].id[p] IN
          \/ u = NoUuid \/ u = last + 1 \/ u \in DOMAIN db[p]
          \/ k \in Cached(s) /\ u = cache[s][k].id[p]
    /\ \A p \in Part : \A u \in DOMAIN db'[p] :
          \/ u \in DOMAIN db[p]
          \/ call[w].at \in Creating /\ OwnId(w, p) /\ u = Entry(w).id[p]

\* A character the game hears of is the worker's own, or known already.
ToldFrom(w) ==
    \A r \in live' \cup dead' :
        \/ r[2] \in Told
        \/ call[w].at = "insertlive" /\ r[2] = call[w].key[1]

\* Whoever dies while his gear is being reused is recorded.
DeadRaced ==
    \A q \in dead' : \A v \in Worker :
        \/ q \in dead
        \/ call[v].at \in Equipped /\ Entry(v).id["gear"] = db["place"][q[2]].up
              => Entry(v).id["gear"] \in raced'

StepFrame(w) ==
    /\ \A v \in Worker \ {w} : call'[v] = call[v]
    /\ RowsKept /\ linked \subseteq linked' /\ raced \subseteq raced'
    /\ EntriesKept(w) /\ IdsFrom(w) /\ ToldFrom(w) /\ DeadRaced

\* A world linked to one player's variables was linked to no others before.
LEMMA OneLinkBefore == linked \subseteq linked' /\ OneLink' => OneLink
  BY DEF OneLink

\* The entry of another call of createChar stays.
LEMMA OtherEntry ==
    ASSUME IInv, NEW w \in Worker, StepFrame(w), NEW v \in Worker \ {w},
           call[v].at \in Creating
    PROVE  /\ Entry(v)' = Entry(v) /\ call'[v] = call[v]
           /\ call[v].key \in Cached(ServerOf[v])'
  <1>1. HasEntry(v)
    BY DEF IInv, CallsInv, CallOK
  <1>2. ServerOf[v] \in World /\ call[v].key \in Cached(ServerOf[v])
    BY <1>1 DEF HasEntry
  <1>3. call'[v] = call[v] /\ EntriesKept(w)
    BY DEF StepFrame
  <1>4. cache'[ServerOf[v]][call[v].key] = Entry(v)
    BY <1>3 DEF EntriesKept
  <1>5. call[v].key \in Cached(ServerOf[v])'
    BY <1>2, <1>3 DEF EntriesKept
  <1> QED
    BY <1>3, <1>4, <1>5 DEF Entry

\* A uuid that is the other call's own stays its own.
LEMMA OtherOwnId ==
    ASSUME IInv, NEW w \in Worker, StepFrame(w), NEW v \in Worker \ {w},
           call[v].at \in Creating, NEW p \in Part, OwnId(v, p)
    PROVE  OwnId(v, p)'
  <1> DEFINE u == Entry(v).id[p]
  <1>1. Entry(v)' = Entry(v) /\ call'[v] = call[v]
    BY OtherEntry
  <1>2. HasEntry(v) /\ HasEntry(w)
    BY DEF IInv, CallsInv, CallOK
  <1>3. u \in Nat /\ u <= last /\ u # NoUuid /\ last \in Nat
    BY <1>2, EntryType DEF IInv, EntriesInv, TypeOK, Uuid, OwnId, NoUuid
  <1>4. u \notin DOMAIN db'[p]
    <2>1. SUFFICES ASSUME u \in DOMAIN db'[p] PROVE FALSE
      OBVIOUS
    <2>2. call[w].at \in Creating /\ OwnId(w, p) /\ u = Entry(w).id[p]
      BY <2>1 DEF StepFrame, IdsFrom, OwnId
    <2>3. call[v].key = call[w].key
      BY <1>2, <2>2 DEF OwnId, HasEntry, Entry
    <2> QED
      BY <2>2, <2>3 DEF IInv, CallsInv, Apart
  <1>5. ASSUME NEW s \in World, NEW k \in Cached(s)', cache'[s][k].id[p] = u
        PROVE  s = ServerOf[v] /\ k = call[v].key
    <2>1. k \in Cached(s) /\ u = cache[s][k].id[p]
      BY <1>3, <1>5 DEF StepFrame, IdsFrom, OwnId
    <2> QED
      BY <2>1 DEF OwnId
  <1> QED
    BY <1>1, <1>3, <1>4, <1>5 DEF OwnId

\* The character of a call of createChar was numbered before it went on.
LEMMA NotYetNext ==
    ASSUME IInv, NEW v \in Worker, call[v].at \in Creating
    PROVE  call[v].key[1] # last + 1
  <1>1. HasEntry(v)
    BY DEF IInv, CallsInv, CallOK
  <1>2. /\ ServerOf[v] \in World /\ call[v].key \in Key
        /\ call[v].key \in Cached(ServerOf[v])
    BY <1>1, EntryType DEF IInv
  <1>3. call[v].key[1] <= last /\ call[v].key[1] \in Nat /\ last \in Nat
    BY <1>2 DEF IInv, EntriesInv, TypeOK, Key, Uuid
  <1> QED
    BY <1>3

\* What another call knows stays true.
LEMMA OtherCallOK ==
    ASSUME IInv, NEW w \in Worker, StepFrame(w), NEW v \in Worker \ {w}
    PROVE  CallOK(v)'
  <1>0. /\ CallOK(v) /\ CallOK(w) /\ call'[v] = call[v]
        /\ RowsKept /\ linked \subseteq linked' /\ raced \subseteq raced'
    BY DEF IInv, CallsInv, StepFrame
  <1>1. HasEntry(v)'
    BY <1>0 DEF CallOK, HasEntry, StepFrame, EntriesKept
  <1>2. CASE call[v].at \notin Creating
    <2>1. IsNew(v)' /\ HasVars(v)' /\ HasGear(v)' /\ HasPlace(v)'
      BY <1>0, <1>2 DEF IsNew, HasVars, HasGear, HasPlace, Creating, Equipped
    <2> QED
      BY <1>1, <2>1 DEF CallOK
  <1>3. CASE call[v].at \in Creating
    <2>1. Entry(v)' = Entry(v)
      BY <1>3, OtherEntry
    <2>2. IsNew(v)'
      <3>1. call[v].key[1] \notin Told'
        <4>1. call[v].key[1] \notin Told
          BY <1>0, <1>3 DEF CallOK, IsNew
        <4>2. call[w].at = "insertlive" => call[v].key[1] # call[w].key[1]
          BY <1>3 DEF IInv, CallsInv, Apart, Creating
        <4> QED
          BY <4>1, <4>2 DEF StepFrame, ToldFrom, Told
      <3>2. /\ call[v].at # "insertlive" => OwnId(v, "place")'
            /\ call[v].at = "insertvars" => OwnId(v, "vars")'
            /\ call[v].at = "insertgear" => OwnId(v, "gear")'
        BY <1>0, <1>3, OtherOwnId DEF CallOK, IsNew, Part
      <3>3. Entry(v)'.id["place"] = call'[v].key[1]
        BY <1>0, <1>3, <2>1 DEF CallOK, IsNew
      <3>4. call[v].at # "insertlive" => OwnKey(v)'
        <4>1. call[v].key[1] \notin Told /\ call[v].key[1] # last + 1
          BY <1>0, <1>3, NotYetNext DEF CallOK, IsNew
        <4>2. SUFFICES ASSUME OwnKey(v), NEW s \in World, NEW k \in Cached(s)',
                              k[1] = call[v].key[1]
                       PROVE  s = ServerOf[v] /\ k = call[v].key
          BY <1>0, <1>3 DEF OwnKey, CallOK, IsNew
        <4>3. k \in Cached(s)
          BY <4>1, <4>2 DEF StepFrame, EntriesKept
        <4> QED
          BY <4>2, <4>3 DEF OwnKey
      <3> QED
        BY <1>0, <3>1, <3>2, <3>3, <3>4 DEF IsNew
    <2>3. HasVars(v)'
      BY <1>0, <2>1 DEF CallOK, HasVars, RowsKept, Part
    <2>4. HasGear(v)'
      <3> SUFFICES ASSUME call[v].at \in Equipped
                   PROVE  /\ Entry(v).id["gear"] \in DOMAIN db'["gear"]
                          /\ OneLink' => db'["gear"][Entry(v).id["gear"]].up
                                            = Entry(v).id["vars"]
                          /\ \A q \in dead' :
                                db'["place"][q[2]].up = Entry(v).id["gear"]
                                    => Entry(v).id["gear"] \in raced'
        BY <1>0, <2>1 DEF HasGear
      <3>1. /\ Entry(v).id["gear"] \in DOMAIN db["gear"]
            /\ OneLink => db["gear"][Entry(v).id["gear"]].up = Entry(v).id["vars"]
            /\ \A q \in dead : db["place"][q[2]].up = Entry(v).id["gear"]
                                   => Entry(v).id["gear"] \in raced
        BY <1>0 DEF CallOK, HasGear
      <3>2. /\ Entry(v).id["gear"] \in DOMAIN db'["gear"]
            /\ OneLink' => db'["gear"][Entry(v).id["gear"]].up = Entry(v).id["vars"]
        BY <1>0, <3>1, OneLinkBefore DEF RowsKept, Part
      <3>3. ASSUME NEW q \in dead',
                   db'["place"][q[2]].up = Entry(v).id["gear"]
            PROVE  Entry(v).id["gear"] \in raced'
        <4>1. CASE q \in dead
          <5>1. db'["place"][q[2]].up = db["place"][q[2]].up
            BY <1>0, <4>1 DEF IInv, RowsInv, RowsKept, Part
          <5> QED
            BY <1>0, <3>1, <3>3, <4>1, <5>1
        <4>2. CASE q \notin dead
          <5>1. q[2] \in DOMAIN db["place"]
            BY <1>0, <4>2 DEF StepFrame, ToldFrom, Told, IInv, RowsInv, CallOK,
                              HasPlace
          <5> QED
            BY <1>0, <3>3, <4>2, <5>1 DEF StepFrame, DeadRaced, RowsKept, Part
        <4> QED
          BY <4>1, <4>2
      <3> QED
        BY <3>2, <3>3
    <2>5. HasPlace(v)'
      BY <1>0, <2>1 DEF CallOK, HasPlace, RowsKept, Part
    <2> QED
      BY <1>1, <2>2, <2>3, <2>4, <2>5 DEF CallOK
  <1> QED
    BY <1>2, <1>3

\* A call that is over, or about to kill, knows nothing.
LEMMA QuietCallOK ==
    ASSUME NEW w \in Worker, call'[w].at \in {"idle", "kill"}
    PROVE  CallOK(w)'
  BY DEF CallOK, HasEntry, IsNew, HasVars, HasGear, HasPlace, Creating,
         Equipped, Part

\* The calls keep apart and go on knowing what they knew.
LEMMA CallsStep ==
    ASSUME IInv, NEW w \in Worker, StepFrame(w), CallOK(w)',
           call'[w].at \in Creating =>
              \/ call[w].at \in Creating /\ call'[w].key = call[w].key
              \/ call'[w].key[1] = last + 1
    PROVE  CallsInv'
  <1>1. \A v \in Worker : CallOK(v)'
    BY OtherCallOK
  <1>2. ASSUME NEW v \in Worker \ {w}, call[v].at \in Creating
        PROVE  /\ call[v].key[1] # last + 1
               /\ call[w].at \in Creating => call[v].key[1] # call[w].key[1]
    BY <1>2, NotYetNext DEF IInv, CallsInv, Apart
  <1>3. \A v \in Worker \ {w} : call'[v] = call[v]
    BY DEF StepFrame
  <1>4. Apart'
    BY <1>2, <1>3 DEF IInv, CallsInv, Apart
  <1> QED
    BY <1>1, <1>4 DEF CallsInv

\* The rows of a character stay the same.
LEMMA RowsOfKept ==
    ASSUME IInv, RowsKept, NEW u \in DOMAIN db["place"]
    PROVE  RowsOf(u)' = RowsOf(u)
  <1>1. db'["place"][u].up = db["place"][u].up
    BY DEF RowsKept, Part
  <1>2. db["place"][u].up \in DOMAIN db["gear"]
    BY DEF IInv, RowsInv
  <1>3. db'["gear"][db["place"][u].up].up = db["gear"][db["place"][u].up].up
    BY <1>2 DEF RowsKept, Part
  <1> QED
    BY <1>1, <1>3 DEF RowsOf

\* An entry that keeps a uuid keeps the row, if it was not recorded as astray.
LEMMA OwnRowsStep ==
    ASSUME IInv, RowsKept, linked \subseteq linked',
           OneLink' => \A s \in World : \A k \in Cached(s)' : \A p \in Part :
              k[1] \in DOMAIN db'["place"] /\ << s, k, p >> \notin astray' =>
                 \/ /\ k \in Cached(s) /\ k[1] \in DOMAIN db["place"]
                    /\ << s, k, p >> \notin astray
                    /\ cache'[s][k].id[p] = cache[s][k].id[p]
                 \/ cache'[s][k].id[p] = RowsOf(k[1])'[p]
    PROVE  OwnRows'
  <1> SUFFICES ASSUME OneLink', NEW s \in World, NEW k \in Cached(s)', NEW p \in Part,
                      k[1] \in DOMAIN db'["place"], << s, k, p >> \notin astray'
               PROVE  cache'[s][k].id[p] = RowsOf(k[1])'[p]
    BY DEF OwnRows
  <1>1. OneLink
    BY OneLinkBefore
  <1>2. CASE /\ k \in Cached(s) /\ k[1] \in DOMAIN db["place"]
             /\ << s, k, p >> \notin astray
             /\ cache'[s][k].id[p] = cache[s][k].id[p]
    BY <1>1, <1>2, RowsOfKept DEF IInv, OwnRows
  <1> QED
    BY <1>2

\* Live characters that stay keep their variables linked.
LEMMA LiveLinkedStep ==
    ASSUME IInv, RowsKept, linked \subseteq linked',
           OneLink' => \A r \in live' :
              r \in live \/ << r[1], RowsOf(r[2])'["vars"] >> \in linked'
    PROVE  LiveLinked'
  <1> SUFFICES ASSUME OneLink', NEW r \in live', r \in live
               PROVE  << r[1], RowsOf(r[2])'["vars"] >> \in linked'
    BY DEF LiveLinked
  <1>1. OneLink
    BY OneLinkBefore
  <1>2. r[2] \in DOMAIN db["place"]
    BY DEF IInv, RowsInv
  <1> QED
    BY <1>1, <1>2, RowsOfKept DEF IInv, LiveLinked

\* Nobody comes to life or dies: the gear of the living stays theirs.
LEMMA GearStep ==
    ASSUME IInv, RowsKept, raced \subseteq raced', live' \subseteq live,
           dead' = dead
    PROVE  GearOfLiving'
  BY DEF IInv, GearOfLiving, RowsInv, RowsKept, Part

------------------------------------------------------------------------------
(* Steps that touch neither the rows nor the cache.                         *)

\* What such a step leaves as it was.
LEMMA NoDataStep ==
    ASSUME IInv, NEW w \in Worker, UNCHANGED << db, cache, last >>,
           call' \in [Worker -> [at : Place, key : Key \cup {NoKey}]],
           \A v \in Worker \ {w} : call'[v] = call[v],
           linked \subseteq linked', raced \subseteq raced',
           stale' = stale, astray' = astray
    PROVE  /\ RowsKept /\ EntriesKept(w) /\ IdsFrom(w)
           /\ EntriesInv' /\ Coherent' /\ OwnRows'
  <1>1. RowsKept
    BY DEF RowsKept
  <1>2. EntriesKept(w)
    BY DEF EntriesKept, Cached, Entry
  <1>3. IdsFrom(w)
    BY DEF IdsFrom, Cached
  <1>4. EntriesInv'
    BY DEF IInv, EntriesInv, Cached
  <1>5. Coherent'
    BY DEF IInv, Coherent, Cached
  <1>6. OwnRows'
    BY <1>1, OwnRowsStep DEF Cached
  <1> QED
    BY <1>1, <1>2, <1>3, <1>4, <1>5, <1>6

\* A call that throws, or begins to kill, changes nothing but itself.
LEMMA CallOnly ==
    ASSUME IInv, NEW w \in Worker,
           \/ Throw(w)
           \/ \E u \in Told : StartKill(w, u)
    PROVE  IInv'
  <1>1. /\ call' \in [Worker -> [at : Place, key : Key \cup {NoKey}]]
        /\ \A v \in Worker \ {w} : call'[v] = call[v]
        /\ call'[w].at \in {"idle", "kill"}
    <2>0. TypeOK
      BY DEF IInv
    <2>1. CASE Throw(w)
      <3>1. Goes(w, "idle") /\ "idle" \in Place
        BY <2>1 DEF Throw, Place
      <3> QED
        BY <2>0, <3>1, GoesFacts
    <2>2. ASSUME NEW u \in Told, StartKill(w, u)
          PROVE  /\ call' \in [Worker -> [at : Place, key : Key \cup {NoKey}]]
                 /\ \A v \in Worker \ {w} : call'[v] = call[v]
                 /\ call'[w].at \in {"idle", "kill"}
      <3>1. << u, "lower" >> \in Key
        BY <2>0, <2>2 DEF Told, Key, Form, TypeOK
      <3>2. Begins(w, "kill", << u, "lower" >>) /\ "kill" \in Place
        BY <2>2 DEF StartKill, Place
      <3> QED
        BY <2>0, <3>1, <3>2, BeginsFacts
    <2> QED
      BY <2>1, <2>2
  <1>2. UNCHANGED << tables, cache, last, history >>
    BY DEF Throw, StartKill, counters
  <1>3. TypeOK'
    BY <1>1, <1>2 DEF IInv, TypeOK, tables, history, Cached
  <1>4. /\ RowsKept /\ EntriesKept(w) /\ IdsFrom(w)
        /\ EntriesInv' /\ Coherent' /\ OwnRows'
    BY <1>1, <1>2, NoDataStep DEF tables, history
  <1>5. RowsInv'
    BY <1>2 DEF IInv, RowsInv, tables
  <1>6. StepFrame(w)
    BY <1>1, <1>2, <1>4
       DEF StepFrame, ToldFrom, Told, DeadRaced, tables, history
  <1>7. CallsInv'
    BY <1>1, <1>6, QuietCallOK, CallsStep DEF Creating
  <1>8. LiveLinked' /\ GearOfLiving'
    BY <1>2, <1>4, LiveLinkedStep, GearStep DEF tables, history
  <1> QED
    BY <1>3, <1>4, <1>5, <1>7, <1>8 DEF IInv

\* linkChars links the world to the variables of a character
\* (mysql.cpp:1408-1421).
LEMMA LinkCharsStep ==
    ASSUME IInv, NEW w \in Worker, NEW u \in Uuid, LinkChars(w, u)
    PROVE  IInv'
  <1>1. /\ UNCHANGED << db, live, dead, cache, call, last, stale, raced, astray >>
        /\ linked' = linked \cup {<< ServerOf[w], u >>}
        /\ u \in DOMAIN db["vars"] /\ At(w, "idle")
    BY DEF LinkChars, counters, history
  <1>2. TypeOK'
    BY <1>1 DEF IInv, TypeOK, Cached
  <1>3. call \in [Worker -> [at : Place, key : Key \cup {NoKey}]]
    BY DEF IInv, TypeOK
  <1>4. /\ RowsKept /\ EntriesKept(w) /\ IdsFrom(w)
        /\ EntriesInv' /\ Coherent' /\ OwnRows'
    BY <1>1, <1>3, NoDataStep
  <1>5. RowsInv'
    BY <1>1 DEF IInv, RowsInv
  <1>6. StepFrame(w)
    BY <1>1, <1>4 DEF StepFrame, ToldFrom, Told, DeadRaced
  <1>7. CallsInv'
    BY <1>1, <1>6, QuietCallOK, CallsStep DEF At, Creating
  <1>8. LiveLinked' /\ GearOfLiving'
    BY <1>1, <1>4, LiveLinkedStep, GearStep
  <1> QED
    BY <1>2, <1>4, <1>5, <1>7, <1>8 DEF IInv

\* The link that createChar makes to new variables (mysql.cpp:1555-1561).
LEMMA LinkVarsStep ==
    ASSUME IInv, NEW w \in Worker, LinkVars(w)
    PROVE  IInv'
  <1>0. /\ CallOK(w) /\ TypeOK /\ call[w].at = "linkvars"
        /\ call[w].at \in Creating
    BY DEF IInv, CallsInv, LinkVars, At, Creating
  <1> DEFINE u == Entry(w).id["vars"]
  <1>1. /\ UNCHANGED << db, live, dead, cache, last, stale, raced, astray >>
        /\ linked' = linked \cup {<< ServerOf[w], u >>}
        /\ Goes(w, "findgear") /\ "findgear" \in Place
    BY DEF LinkVars, counters, history, Place
  <1>2. /\ call' \in [Worker -> [at : Place, key : Key \cup {NoKey}]]
        /\ call'[w].at = "findgear" /\ call'[w].key = call[w].key
        /\ \A v \in Worker \ {w} : call'[v] = call[v]
    BY <1>0, <1>1, GoesFacts
  <1>3. u \in DOMAIN db["vars"] /\ u \in Uuid /\ ServerOf[w] \in World
    BY <1>0 DEF CallOK, HasVars, Creating, TypeOK, Part
  <1>4. TypeOK'
    BY <1>1, <1>2, <1>3 DEF IInv, TypeOK, Cached
  <1>5. /\ RowsKept /\ EntriesKept(w) /\ IdsFrom(w)
        /\ EntriesInv' /\ Coherent' /\ OwnRows'
    BY <1>1, <1>2, NoDataStep
  <1>6. RowsInv'
    BY <1>1, <1>3 DEF IInv, RowsInv
  <1>7. StepFrame(w)
    BY <1>1, <1>2, <1>5 DEF StepFrame, ToldFrom, Told, DeadRaced
  <1>8. Entry(w)' = Entry(w)
    BY <1>0, <1>1, <1>2 DEF Entry
  <1>9. CallOK(w)'
    <2>1. HasEntry(w)'
      BY <1>0, <1>1, <1>2 DEF CallOK, HasEntry, Cached
    <2>2. IsNew(w)'
      <3>1. OwnId(w, "place")' /\ OwnKey(w)'
        BY <1>0, <1>1, <1>2, <1>8 DEF CallOK, IsNew, OwnId, OwnKey, Cached
      <3> QED
        BY <1>0, <1>1, <1>2, <1>8, <3>1 DEF CallOK, IsNew, Told
    <2>3. HasVars(w)'
      BY <1>1, <1>2, <1>3, <1>8 DEF HasVars
    <2>4. HasGear(w)' /\ HasPlace(w)'
      BY <1>2 DEF HasGear, HasPlace, Equipped
    <2> QED
      BY <2>1, <2>2, <2>3, <2>4 DEF CallOK
  <1>10. CallsInv'
    BY <1>0, <1>2, <1>7, <1>9, CallsStep
  <1>11. LiveLinked' /\ GearOfLiving'
    BY <1>1, <1>5, LiveLinkedStep, GearStep
  <1> QED
    BY <1>4, <1>5, <1>6, <1>10, <1>11 DEF IInv

\* killChar lets all characters with the same gear die, and records who is
\* about to be given it (mysql.cpp:1744-1789).
LEMMA KillStep ==
    ASSUME IInv, NEW w \in Worker, Kill(w)
    PROVE  IInv'
  <1> DEFINE u == call[w].key[1]
             g == IF u \in DOMAIN db["place"] THEN db["place"][u].up ELSE NoUuid
             hit == {r \in live : db["place"][r[2]].up = g}
  <1>1. /\ UNCHANGED << db, linked, cache, last, stale, astray >>
        /\ live' = live \ hit /\ dead' = dead \cup hit
        /\ raced' = IF Reusing(g) THEN raced \cup {g} ELSE raced
        /\ Goes(w, "idle") /\ "idle" \in Place
    BY DEF Kill, counters, Place
  <1>2. /\ call' \in [Worker -> [at : Place, key : Key \cup {NoKey}]]
        /\ call'[w].at = "idle"
        /\ \A v \in Worker \ {w} : call'[v] = call[v]
    BY <1>1, GoesFacts DEF IInv
  <1>3. Reusing(g) => g \in Uuid
    <2> SUFFICES ASSUME NEW v \in Worker, call[v].at \in Equipped,
                        Entry(v).id["gear"] = g
                 PROVE  g \in Uuid
      BY DEF Reusing, At, Equipped
    <2>1. g \in DOMAIN db["gear"]
      BY DEF IInv, CallsInv, CallOK, HasGear
    <2> QED
      BY <2>1 DEF IInv, TypeOK, Part
  <1> HIDE DEF g
  <1>4. TypeOK'
    BY <1>1, <1>2, <1>3 DEF IInv, TypeOK, Cached
  <1>5. /\ RowsKept /\ EntriesKept(w) /\ IdsFrom(w)
        /\ EntriesInv' /\ Coherent' /\ OwnRows'
    BY <1>1, <1>2, NoDataStep
  <1>6. RowsInv'
    BY <1>1 DEF IInv, RowsInv
  <1>7. StepFrame(w)
    <2>1. ToldFrom(w)
      BY <1>1 DEF ToldFrom, Told
    <2>2. DeadRaced
      <3> SUFFICES ASSUME NEW q \in hit, NEW v \in Worker,
                          call[v].at \in Equipped,
                          Entry(v).id["gear"] = db["place"][q[2]].up
                   PROVE  Entry(v).id["gear"] \in raced'
        BY <1>1 DEF DeadRaced
      <3>1. Entry(v).id["gear"] = g
        OBVIOUS
      <3>2. Reusing(g)
        BY <3>1 DEF Reusing, At, Equipped
      <3> QED
        BY <1>1, <3>1, <3>2
    <2> QED
      BY <1>1, <1>2, <1>5, <2>1, <2>2 DEF StepFrame
  <1>8. CallsInv'
    BY <1>2, <1>7, QuietCallOK, CallsStep DEF Creating
  <1>9. LiveLinked'
    BY <1>1, <1>5, LiveLinkedStep
  <1>10. GearOfLiving'
    <2> SUFFICES ASSUME NEW r \in live', NEW q \in dead',
                        db["place"][r[2]].up = db["place"][q[2]].up
                 PROVE  db["place"][r[2]].up \in raced'
      BY <1>1 DEF GearOfLiving
    <2>1. q \in dead /\ r \in live
      BY <1>1
    <2> QED
      BY <1>1, <2>1 DEF IInv, GearOfLiving
  <1> QED
    BY <1>4, <1>5, <1>6, <1>8, <1>9, <1>10 DEF IInv

\* The last statement of createChar: the character lives
\* (mysql.cpp:1671-1677).
LEMMA InsertLiveStep ==
    ASSUME IInv, NEW w \in Worker, InsertLive(w)
    PROVE  IInv'
  <1> DEFINE s == ServerOf[w]
             u == call[w].key[1]
             id == Entry(w).id
  <1>0. /\ CallOK(w) /\ TypeOK /\ call[w].at = "insertlive"
        /\ call[w].at \in Creating
    BY DEF IInv, CallsInv, InsertLive, At, Creating
  <1>1. s \in World /\ call[w].key \in Key /\ id["place"] = u
    BY <1>0, EntryType DEF IsNew, CallOK
  <1>2. /\ u \in DOMAIN db["place"] /\ u \in Uuid
        /\ db["place"][u].up = id["gear"]
        /\ id["gear"] \in DOMAIN db["gear"]
        /\ OneLink => db["gear"][id["gear"]].up = id["vars"]
        /\ \A q \in dead : db["place"][q[2]].up = id["gear"]
                               => id["gear"] \in raced
        /\ << s, id["vars"] >> \in linked
    BY <1>0 DEF CallOK, HasPlace, HasGear, HasVars, Equipped, Creating, TypeOK,
                Part
  <1>3. /\ UNCHANGED << db, linked, cache, last, stale, dead, raced, astray >>
        /\ live' = live \cup {<< s, u >>}
        /\ Goes(w, "idle") /\ "idle" \in Place
    BY <1>1 DEF InsertLive, counters, history, Place
  <1>4. /\ call' \in [Worker -> [at : Place, key : Key \cup {NoKey}]]
        /\ call'[w].at = "idle"
        /\ \A v \in Worker \ {w} : call'[v] = call[v]
    BY <1>0, <1>3, GoesFacts
  <1> HIDE DEF id, u, s
  <1>5. TypeOK'
    BY <1>0, <1>1, <1>2, <1>3, <1>4 DEF TypeOK, Cached
  <1>6. /\ RowsKept /\ EntriesKept(w) /\ IdsFrom(w)
        /\ EntriesInv' /\ Coherent' /\ OwnRows'
    BY <1>3, <1>4, NoDataStep
  <1>7. RowsInv'
    BY <1>2, <1>3 DEF IInv, RowsInv
  <1>8. StepFrame(w)
    <2>1. ToldFrom(w)
      BY <1>0, <1>3 DEF ToldFrom, Told, u
    <2>2. DeadRaced
      BY <1>3 DEF DeadRaced
    <2> QED
      BY <1>3, <1>4, <1>6, <2>1, <2>2 DEF StepFrame
  <1>9. CallsInv'
    BY <1>4, <1>8, QuietCallOK, CallsStep DEF Creating
  <1>10. LiveLinked'
    <2>1. ASSUME OneLink', NEW r \in live', r \notin live
          PROVE  << r[1], RowsOf(r[2])'["vars"] >> \in linked'
      <3>1. r[1] = s /\ r[2] = u
        BY <1>3, <2>1
      <3>2. RowsOf(r[2])' = RowsOf(r[2])
        BY <1>2, <1>6, <3>1, RowsOfKept
      <3>3. RowsOf(r[2])["vars"] = db["gear"][id["gear"]].up
        BY <1>2, <3>1, RowsOfFacts
      <3>4. db["gear"][id["gear"]].up = id["vars"]
        BY <1>2, <1>3, <2>1 DEF OneLink
      <3> QED
        BY <1>2, <1>3, <3>1, <3>2, <3>3, <3>4
    <2> QED
      BY <1>3, <1>6, <2>1, LiveLinkedStep
  <1>11. GearOfLiving'
    BY <1>2, <1>3 DEF IInv, GearOfLiving
  <1> QED
    BY <1>5, <1>6, <1>7, <1>9, <1>10, <1>11 DEF IInv

------------------------------------------------------------------------------
(* Steps that fill one entry of the cache.                                  *)

EntryTypes == [val : [Part -> Value \cup {Null}], id : [Part -> Uuid \cup {NoUuid}]]

\* The worker's step fills the entry k of the server s with e.  The entry has
\* the character's own uuid or none, has the rows he is loaded from, or is
\* recorded as astray, and shows what they have, or is recorded as stale.
Fills(w, s, k, e) ==
    /\ SetEntry(s, k, e) /\ UNCHANGED << tables, raced >>
    /\ call' \in [Worker -> [at : Place, key : Key \cup {NoKey}]]
    /\ \A v \in Worker \ {w} : call'[v] = call[v]
    /\ last' \in 0..MaxUuid /\ last <= last'
    /\ stale' \subseteq World \X Key \X Part
    /\ astray' \subseteq World \X Key \X Part
    \* the entry belongs to no other call of createChar
    /\ \A v \in Worker \ {w} :
          call[v].at \in Creating => ~(ServerOf[v] = s /\ call[v].key = k)
    \* its uuids
    /\ k[1] <= last' /\ e.id["place"] \in {k[1], NoUuid}
    /\ k \in Cached(s) \/ k[1] \in Told \/ k[1] = last + 1
    /\ \A p \in Part :
          /\ e.id[p] <= last'
          /\ \/ e.id[p] = NoUuid \/ e.id[p] = last + 1
             \/ e.id[p] \in DOMAIN db[p]
             \/ k \in Cached(s) /\ e.id[p] = cache[s][k].id[p]
    /\ \A p \in Part :
          OneLink /\ k[1] \in DOMAIN db["place"] /\ << s, k, p >> \notin astray'
             => e.id[p] = RowsOf(k[1])[p]
    \* its values
    /\ \A p \in Part :
          e.id[p] \in DOMAIN db[p] /\ << s, k, p >> \notin stale'
             => e.val[p] = db[p][e.id[p]].val
    /\ \A t \in World, j \in Key, p \in Part :
          << t, j >> # << s, k >>
             => /\ << t, j, p >> \in stale => << t, j, p >> \in stale'
                /\ << t, j, p >> \in astray => << t, j, p >> \in astray'

\* Such a step keeps every invariant that is not about the worker's own call.
LEMMA FillStep ==
    ASSUME IInv, NEW w \in Worker, NEW s \in World, NEW k \in Key,
           NEW e \in EntryTypes, Fills(w, s, k, e)
    PROVE  /\ TypeOK' /\ StepFrame(w)
           /\ RowsInv' /\ EntriesInv' /\ Coherent' /\ OwnRows' /\ LiveLinked'
           /\ GearOfLiving'
  <1> USE DEF Fills
  <1>0. TypeOK
    BY DEF IInv
  <1>1. /\ DOMAIN cache' = World
        /\ Cached(s)' = Cached(s) \cup {k}
        /\ \A t \in World : t # s => cache'[t] = cache[t] /\ Cached(t)' = Cached(t)
        /\ cache'[s][k] = e
        /\ \A j \in Cached(s) : j # k => cache'[s][j] = cache[s][j]
    BY <1>0, SetEntryFacts DEF Cached
  <1>2. UNCHANGED << db, linked, live, dead >>
    BY DEF tables
  <1>3. TypeOK'
    <2>1. \A t \in World : Cached(t)' \subseteq Key
      BY <1>0, <1>1 DEF TypeOK
    <2>2. \A t \in World : \A j \in Cached(t)' : cache'[t][j] \in EntryTypes
      <3>1. \A t \in World : \A j \in Cached(t) : cache[t][j] \in EntryTypes
        BY <1>0 DEF TypeOK, EntryTypes
      <3> SUFFICES ASSUME NEW t \in World, NEW j \in Cached(t)'
                   PROVE  cache'[t][j] \in EntryTypes
        OBVIOUS
      <3>2. CASE t = s /\ j = k
        BY <1>1, <3>2
      <3>3. CASE ~(t = s /\ j = k)
        BY <1>1, <3>1, <3>3
      <3> QED
        BY <3>2, <3>3
    <2>3. /\ DOMAIN db' = Part
          /\ \A p \in Part : DOMAIN db'[p] \subseteq Uuid
          /\ \A p \in Part : \A u \in DOMAIN db'[p] :
                db'[p][u] \in [val : Value \cup {Null}, up : Uuid \cup {NoUuid}]
          /\ linked' \subseteq World \X Uuid
          /\ live' \subseteq World \X Uuid /\ dead' \subseteq World \X Uuid
          /\ raced' \subseteq Uuid
      BY <1>0, <1>2 DEF TypeOK
    <2> QED
      BY <1>1, <2>1, <2>2, <2>3 DEF TypeOK, EntryTypes
  <1>4. RowsKept
    BY <1>2 DEF RowsKept
  <1>5. EntriesKept(w)
    <2>1. \A t \in World : \A j \in Cached(t) : j \in Cached(t)'
      BY <1>1
    <2>2. ASSUME NEW v \in Worker \ {w}, call[v].at \in Creating
          PROVE  cache'[ServerOf[v]][call[v].key] = Entry(v)
      <3>1. HasEntry(v)
        BY DEF IInv, CallsInv, CallOK
      <3>2. ServerOf[v] \in World /\ call[v].key \in Cached(ServerOf[v])
        BY <2>2, <3>1 DEF HasEntry
      <3> QED
        BY <1>1, <2>2, <3>2 DEF Entry
    <2>3. \A t \in World : \A j \in Cached(t)' :
             j \in Cached(t) \/ j[1] \in Told \/ j[1] = last + 1
      BY <1>1
    <2> QED
      BY <2>1, <2>2, <2>3 DEF EntriesKept
  <1>6. IdsFrom(w)
    <2>1. ASSUME NEW t \in World, NEW j \in Cached(t)', NEW p \in Part
          PROVE  LET u == cache'[t][j].id[p] IN
                 \/ u = NoUuid \/ u = last + 1 \/ u \in DOMAIN db[p]
                 \/ j \in Cached(t) /\ u = cache[t][j].id[p]
      <3>1. CASE t = s /\ j = k
        BY <1>1, <3>1
      <3>2. CASE ~(t = s /\ j = k)
        BY <1>1, <3>2
      <3> QED
        BY <3>1, <3>2
    <2> QED
      BY <1>2, <2>1 DEF IdsFrom
  <1>7. StepFrame(w)
    BY <1>2, <1>4, <1>5, <1>6 DEF StepFrame, ToldFrom, Told, DeadRaced
  <1>8. RowsInv'
    <2>1. \A p \in Part : \A u \in DOMAIN db[p] : u \in Nat
      BY <1>0 DEF TypeOK, Uuid
    <2>2. last \in Nat /\ last' \in Nat
      BY <1>0 DEF TypeOK
    <2>3. \A p \in Part : \A u \in DOMAIN db[p] : u <= last'
      BY <2>1, <2>2 DEF IInv, RowsInv
    <2> QED
      BY <1>2, <2>3 DEF IInv, RowsInv
  <1>9. EntriesInv'
    <2> SUFFICES ASSUME NEW t \in World, NEW j \in Cached(t)'
                 PROVE  /\ j[1] <= last'
                        /\ cache'[t][j].id["place"] \in {j[1], NoUuid}
                        /\ \A p \in Part : cache'[t][j].id[p] <= last'
      BY DEF EntriesInv
    <2>1. CASE t = s /\ j = k
      BY <1>1, <2>1
    <2>2. CASE ~(t = s /\ j = k)
      <3>1. j \in Cached(t) /\ cache'[t][j] = cache[t][j]
        BY <1>1, <2>2
      <3>2. /\ j[1] <= last /\ cache[t][j].id["place"] \in {j[1], NoUuid}
            /\ \A p \in Part : cache[t][j].id[p] <= last
        BY <3>1 DEF IInv, EntriesInv
      <3>3. /\ last \in Nat /\ last' \in Nat /\ j[1] \in Nat
            /\ \A p \in Part : cache[t][j].id[p] \in Nat
        BY <1>0, <3>1 DEF TypeOK, Key, Uuid, NoUuid
      <3> QED
        BY <3>1, <3>2, <3>3
    <2> QED
      BY <2>1, <2>2
  <1>10. Coherent'
    <2> SUFFICES ASSUME NEW t \in World, NEW j \in Cached(t)', NEW p \in Part,
                        cache'[t][j].id[p] \in DOMAIN db[p],
                        << t, j, p >> \notin stale'
                 PROVE  cache'[t][j].val[p] = db[p][cache'[t][j].id[p]].val
      BY <1>2 DEF Coherent
    <2>1. CASE t = s /\ j = k
      BY <1>1, <2>1
    <2>2. CASE ~(t = s /\ j = k)
      <3>1. j \in Cached(t) /\ cache'[t][j] = cache[t][j] /\ j \in Key
        BY <1>0, <1>1, <2>2 DEF TypeOK
      <3>2. << t, j, p >> \notin stale
        BY <2>2, <3>1
      <3> QED
        BY <3>1, <3>2 DEF IInv, Coherent
    <2> QED
      BY <2>1, <2>2
  <1>11. OwnRows'
    <2>1. ASSUME OneLink', NEW t \in World, NEW j \in Cached(t)', NEW p \in Part,
                 j[1] \in DOMAIN db'["place"], << t, j, p >> \notin astray'
          PROVE  \/ /\ j \in Cached(t) /\ j[1] \in DOMAIN db["place"]
                    /\ << t, j, p >> \notin astray
                    /\ cache'[t][j].id[p] = cache[t][j].id[p]
                 \/ cache'[t][j].id[p] = RowsOf(j[1])'[p]
      <3>1. CASE t = s /\ j = k
        <4>1. e.id[p] = RowsOf(k[1])[p]
          BY <1>2, <2>1, <3>1 DEF OneLink
        <4>2. RowsOf(j[1])' = RowsOf(j[1])
          BY <1>2, <1>4, <2>1, RowsOfKept
        <4> QED
          BY <1>1, <3>1, <4>1, <4>2
      <3>2. CASE ~(t = s /\ j = k)
        <4>1. j \in Cached(t) /\ cache'[t][j] = cache[t][j] /\ j \in Key
          BY <1>0, <1>1, <3>2 DEF TypeOK
        <4> QED
          BY <1>2, <2>1, <3>2, <4>1
      <3> QED
        BY <3>1, <3>2
    <2> QED
      BY <1>2, <1>4, <2>1, OwnRowsStep
  <1>12. LiveLinked' /\ GearOfLiving'
    BY <1>2, <1>4, LiveLinkedStep, GearStep
  <1> QED
    BY <1>3, <1>7, <1>8, <1>9, <1>10, <1>11, <1>12

\* The rows that a live character is loaded from are there.
LEMMA RowsOfThere ==
    ASSUME IInv, NEW u \in DOMAIN db["place"]
    PROVE  \A p \in Part : RowsOf(u)[p] \in DOMAIN db[p] /\ RowsOf(u)[p] \in Uuid
  <1>1. /\ RowsOf(u)["place"] \in DOMAIN db["place"]
        /\ RowsOf(u)["gear"] \in DOMAIN db["gear"]
        /\ RowsOf(u)["vars"] \in DOMAIN db["vars"]
    BY RowsOfFacts DEF IInv, RowsInv
  <1>2. \A p \in Part : DOMAIN db[p] \subseteq Uuid
    BY DEF IInv, TypeOK
  <1> QED
    BY <1>1, <1>2 DEF Part

\* A character the game was told of is not one that is being made.
LEMMA ToldNotNew ==
    ASSUME IInv, NEW k, k[1] \in Told, NEW v \in Worker,
           call[v].at \in Creating
    PROVE  call[v].key # k
  BY DEF IInv, CallsInv, CallOK, IsNew

\* loadChar fills the entry from the rows (mysql.cpp:1423-1483).
LEMMA LoadCharStep ==
    ASSUME IInv, NEW w \in Worker, NEW u \in Uuid, LoadChar(w, u)
    PROVE  IInv'
  <1> DEFINE s == ServerOf[w]
             k == << u, "upper" >>
             e == [val |-> [p \in Part |-> db[p][RowsOf(u)[p]].val],
                   id |-> RowsOf(u)]
  <1>0. TypeOK /\ call \in [Worker -> [at : Place, key : Key \cup {NoKey}]]
        /\ call[w].at = "idle"
    BY DEF IInv, TypeOK, LoadChar, Loads, At
  <1>1. /\ SetEntry(s, k, e) /\ << s, u >> \in live
        /\ stale' = stale \ Marks(s, k, Part) /\ astray' = astray \ Marks(s, k, Part)
        /\ UNCHANGED << tables, call, last, raced >>
    BY DEF LoadChar, Loads, counters
  <1>2. u \in DOMAIN db["place"] /\ u \in Told
    BY <1>1 DEF IInv, RowsInv, Told
  <1>3. /\ \A p \in Part : e.id[p] \in DOMAIN db[p] /\ e.id[p] \in Uuid
        /\ DOMAIN e.id = Part /\ e.id["place"] = u /\ e.id = RowsOf(u)
    BY <1>2, RowsOfThere, RowsOfFacts
  <1>4. \A p \in Part : /\ e.val[p] = db[p][e.id[p]].val
                        /\ e.val[p] \in Value \cup {Null}
    BY <1>0, <1>3 DEF TypeOK
  <1>5. e \in EntryTypes
    <2>1. e.id \in [Part -> Uuid \cup {NoUuid}]
      BY <1>3 DEF RowsOf
    <2>2. e.val \in [Part -> Value \cup {Null}]
      BY <1>4
    <2> QED
      BY <2>1, <2>2 DEF EntryTypes
  <1>6. s \in World /\ k \in Key /\ k[1] = u
    BY DEF Key, Form
  <1> HIDE DEF s, k, e
  <1>7. \A v \in Worker \ {w} :
           call[v].at \in Creating => ~(ServerOf[v] = s /\ call[v].key = k)
    BY <1>2, <1>6, ToldNotNew
  <1>8. /\ last' \in 0..MaxUuid /\ last <= last' /\ k[1] <= last'
        /\ \A p \in Part : e.id[p] <= last'
    BY <1>0, <1>1, <1>2, <1>3, <1>6, BoundAssumption
       DEF IInv, RowsInv, TypeOK, Part
  <1>9. /\ stale' \subseteq World \X Key \X Part
        /\ astray' \subseteq World \X Key \X Part
        /\ \A t \in World, j \in Key, p \in Part :
              << t, j >> # << s, k >>
                 => /\ << t, j, p >> \in stale => << t, j, p >> \in stale'
                    /\ << t, j, p >> \in astray => << t, j, p >> \in astray'
    BY <1>0, <1>1, MarksFacts DEF TypeOK
  <1>10. /\ e.id["place"] \in {k[1], NoUuid}
         /\ k \in Cached(s) \/ k[1] \in Told \/ k[1] = last + 1
         /\ \A p \in Part :
               /\ e.id[p] <= last'
               /\ \/ e.id[p] = NoUuid \/ e.id[p] = last + 1
                  \/ e.id[p] \in DOMAIN db[p]
                  \/ k \in Cached(s) /\ e.id[p] = cache[s][k].id[p]
         /\ \A p \in Part :
               OneLink /\ k[1] \in DOMAIN db["place"] /\ << s, k, p >> \notin astray'
                  => e.id[p] = RowsOf(k[1])[p]
         /\ \A p \in Part :
               e.id[p] \in DOMAIN db[p] /\ << s, k, p >> \notin stale'
                  => e.val[p] = db[p][e.id[p]].val
    BY <1>2, <1>3, <1>4, <1>6, <1>8
  <1>11. /\ SetEntry(s, k, e) /\ UNCHANGED << tables, raced >>
         /\ \A v \in Worker \ {w} : call'[v] = call[v]
         /\ call' \in [Worker -> [at : Place, key : Key \cup {NoKey}]]
    BY <1>0, <1>1
  <1>12. /\ TypeOK' /\ StepFrame(w)
         /\ RowsInv' /\ EntriesInv' /\ Coherent' /\ OwnRows' /\ LiveLinked'
         /\ GearOfLiving'
    <2>1. Fills(w, s, k, e)
      BY <1>7, <1>8, <1>9, <1>10, <1>11 DEF Fills
    <2> QED
      BY <1>5, <1>6, <2>1, FillStep
  <1>13. CallsInv'
    BY <1>0, <1>1, <1>12, QuietCallOK, CallsStep DEF Creating
  <1> QED
    BY <1>12, <1>13 DEF IInv

\* A loadChar that breaks off leaves an entry without uuids, or with the old
\* ones, and a place that is recorded as stale (mysql.cpp:1462-1472).
LEMMA LoadBreaksStep ==
    ASSUME IInv, NEW w \in Worker, NEW u \in Uuid, LoadBreaks(w, u)
    PROVE  IInv'
  <1> DEFINE s == ServerOf[w]
             k == << u, "upper" >>
             base == IF k \in Cached(s) THEN cache[s][k] ELSE Unfilled
  <1>0. TypeOK /\ call \in [Worker -> [at : Place, key : Key \cup {NoKey}]]
        /\ call[w].at = "idle"
    BY DEF IInv, TypeOK, LoadBreaks, At
  <1>1. PICK v \in Value \cup {Null} : SetEntry(s, k, [base EXCEPT !.val["place"] = v])
    BY NumberAssumption DEF LoadBreaks
  <1> DEFINE e == [base EXCEPT !.val["place"] = v]
  <1>2. /\ SetEntry(s, k, e) /\ << s, u >> \in live
        /\ stale' = stale \cup Marks(s, k, {"place"})
        /\ astray' = IF k \in Cached(s) THEN astray ELSE astray \cup Marks(s, k, Part)
        /\ UNCHANGED << tables, call, last, raced >>
    BY <1>1 DEF LoadBreaks
  <1>3. u \in DOMAIN db["place"] /\ u \in Told
    BY <1>2 DEF IInv, RowsInv, Told
  <1>4. s \in World /\ k \in Key /\ k[1] = u
    BY DEF Key, Form
  <1>5. base \in EntryTypes
    BY <1>0, <1>4 DEF TypeOK, EntryTypes, Unfilled
  <1>6. /\ e \in EntryTypes /\ e.id = base.id
        /\ \A p \in Part : p # "place" => e.val[p] = base.val[p]
    BY <1>5 DEF EntryTypes
  <1>7. /\ k \in Cached(s) => base = cache[s][k]
        /\ k \notin Cached(s) => \A p \in Part : base.id[p] = NoUuid
    BY DEF Unfilled
  <1>8. "place" \in Part /\ NoUuid = 0 /\ last \in Nat
    BY <1>0, BoundAssumption DEF Part, NoUuid, TypeOK
  <1> HIDE DEF s, k, e, base
  <1>9. \A o \in Worker \ {w} :
           call[o].at \in Creating => ~(ServerOf[o] = s /\ call[o].key = k)
    BY <1>3, <1>4, ToldNotNew
  <1>10. /\ last' \in 0..MaxUuid /\ last <= last' /\ k[1] <= last'
         /\ e.id["place"] \in {k[1], NoUuid} /\ k[1] \in Told
         /\ \A p \in Part : e.id[p] <= last'
    <2>1. last' = last /\ last \in 0..MaxUuid /\ k[1] <= last
      BY <1>0, <1>2, <1>3, <1>4, <1>8 DEF IInv, RowsInv, TypeOK
    <2>2. CASE k \in Cached(s)
      BY <1>3, <1>4, <1>6, <1>7, <1>8, <2>1, <2>2 DEF IInv, EntriesInv
    <2>3. CASE k \notin Cached(s)
      BY <1>3, <1>4, <1>6, <1>7, <1>8, <2>1, <2>3
    <2> QED
      BY <2>2, <2>3
  <1>11. \A p \in Part :
            \/ e.id[p] = NoUuid
            \/ k \in Cached(s) /\ e.id[p] = cache[s][k].id[p]
    BY <1>6, <1>7
  <1>12. /\ stale' \subseteq World \X Key \X Part
         /\ astray' \subseteq World \X Key \X Part
         /\ \A t \in World, j \in Key, p \in Part :
               /\ << t, j, p >> \in stale => << t, j, p >> \in stale'
               /\ << t, j, p >> \in astray => << t, j, p >> \in astray'
    BY <1>0, <1>2, <1>4, <1>8 DEF TypeOK, Marks
  <1>13. ASSUME NEW p \in Part, OneLink, << s, k, p >> \notin astray'
         PROVE  e.id[p] = RowsOf(k[1])[p]
    <2>1. k \in Cached(s) /\ << s, k, p >> \notin astray
      BY <1>2, <1>13, MarksFacts
    <2> QED
      BY <1>3, <1>4, <1>6, <1>7, <1>13, <2>1 DEF IInv, OwnRows
  <1>14. ASSUME NEW p \in Part, e.id[p] \in DOMAIN db[p], << s, k, p >> \notin stale'
         PROVE  e.val[p] = db[p][e.id[p]].val
    <2>1. p # "place" /\ << s, k, p >> \notin stale
      BY <1>2, <1>14, MarksFacts
    <2>2. k \in Cached(s)
      <3>1. NoUuid \notin DOMAIN db[p]
        BY <1>0, <1>8 DEF TypeOK, Uuid
      <3> QED
        BY <1>6, <1>7, <1>14, <3>1
    <2> QED
      BY <1>4, <1>6, <1>7, <1>14, <2>1, <2>2 DEF IInv, Coherent
  <1>15. /\ k \in Cached(s) \/ k[1] \in Told \/ k[1] = last + 1
         /\ \A p \in Part :
               /\ e.id[p] <= last'
               /\ \/ e.id[p] = NoUuid \/ e.id[p] = last + 1
                  \/ e.id[p] \in DOMAIN db[p]
                  \/ k \in Cached(s) /\ e.id[p] = cache[s][k].id[p]
         /\ \A p \in Part :
               OneLink /\ k[1] \in DOMAIN db["place"] /\ << s, k, p >> \notin astray'
                  => e.id[p] = RowsOf(k[1])[p]
         /\ \A p \in Part :
               e.id[p] \in DOMAIN db[p] /\ << s, k, p >> \notin stale'
                  => e.val[p] = db[p][e.id[p]].val
         /\ \A t \in World, j \in Key, p \in Part :
               << t, j >> # << s, k >>
                  => /\ << t, j, p >> \in stale => << t, j, p >> \in stale'
                     /\ << t, j, p >> \in astray => << t, j, p >> \in astray'
    BY <1>10, <1>11, <1>12, <1>13, <1>14
  <1>16. /\ SetEntry(s, k, e) /\ UNCHANGED << tables, raced >>
         /\ \A o \in Worker \ {w} : call'[o] = call[o]
         /\ call' \in [Worker -> [at : Place, key : Key \cup {NoKey}]]
    BY <1>0, <1>2
  <1>17. /\ TypeOK' /\ StepFrame(w)
         /\ RowsInv' /\ EntriesInv' /\ Coherent' /\ OwnRows' /\ LiveLinked'
         /\ GearOfLiving'
    <2>1. Fills(w, s, k, e)
      BY <1>9, <1>10, <1>12, <1>15, <1>16 DEF Fills
    <2> QED
      BY <1>4, <1>6, <2>1, FillStep
  <1>18. CallsInv'
    BY <1>0, <1>2, <1>17, QuietCallOK, CallsStep DEF Creating
  <1> QED
    BY <1>17, <1>18 DEF IInv

\* The uuids that an updateChar may leave in the entry are rows', none, or
\* the ones there before.
LEMMA NamedFacts ==
    ASSUME IInv, NEW s \in World, NEW k \in Cached(s), k[1] \in Told,
           NEW n \in Named(s, k)
    PROVE  /\ n \in [Part -> Uuid \cup {NoUuid}]
           /\ n["place"] \in {k[1], NoUuid}
           /\ \A p \in Part : \/ n[p] = NoUuid \/ n[p] \in DOMAIN db[p]
                              \/ n[p] = cache[s][k].id[p]
  <1>1. /\ n \in [place : {k[1], NoUuid},
                  gear : {cache[s][k].id["gear"], NoUuid} \cup DOMAIN db["gear"],
                  vars : {cache[s][k].id["vars"], NoUuid} \cup DOMAIN db["vars"]]
    BY DEF Named
  <1>2. DOMAIN n = Part
    BY <1>1 DEF Part
  <1>3. /\ n["place"] \in {k[1], NoUuid}
        /\ n["gear"] \in {cache[s][k].id["gear"], NoUuid} \cup DOMAIN db["gear"]
        /\ n["vars"] \in {cache[s][k].id["vars"], NoUuid} \cup DOMAIN db["vars"]
    BY <1>1
  <1>4. k[1] \in DOMAIN db["place"]
    BY DEF IInv, RowsInv, Told
  <1>5. \A p \in Part : \/ n[p] = NoUuid \/ n[p] \in DOMAIN db[p]
                        \/ n[p] = cache[s][k].id[p]
    BY <1>3, <1>4 DEF Part
  <1>6. \A p \in Part : /\ DOMAIN db[p] \subseteq Uuid
                        /\ cache[s][k].id[p] \in Uuid \cup {NoUuid}
    BY DEF IInv, TypeOK
  <1>7. \A p \in Part : n[p] \in Uuid \cup {NoUuid}
    BY <1>5, <1>6
  <1>8. n = [p \in Part |-> n[p]]
    BY <1>1, <1>2
  <1> QED
    BY <1>3, <1>5, <1>7, <1>8

\* updateChar writes its arguments into the entry (mysql.cpp:1684-1695).
LEMMA StartUpdateStep ==
    ASSUME IInv, NEW w \in Worker, NEW k, NEW g \in Change, k[1] \in Told,
           k \in Cached(ServerOf[w]), NEW n \in Named(ServerOf[w], k),
           StartUpdate(w, k, g, n)
    PROVE  IInv'
  <1> DEFINE s == ServerOf[w]
             old == cache[s][k]
             e == [val |-> [p \in Part |-> IF p \in DOMAIN g THEN g[p] ELSE old.val[p]],
                   id |-> n]
  <1>0. TypeOK /\ s \in World
    BY DEF IInv
  <1>1. /\ SetEntry(s, k, e) /\ k \in Cached(s) /\ call[w].at = "idle"
        /\ Begins(w, "place", k) /\ "place" \in Place
        /\ stale' = stale \cup Marks(s, k, DOMAIN g \cup {p \in Part : n[p] # old.id[p]})
        /\ astray' = (astray \ Marks(s, k, Part))
                         \cup Marks(s, k, {p \in Part : n[p] # RowsOf(k[1])[p]})
        /\ UNCHANGED << tables, last, raced >>
    BY DEF StartUpdate, At, Place
  <1>2. k \in Key /\ old \in EntryTypes
    BY <1>0, <1>1 DEF TypeOK, EntryTypes
  <1>3. /\ call' \in [Worker -> [at : Place, key : Key \cup {NoKey}]]
        /\ call'[w].at = "place" /\ call'[w].key = k
        /\ \A v \in Worker \ {w} : call'[v] = call[v]
    BY <1>0, <1>1, <1>2, BeginsFacts
  <1>4. /\ n \in [Part -> Uuid \cup {NoUuid}] /\ n["place"] \in {k[1], NoUuid}
        /\ \A p \in Part : n[p] = NoUuid \/ n[p] \in DOMAIN db[p] \/ n[p] = old.id[p]
    BY <1>0, <1>1, NamedFacts
  <1>5. /\ e.id = n
        /\ \A p \in Part : e.val[p] = IF p \in DOMAIN g THEN g[p] ELSE old.val[p]
        /\ e \in EntryTypes
    BY <1>2, <1>4, GiveAssumption DEF EntryTypes
  <1>6. DOMAIN g \subseteq Part
    BY GiveAssumption
  <1>7. \A p \in Part : old.id[p] <= last
    BY <1>0, <1>1 DEF IInv, EntriesInv
  <1>8. /\ k[1] <= last /\ last \in 0..MaxUuid /\ NoUuid = 0
        /\ \A p \in Part : \A u \in DOMAIN db[p] : u <= last
    BY <1>0, <1>1, BoundAssumption DEF IInv, EntriesInv, RowsInv, TypeOK, NoUuid
  <1> HIDE DEF e, s, old
  <1>9. \A v \in Worker \ {w} :
           call[v].at \in Creating => ~(ServerOf[v] = s /\ call[v].key = k)
    BY ToldNotNew
  <1>10. /\ last' \in 0..MaxUuid /\ last <= last' /\ k[1] <= last'
         /\ e.id["place"] \in {k[1], NoUuid}
         /\ \A p \in Part :
               /\ e.id[p] <= last'
               /\ \/ e.id[p] = NoUuid \/ e.id[p] \in DOMAIN db[p]
                  \/ k \in Cached(s) /\ e.id[p] = cache[s][k].id[p]
    BY <1>1, <1>4, <1>5, <1>7, <1>8, BoundAssumption DEF old
  <1>11. /\ stale' \subseteq World \X Key \X Part
         /\ astray' \subseteq World \X Key \X Part
    BY <1>0, <1>1, <1>2, <1>6 DEF TypeOK, Marks
  <1>12. \A t \in World, j \in Key, p \in Part :
            << t, j >> # << s, k >>
               => /\ << t, j, p >> \in stale => << t, j, p >> \in stale'
                  /\ << t, j, p >> \in astray => << t, j, p >> \in astray'
    BY <1>1, MarksFacts
  <1>13. \A p \in Part : << s, k, p >> \notin astray' => e.id[p] = RowsOf(k[1])[p]
    BY <1>1, <1>5, MarksFacts
  <1>14. ASSUME NEW p \in Part, e.id[p] \in DOMAIN db[p], << s, k, p >> \notin stale'
         PROVE  e.val[p] = db[p][e.id[p]].val
    <2>1. p \notin DOMAIN g /\ n[p] = old.id[p] /\ << s, k, p >> \notin stale
      BY <1>1, <1>14, MarksFacts
    <2> QED
      BY <1>0, <1>1, <1>5, <1>14, <2>1 DEF IInv, Coherent, old
  <1>15. /\ k \in Cached(s) \/ k[1] \in Told \/ k[1] = last + 1
         /\ \A p \in Part :
               /\ e.id[p] <= last'
               /\ \/ e.id[p] = NoUuid \/ e.id[p] = last + 1
                  \/ e.id[p] \in DOMAIN db[p]
                  \/ k \in Cached(s) /\ e.id[p] = cache[s][k].id[p]
         /\ \A p \in Part :
               OneLink /\ k[1] \in DOMAIN db["place"] /\ << s, k, p >> \notin astray'
                  => e.id[p] = RowsOf(k[1])[p]
         /\ \A p \in Part :
               e.id[p] \in DOMAIN db[p] /\ << s, k, p >> \notin stale'
                  => e.val[p] = db[p][e.id[p]].val
    BY <1>1, <1>10, <1>13, <1>14
  <1>16. /\ TypeOK' /\ StepFrame(w)
         /\ RowsInv' /\ EntriesInv' /\ Coherent' /\ OwnRows' /\ LiveLinked'
         /\ GearOfLiving'
    <2>1. SetEntry(s, k, e) /\ UNCHANGED << tables, raced >>
      BY <1>1
    <2>2. Fills(w, s, k, e)
      BY <1>3, <1>9, <1>10, <1>11, <1>12, <1>15, <2>1 DEF Fills
    <2> QED
      BY <1>0, <1>2, <1>5, <2>2, FillStep
  <1>17. CallOK(w)'
    <2>1. k \in Cached(s)'
      BY <1>0, <1>1, SetEntryFacts
    <2>2. HasEntry(w)'
      BY <1>3, <2>1 DEF HasEntry, s
    <2> QED
      BY <1>3, <2>2 DEF CallOK, IsNew, HasVars, HasGear, HasPlace, Creating,
                        Equipped
  <1>18. CallsInv'
    BY <1>3, <1>16, <1>17, CallsStep DEF Creating
  <1> QED
    BY <1>16, <1>18 DEF IInv

\* createChar finds no live character and puts a new one into the cache
\* (mysql.cpp:1491-1524).
LEMMA ExistingStep ==
    ASSUME IInv, NEW w \in Worker, NEW g \in New, Existing(w, g)
    PROVE  IInv'
  <1> DEFINE s == ServerOf[w]
             k == << last + 1, "lower" >>
             e == [val |-> [p \in Part |-> IF p \in DOMAIN g THEN g[p] ELSE Null],
                   id |-> [p \in Part |-> IF p = "place" THEN last + 1 ELSE NoUuid]]
  <1>0. TypeOK /\ s \in World
    BY DEF IInv
  <1>1. /\ SetEntry(s, k, e) /\ last < MaxUuid /\ last' = last + 1
        /\ Begins(w, "findvars", k) /\ "findvars" \in Place
        /\ UNCHANGED << tables, stale, raced, astray >>
    BY DEF Existing, history, Place
  <1>2. last + 1 \in Uuid /\ last \in Nat /\ k \in Key /\ k[1] = last + 1
    BY <1>0, <1>1, BoundAssumption DEF TypeOK, Uuid, Key, Form
  <1>3. /\ call' \in [Worker -> [at : Place, key : Key \cup {NoKey}]]
        /\ call'[w].at = "findvars" /\ call'[w].key = k
        /\ \A v \in Worker \ {w} : call'[v] = call[v]
    BY <1>0, <1>1, <1>2, BeginsFacts
  <1>4. /\ e \in EntryTypes /\ e.id["place"] = last + 1
        /\ \A p \in Part : e.id[p] \in {last + 1, NoUuid}
    BY <1>2, GiveAssumption DEF EntryTypes, Part
  <1> HIDE DEF e, s, k
  <1>5. \A p \in Part : \A u \in DOMAIN db[p] : u # last + 1 /\ u # NoUuid
    BY <1>0, <1>2 DEF IInv, RowsInv, TypeOK, Uuid, NoUuid
  <1>6. ASSUME NEW t \in World, NEW j \in Cached(t)
        PROVE  /\ j[1] # last + 1
               /\ \A p \in Part : cache[t][j].id[p] # last + 1
    <2>1. j[1] <= last /\ \A p \in Part : cache[t][j].id[p] <= last
      BY DEF IInv, EntriesInv
    <2>2. j[1] \in Nat /\ \A p \in Part : cache[t][j].id[p] \in Nat
      BY <1>0 DEF TypeOK, Key, Uuid, NoUuid
    <2> QED
      BY <1>2, <2>1, <2>2
  <1>7. ASSUME NEW v \in Worker \ {w}, call[v].at \in Creating
        PROVE  ~(ServerOf[v] = s /\ call[v].key = k)
    <2>1. HasEntry(v)
      BY DEF IInv, CallsInv, CallOK
    <2>2. ServerOf[v] \in World /\ call[v].key \in Cached(ServerOf[v])
      BY <1>7, <2>1 DEF HasEntry
    <2> QED
      BY <1>2, <1>6, <2>2
  <1>8. /\ last' \in 0..MaxUuid /\ last <= last' /\ k[1] <= last'
        /\ stale' \subseteq World \X Key \X Part
        /\ astray' \subseteq World \X Key \X Part
        /\ \A p \in Part : e.id[p] <= last'
    BY <1>0, <1>1, <1>2, <1>4, BoundAssumption DEF TypeOK, NoUuid
  <1>9. /\ TypeOK' /\ StepFrame(w)
        /\ RowsInv' /\ EntriesInv' /\ Coherent' /\ OwnRows' /\ LiveLinked'
        /\ GearOfLiving'
    <2>1. k[1] \notin DOMAIN db["place"]
          /\ \A p \in Part : e.id[p] \notin DOMAIN db[p]
      BY <1>2, <1>4, <1>5 DEF Part
    <2>2. \A p \in Part : e.id[p] = NoUuid \/ e.id[p] = last + 1
      BY <1>4
    <2>3. UNCHANGED << tables, raced >> /\ stale' = stale /\ astray' = astray
      BY <1>1
    <2>4. SetEntry(s, k, e)
      BY <1>1
    <2>5. Fills(w, s, k, e)
      BY <1>2, <1>3, <1>4, <1>7, <1>8, <2>1, <2>2, <2>3, <2>4 DEF Fills
    <2> QED
      BY <1>0, <1>2, <1>4, <2>5, FillStep
  <1>10. CallOK(w)'
    <2>1. /\ Cached(s)' = Cached(s) \cup {k} /\ cache'[s][k] = e
          /\ \A t \in World : t # s => cache'[t] = cache[t]
          /\ \A j \in Cached(s) : j # k => cache'[s][j] = cache[s][j]
      BY <1>0, <1>1, SetEntryFacts
    <2>2. HasEntry(w)'
      BY <1>3, <2>1 DEF HasEntry, s
    <2>3. Entry(w)' = e
      BY <1>3, <2>1 DEF Entry, s
    <2>4. OwnId(w, "place")'
      <3>1. last + 1 # NoUuid /\ last + 1 \notin DOMAIN db'["place"]
        BY <1>1, <1>2, <1>5 DEF tables, NoUuid, Part
      <3>2. ASSUME NEW t \in World, NEW j \in Cached(t)',
                   cache'[t][j].id["place"] = last + 1
            PROVE  t = s /\ j = k
        <4> SUFFICES ASSUME ~(t = s /\ j = k) PROVE FALSE
          OBVIOUS
        <4>1. j \in Cached(t) /\ cache'[t][j] = cache[t][j]
          BY <2>1 DEF Cached
        <4> QED
          BY <1>6, <3>2, <4>1 DEF Part
      <3> QED
        BY <1>3, <1>4, <2>3, <3>1, <3>2 DEF OwnId, s
    <2>5. last + 1 \notin Told'
      BY <1>1, <1>5 DEF IInv, RowsInv, Told, tables, Part
    <2>6. OwnKey(w)'
      <3> SUFFICES ASSUME NEW t \in World, NEW j \in Cached(t)', j[1] = last + 1
                   PROVE  t = s /\ j = k
        BY <1>2, <1>3 DEF OwnKey, s
      <3>1. t = s
        BY <1>6, <2>1 DEF Cached
      <3> QED
        BY <1>6, <2>1, <3>1
    <2>7. IsNew(w)'
      BY <1>2, <1>3, <1>4, <2>3, <2>4, <2>5, <2>6 DEF IsNew
    <2> QED
      BY <1>3, <2>2, <2>7 DEF CallOK, HasVars, HasGear, HasPlace, Equipped
  <1>11. CallsInv'
    BY <1>2, <1>3, <1>9, <1>10, CallsStep
  <1> QED
    BY <1>9, <1>11 DEF IInv

------------------------------------------------------------------------------
(* The statements of createChar that read.                                  *)

Making(w) == call[w].at \in Creating \ {"insertlive"}

\* The entry of a character that is being made belongs to this call only.
LEMMA OwnEntry ==
    ASSUME IInv, NEW w \in Worker, Making(w)
    PROVE  /\ TypeOK /\ CallOK(w)
           /\ ServerOf[w] \in World /\ call[w].key \in Key
           /\ call[w].key \in Cached(ServerOf[w])
           /\ Entry(w) = cache[ServerOf[w]][call[w].key]
           /\ Entry(w) \in EntryTypes
           /\ call[w].key[1] \notin DOMAIN db["place"]
           /\ call[w].key[1] <= last
           /\ Entry(w).id["place"] = call[w].key[1] /\ OwnKey(w)
           /\ \A p \in Part : Entry(w).id[p] <= last /\ Entry(w).id[p] \in Nat
           /\ \A v \in Worker \ {w} : call[v].at \in Creating =>
                 ~(ServerOf[v] = ServerOf[w] /\ call[v].key = call[w].key)
  <1>1. TypeOK /\ CallOK(w) /\ call[w].at \in Creating
    BY DEF IInv, CallsInv, Making
  <1>2. /\ ServerOf[w] \in World /\ call[w].key \in Key
        /\ call[w].key \in Cached(ServerOf[w])
        /\ Entry(w) = cache[ServerOf[w]][call[w].key]
        /\ Entry(w) \in EntryTypes
    BY <1>1, EntryType DEF CallOK, EntryTypes
  <1>3. /\ call[w].key[1] <= last
        /\ Entry(w).id["place"] = call[w].key[1]
        /\ \A p \in Part : Entry(w).id[p] <= last
    BY <1>1, <1>2 DEF IInv, EntriesInv, CallOK, IsNew
  <1>4. OwnId(w, "place") /\ OwnKey(w)
    BY <1>1 DEF CallOK, IsNew, Making
  <1>5. call[w].key[1] \notin DOMAIN db["place"]
    BY <1>3, <1>4 DEF OwnId
  <1>6. \A p \in Part : Entry(w).id[p] \in Nat
    BY <1>2 DEF EntryTypes, Uuid, NoUuid
  <1>7. \A v \in Worker \ {w} : call[v].at \in Creating =>
           ~(ServerOf[v] = ServerOf[w] /\ call[v].key = call[w].key)
    BY <1>1 DEF IInv, CallsInv, Apart
  <1> QED
    BY <1>1, <1>2, <1>3, <1>4, <1>5, <1>6, <1>7

\* A uuid that stays in the call's own entry, and becomes no row, stays its own.
LEMMA OwnIdKept ==
    ASSUME IInv, NEW w \in Worker, Making(w), NEW p \in Part, OwnId(w, p),
           IdsFrom(w), call'[w].key = call[w].key,
           Entry(w)'.id[p] = Entry(w).id[p],
           Entry(w).id[p] \notin DOMAIN db'[p]
    PROVE  OwnId(w, p)'
  <1> DEFINE u == Entry(w).id[p]
  <1>1. u \in Nat /\ u <= last /\ u # NoUuid /\ u \notin DOMAIN db[p] /\ last \in Nat
    BY OwnEntry DEF OwnId, TypeOK
  <1>2. ASSUME NEW t \in World, NEW j \in Cached(t)', cache'[t][j].id[p] = u
        PROVE  t = ServerOf[w] /\ j = call[w].key
    <2>1. j \in Cached(t) /\ u = cache[t][j].id[p]
      BY <1>1, <1>2 DEF IdsFrom
    <2> QED
      BY <2>1 DEF OwnId
  <1> QED
    BY <1>1, <1>2 DEF OwnId

\* Whoever is being made stays unknown to the game.
LEMMA StillNew ==
    ASSUME IInv, NEW w \in Worker, Making(w), IdsFrom(w), EntriesKept(w), ToldFrom(w),
           call'[w].key = call[w].key,
           Entry(w)'.id["place"] = Entry(w).id["place"],
           DOMAIN db'["place"] = DOMAIN db["place"]
    PROVE  /\ OwnId(w, "place")' /\ OwnKey(w)'
           /\ call[w].key[1] \notin Told'
           /\ Entry(w)'.id["place"] = call[w].key[1]
  <1>1. OwnId(w, "place") /\ call[w].key[1] \notin Told
    BY OwnEntry DEF CallOK, IsNew, Making
  <1>2. OwnId(w, "place")'
    BY <1>1, OwnIdKept DEF OwnId, Part
  <1>3. call[w].key[1] \notin Told'
    BY <1>1 DEF ToldFrom, Told, Making
  <1>4. call[w].key[1] # last + 1 /\ OwnKey(w)
    BY OwnEntry, NotYetNext DEF Making
  <1>5. OwnKey(w)'
    BY <1>1, <1>4 DEF OwnKey, EntriesKept
  <1> QED
    BY <1>2, <1>3, <1>5, OwnEntry

\* The entry's uuid of a part becomes that of a row, or a new one; the rest
\* of the entry stays.
LEMMA FindStep ==
    ASSUME IInv, NEW w \in Worker, Making(w), NEW p \in {"vars", "gear"},
           NEW found, found \subseteq DOMAIN db[p],
           NEW read \in Place \ {"idle"}, NEW insert \in Place \ {"idle"},
           Find(w, p, found, read, insert), UNCHANGED << tables, raced, astray >>
    PROVE  /\ TypeOK' /\ StepFrame(w)
           /\ RowsInv' /\ EntriesInv' /\ Coherent' /\ OwnRows' /\ LiveLinked'
           /\ GearOfLiving'
           /\ call'[w].key = call[w].key
           /\ call[w].key \in Cached(ServerOf[w])'
           /\ \A q \in Part \ {p} : Entry(w)'.id[q] = Entry(w).id[q]
           /\ \/ call'[w].at = read /\ Entry(w)'.id[p] \in found
              \/ call'[w].at = insert /\ OwnId(w, p)'
  <1> DEFINE s == ServerOf[w]
             k == call[w].key
             old == Entry(w)
  <1>0. /\ TypeOK /\ CallOK(w) /\ s \in World /\ k \in Key /\ k \in Cached(s)
        /\ old = cache[s][k] /\ old \in EntryTypes
        /\ k[1] \notin DOMAIN db["place"] /\ k[1] <= last
        /\ old.id["place"] = k[1]
        /\ \A q \in Part : old.id[q] <= last /\ old.id[q] \in Nat
        /\ \A v \in Worker \ {w} : call[v].at \in Creating =>
              ~(ServerOf[v] = s /\ call[v].key = k)
    BY OwnEntry
  <1>1. last \in Nat /\ MaxUuid \in Nat /\ last <= MaxUuid /\ p \in Part
    BY <1>0, BoundAssumption DEF TypeOK, Part
  <1> HIDE DEF s, k, old
  <1>2. ASSUME NEW u \in Uuid, Uses(w, p, u)
        PROVE  LET e == [old EXCEPT !.id[p] = u] IN
               /\ SetEntry(s, k, e) /\ e \in EntryTypes
               /\ e.val = old.val /\ e.id[p] = u
               /\ \A q \in Part \ {p} : e.id[q] = old.id[q]
    BY <1>0, <1>1, <1>2 DEF Uses, EntryTypes, s, k, old
  <1>3. ASSUME NEW u \in Uuid, Uses(w, p, u), u \in DOMAIN db[p] \/ u = last + 1,
               last' \in 0..MaxUuid, last <= last', u <= last',
               stale' \subseteq World \X Key \X Part,
               stale \subseteq stale',
               u \in DOMAIN db[p] => << s, k, p >> \in stale',
               \A v \in Worker \ {w} : call'[v] = call[v],
               call' \in [Worker -> [at : Place, key : Key \cup {NoKey}]],
               call'[w].key = k
        PROVE  /\ TypeOK' /\ StepFrame(w)
               /\ RowsInv' /\ EntriesInv' /\ Coherent' /\ OwnRows' /\ LiveLinked'
               /\ GearOfLiving'
               /\ k \in Cached(s)'
               /\ \A q \in Part \ {p} : Entry(w)'.id[q] = Entry(w).id[q]
               /\ Entry(w)'.id[p] = u
    <2> DEFINE e == [old EXCEPT !.id[p] = u]
    <2>1. /\ SetEntry(s, k, e) /\ e \in EntryTypes
          /\ e.val = old.val /\ e.id[p] = u
          /\ \A q \in Part \ {p} : e.id[q] = old.id[q]
      BY <1>2, <1>3
    <2> HIDE DEF e
    <2>2. e.id["place"] \in {k[1], NoUuid}
      BY <1>0, <2>1 DEF Part
    <2>3. \A q \in Part :
             /\ e.id[q] <= last'
             /\ \/ e.id[q] = NoUuid \/ e.id[q] = last + 1
                \/ e.id[q] \in DOMAIN db[q]
                \/ k \in Cached(s) /\ e.id[q] = cache[s][k].id[q]
      BY <1>0, <1>1, <1>3, <2>1
    <2>4. \A q \in Part :
             e.id[q] \in DOMAIN db[q] /\ << s, k, q >> \notin stale'
                => e.val[q] = db[q][e.id[q]].val
      <3> SUFFICES ASSUME NEW q \in Part, e.id[q] \in DOMAIN db[q],
                          << s, k, q >> \notin stale'
                   PROVE  e.val[q] = db[q][e.id[q]].val
        OBVIOUS
      <3>1. CASE q = p
        <4>1. last + 1 \notin DOMAIN db[p]
          BY <1>1 DEF IInv, RowsInv
        <4> QED
          BY <1>3, <2>1, <3>1, <4>1
      <3>2. CASE q # p
        <4>1. << s, k, q >> \notin stale
          BY <1>3
        <4> QED
          BY <1>0, <2>1, <3>2, <4>1 DEF IInv, Coherent
      <3> QED
        BY <3>1, <3>2
    <2>5. \A t \in World, j \in Key, q \in Part :
             << t, j >> # << s, k >>
                => /\ << t, j, q >> \in stale => << t, j, q >> \in stale'
                   /\ << t, j, q >> \in astray => << t, j, q >> \in astray'
      BY <1>3
    <2>6. k[1] <= last'
      BY <1>0, <1>1, <1>3 DEF Key, Uuid
    <2>7. /\ TypeOK' /\ StepFrame(w)
          /\ RowsInv' /\ EntriesInv' /\ Coherent' /\ OwnRows' /\ LiveLinked'
          /\ GearOfLiving'
      <3>1. /\ \A q \in Part :
                  OneLink /\ k[1] \in DOMAIN db["place"]
                     /\ << s, k, q >> \notin astray'
                        => e.id[q] = RowsOf(k[1])[q]
            /\ k \in Cached(s) \/ k[1] \in Told \/ k[1] = last + 1
            /\ astray' \subseteq World \X Key \X Part
            /\ UNCHANGED << tables, raced >>
            /\ SetEntry(s, k, e) /\ e \in EntryTypes
        BY <1>0, <2>1 DEF TypeOK
      <3>2. Fills(w, s, k, e)
        BY <1>0, <1>3, <2>2, <2>3, <2>4, <2>5, <2>6, <3>1 DEF Fills
      <3> QED
        BY <1>0, <3>1, <3>2, FillStep
    <2>8. k \in Cached(s)' /\ cache'[s][k] = e
      BY <1>0, <2>1, SetEntryFacts
    <2>9. Entry(w)' = e
      BY <1>3, <2>8 DEF Entry, s, k
    <2> QED
      BY <2>1, <2>7, <2>8, <2>9 DEF old
  <1>4. CASE found # {}
    <2>1. PICK u \in found : Uses(w, p, u)
      BY <1>4 DEF Find
    <2>2. /\ stale' = stale \cup Marks(s, k, {p}) /\ last' = last
          /\ Goes(w, read)
      BY <1>4 DEF Find, s, k
    <2>3. u \in DOMAIN db[p] /\ u \in Uuid /\ u <= last
      BY <1>0, <1>1 DEF TypeOK, IInv, RowsInv
    <2>4. /\ call' \in [Worker -> [at : Place, key : Key \cup {NoKey}]]
          /\ call'[w].at = read /\ call'[w].key = k
          /\ \A v \in Worker \ {w} : call'[v] = call[v]
      BY <1>0, <2>2, GoesFacts DEF k
    <2>5. /\ stale' \subseteq World \X Key \X Part /\ stale \subseteq stale'
          /\ << s, k, p >> \in stale'
      BY <1>0, <1>1, <2>2 DEF TypeOK, Marks
    <2>6. last' \in 0..MaxUuid /\ last <= last' /\ u <= last'
      BY <1>1, <2>2, <2>3
    <2>7. /\ TypeOK' /\ StepFrame(w)
          /\ RowsInv' /\ EntriesInv' /\ Coherent' /\ OwnRows' /\ LiveLinked'
          /\ GearOfLiving'
          /\ k \in Cached(s)'
          /\ \A q \in Part \ {p} : Entry(w)'.id[q] = Entry(w).id[q]
          /\ Entry(w)'.id[p] = u
      BY <1>3, <2>1, <2>3, <2>4, <2>5, <2>6
    <2> QED
      BY <2>1, <2>4, <2>7 DEF k, s
  <1>5. CASE found = {}
    <2>1. /\ Uses(w, p, last + 1) /\ last < MaxUuid /\ last' = last + 1
          /\ stale' = stale /\ Goes(w, insert)
      BY <1>5 DEF Find
    <2>2. /\ call' \in [Worker -> [at : Place, key : Key \cup {NoKey}]]
          /\ call'[w].at = insert /\ call'[w].key = k
          /\ \A v \in Worker \ {w} : call'[v] = call[v]
      BY <1>0, <2>1, GoesFacts DEF k
    <2>3. /\ last + 1 \in Uuid /\ last' \in 0..MaxUuid /\ last <= last'
          /\ last + 1 <= last' /\ stale' \subseteq World \X Key \X Part
      BY <1>0, <1>1, <2>1 DEF TypeOK, Uuid
    <2>4. last + 1 \notin DOMAIN db[p]
      BY <1>1 DEF IInv, RowsInv
    <2>5. /\ TypeOK' /\ StepFrame(w)
          /\ RowsInv' /\ EntriesInv' /\ Coherent' /\ OwnRows' /\ LiveLinked'
          /\ GearOfLiving'
          /\ k \in Cached(s)'
          /\ \A q \in Part \ {p} : Entry(w)'.id[q] = Entry(w).id[q]
          /\ Entry(w)'.id[p] = last + 1
      BY <1>3, <2>1, <2>2, <2>3, <2>4
    <2>6. OwnId(w, p)'
      <3>1. last + 1 # NoUuid /\ last + 1 \notin DOMAIN db'[p]
        BY <1>1, <2>4 DEF tables, NoUuid
      <3>2. ASSUME NEW t \in World, NEW j \in Cached(t)',
                   cache'[t][j].id[p] = last + 1
            PROVE  t = s /\ j = k
        <4> SUFFICES ASSUME ~(t = s /\ j = k) PROVE FALSE
          OBVIOUS
        <4>1. /\ Cached(s)' = Cached(s) \cup {k}
              /\ \A x \in World : x # s => cache'[x] = cache[x]
              /\ \A x \in Cached(s) : x # k => cache'[s][x] = cache[s][x]
          <5>1. PICK e : SetEntry(s, k, e)
            BY <2>1 DEF Uses, s, k
          <5> QED
            BY <1>0, <5>1, SetEntryFacts
        <4>2. j \in Cached(t) /\ cache'[t][j] = cache[t][j]
          BY <4>1 DEF Cached
        <4>3. cache[t][j].id[p] <= last
          BY <1>1, <4>2 DEF IInv, EntriesInv
        <4> QED
          BY <1>1, <3>2, <4>2, <4>3
      <3> QED
        BY <2>2, <2>5, <3>1, <3>2 DEF OwnId, s
    <2> QED
      BY <2>2, <2>5, <2>6 DEF s, k
  <1> QED
    BY <1>4, <1>5

\* createChar looks for variables that its world is linked to
\* (mysql.cpp:1526-1544).
LEMMA FindVarsStep ==
    ASSUME IInv, NEW w \in Worker, FindVars(w)
    PROVE  IInv'
  <1> DEFINE s == ServerOf[w]
             found == {u \in Uuid : << s, u >> \in linked}
  <1>1. /\ call[w].at = "findvars" /\ Making(w)
        /\ Find(w, "vars", found, "readvars", "insertvars")
        /\ UNCHANGED << tables, raced, astray >>
    BY DEF FindVars, At, Making, Creating
  <1>2. found \subseteq DOMAIN db["vars"]
    BY DEF IInv, RowsInv
  <1>3. {"readvars", "insertvars"} \subseteq Place \ {"idle"}
    BY DEF Place
  <1>4. /\ TypeOK' /\ StepFrame(w)
        /\ RowsInv' /\ EntriesInv' /\ Coherent' /\ OwnRows' /\ LiveLinked'
        /\ GearOfLiving'
        /\ call'[w].key = call[w].key
        /\ call[w].key \in Cached(s)'
        /\ \A q \in Part \ {"vars"} : Entry(w)'.id[q] = Entry(w).id[q]
        /\ \/ call'[w].at = "readvars" /\ Entry(w)'.id["vars"] \in found
           \/ call'[w].at = "insertvars" /\ OwnId(w, "vars")'
    BY <1>1, <1>2, <1>3, FindStep
  <1>5. CallOK(w)'
    <2>1. HasEntry(w)'
      BY <1>4 DEF HasEntry
    <2>2. /\ OwnId(w, "place")' /\ OwnKey(w)' /\ call[w].key[1] \notin Told'
          /\ Entry(w)'.id["place"] = call[w].key[1]
      BY <1>1, <1>4, StillNew DEF StepFrame, tables, Part
    <2>3. IsNew(w)'
      BY <1>4, <2>2 DEF IsNew
    <2>4. HasVars(w)'
      BY <1>1, <1>2, <1>4 DEF HasVars, tables
    <2> QED
      BY <1>4, <2>1, <2>3, <2>4 DEF CallOK, HasGear, HasPlace, Equipped
  <1>6. CallsInv'
    BY <1>1, <1>4, <1>5, CallsStep DEF Making
  <1> QED
    BY <1>4, <1>6 DEF IInv

\* createChar looks for the gear of the characters that live in the worlds
\* linked by his variables (mysql.cpp:1583-1611).
LEMMA FindGearStep ==
    ASSUME IInv, NEW w \in Worker, FindGear(w)
    PROVE  IInv'
  <1> DEFINE s == ServerOf[w]
             vs == Entry(w).id["vars"]
             there == {t \in World : << t, vs >> \in linked}
             found == {db["place"][r[2]].up : r \in {q \in live : q[1] \in there}}
  <1>1. /\ call[w].at = "findgear" /\ Making(w)
        /\ Find(w, "gear", found, "readgear", "insertgear")
        /\ UNCHANGED << tables, raced, astray >>
    BY DEF FindGear, At, Making, Creating
  <1>2. found \subseteq DOMAIN db["gear"]
    BY DEF IInv, RowsInv
  <1>3. {"readgear", "insertgear"} \subseteq Place \ {"idle"}
    BY DEF Place
  <1>4. /\ TypeOK' /\ StepFrame(w)
        /\ RowsInv' /\ EntriesInv' /\ Coherent' /\ OwnRows' /\ LiveLinked'
        /\ GearOfLiving'
        /\ call'[w].key = call[w].key
        /\ call[w].key \in Cached(s)'
        /\ \A q \in Part \ {"gear"} : Entry(w)'.id[q] = Entry(w).id[q]
        /\ \/ call'[w].at = "readgear" /\ Entry(w)'.id["gear"] \in found
           \/ call'[w].at = "insertgear" /\ OwnId(w, "gear")'
    BY <1>1, <1>2, <1>3, FindStep
  <1>5. CallOK(w)'
    <2>1. HasEntry(w)'
      BY <1>4 DEF HasEntry
    <2>2. /\ OwnId(w, "place")' /\ OwnKey(w)' /\ call[w].key[1] \notin Told'
          /\ Entry(w)'.id["place"] = call[w].key[1]
      BY <1>1, <1>4, StillNew DEF StepFrame, tables, Part
    <2>3. IsNew(w)'
      BY <1>4, <2>2 DEF IsNew
    <2>4. HasVars(w)'
      <3>1. vs \in DOMAIN db["vars"] /\ << s, vs >> \in linked
        BY <1>1, OwnEntry DEF CallOK, HasVars, Creating
      <3>2. Entry(w)'.id["vars"] = vs
        BY <1>4 DEF Part
      <3> QED
        BY <1>1, <3>1, <3>2 DEF HasVars, tables
    <2>5. HasGear(w)'
      <3> SUFFICES ASSUME call'[w].at = "readgear"
                   PROVE  LET g == Entry(w)'.id["gear"] IN
                          /\ g \in DOMAIN db["gear"]
                          /\ OneLink => db["gear"][g].up = vs
                          /\ \A q \in dead : db["place"][q[2]].up = g => g \in raced
        BY <1>1, <1>4 DEF HasGear, Equipped, OneLink, tables, Part
      <3>1. PICK r \in live : /\ << r[1], vs >> \in linked
                              /\ Entry(w)'.id["gear"] = db["place"][r[2]].up
        BY <1>4
      <3>2. r[2] \in DOMAIN db["place"]
            /\ db["place"][r[2]].up \in DOMAIN db["gear"]
        BY DEF IInv, RowsInv
      <3>3. OneLink => db["gear"][db["place"][r[2]].up].up = vs
        <4>1. OneLink => << r[1], RowsOf(r[2])["vars"] >> \in linked
          BY DEF IInv, LiveLinked
        <4>2. OneLink => RowsOf(r[2])["vars"] = vs
          BY <3>1, <4>1 DEF OneLink
        <4> QED
          BY <4>2, RowsOfFacts
      <3> QED
        BY <3>1, <3>2, <3>3 DEF IInv, GearOfLiving
    <2> QED
      BY <1>4, <2>1, <2>3, <2>4, <2>5 DEF CallOK, HasPlace
  <1>6. CallsInv'
    BY <1>1, <1>4, <1>5, CallsStep DEF Making
  <1> QED
    BY <1>4, <1>6 DEF IInv

\* The value of a row that was found replaces the call's
\* (mysql.cpp:1562-1582, 1624-1660).
LEMMA ReadStep ==
    ASSUME IInv, NEW w \in Worker, NEW p \in {"vars", "gear"},
           NEW place, NEW next, Read(w, p, place, next),
           \/ p = "vars" /\ place = "readvars" /\ next = "findgear"
           \/ p = "gear" /\ place = "readgear" /\ next = "insertplace"
    PROVE  IInv'
  <1> DEFINE s == ServerOf[w]
             k == call[w].key
             old == Entry(w)
             v == db[p][old.id[p]].val
             e == [old EXCEPT !.val[p] = v]
  <1>1. /\ call[w].at = place /\ Making(w)
        /\ Goes(w, next) /\ next \in Place \ {"idle"} /\ p \in Part
        /\ UNCHANGED << tables, last, raced, astray >>
    BY DEF Read, At, Making, Creating, counters, Place, Part
  <1>0. /\ TypeOK /\ CallOK(w) /\ s \in World /\ k \in Key /\ k \in Cached(s)
        /\ old = cache[s][k] /\ old \in EntryTypes
        /\ k[1] \notin DOMAIN db["place"] /\ k[1] <= last
        /\ old.id["place"] = k[1]
        /\ \A q \in Part : old.id[q] <= last /\ old.id[q] \in Nat
        /\ \A x \in Worker \ {w} : call[x].at \in Creating =>
              ~(ServerOf[x] = s /\ call[x].key = k)
    BY <1>1, OwnEntry
  <1>2. /\ call' \in [Worker -> [at : Place, key : Key \cup {NoKey}]]
        /\ call'[w].at = next /\ call'[w].key = k
        /\ \A x \in Worker \ {w} : call'[x] = call[x]
    BY <1>0, <1>1, GoesFacts
  <1>3. old.id[p] \in DOMAIN db[p] /\ v \in Value \cup {Null}
    <2>1. old.id[p] \in DOMAIN db[p]
      BY <1>0, <1>1 DEF CallOK, HasVars, HasGear, Creating, Equipped
    <2> QED
      BY <1>0, <1>1, <2>1 DEF TypeOK
  <1> HIDE DEF s, k, old, v
  <1>4. /\ e \in EntryTypes /\ e.id = old.id /\ e.val[p] = v
        /\ \A q \in Part \ {p} : e.val[q] = old.val[q]
    BY <1>0, <1>1, <1>3 DEF EntryTypes
  <1> HIDE DEF e
  <1>5. /\ TypeOK' /\ StepFrame(w)
        /\ RowsInv' /\ EntriesInv' /\ Coherent' /\ OwnRows' /\ LiveLinked'
        /\ GearOfLiving'
        /\ k \in Cached(s)' /\ Entry(w)'.id = old.id
    <2>1. CASE v # Null
      <3>1. SetEntry(s, k, e) /\ stale' = stale \ Marks(s, k, {p})
        BY <2>1 DEF Read, s, k, e, old, v
      <3>2. /\ stale' \subseteq World \X Key \X Part
            /\ \A t \in World, j \in Key, q \in Part :
                  << t, j >> # << s, k >>
                     => /\ << t, j, q >> \in stale => << t, j, q >> \in stale'
                        /\ << t, j, q >> \in astray => << t, j, q >> \in astray'
            /\ astray' \subseteq World \X Key \X Part
        BY <1>0, <1>1, <3>1, MarksFacts DEF TypeOK
      <3>3. \A q \in Part :
               e.id[q] \in DOMAIN db[q] /\ << s, k, q >> \notin stale'
                  => e.val[q] = db[q][e.id[q]].val
        <4> SUFFICES ASSUME NEW q \in Part, e.id[q] \in DOMAIN db[q],
                            << s, k, q >> \notin stale'
                     PROVE  e.val[q] = db[q][e.id[q]].val
          OBVIOUS
        <4>1. CASE q = p
          BY <1>4, <4>1 DEF v
        <4>2. CASE q # p
          <5>1. << s, k, q >> \notin stale
            BY <3>1, <4>2, MarksFacts
          <5> QED
            BY <1>0, <1>4, <4>2, <5>1 DEF IInv, Coherent
        <4> QED
          BY <4>1, <4>2
      <3>4. /\ last' \in 0..MaxUuid /\ last <= last' /\ k[1] <= last'
            /\ \A q \in Part :
                  /\ e.id[q] <= last'
                  /\ \/ e.id[q] = NoUuid \/ e.id[q] = last + 1
                     \/ e.id[q] \in DOMAIN db[q]
                     \/ k \in Cached(s) /\ e.id[q] = cache[s][k].id[q]
        BY <1>0, <1>1, <1>4, BoundAssumption DEF TypeOK
      <3>5. /\ e.id["place"] \in {k[1], NoUuid} /\ UNCHANGED << tables, raced >>
            /\ \A q \in Part :
                  OneLink /\ k[1] \in DOMAIN db["place"]
                     /\ << s, k, q >> \notin astray'
                        => e.id[q] = RowsOf(k[1])[q]
            /\ k \in Cached(s) \/ k[1] \in Told \/ k[1] = last + 1
            /\ s \in World /\ k \in Key /\ e \in EntryTypes
            /\ \A x \in Worker \ {w} : call[x].at \in Creating =>
                  ~(ServerOf[x] = s /\ call[x].key = k)
        BY <1>0, <1>1, <1>4
      <3>6. /\ TypeOK' /\ StepFrame(w)
            /\ RowsInv' /\ EntriesInv' /\ Coherent' /\ OwnRows' /\ LiveLinked'
            /\ GearOfLiving'
        <4>1. SetEntry(s, k, e)
          BY <3>1
        <4>2. Fills(w, s, k, e)
          BY <1>2, <3>2, <3>3, <3>4, <3>5, <4>1 DEF Fills
        <4> QED
          BY <3>5, <4>2, FillStep
      <3>7. k \in Cached(s)' /\ cache'[s][k] = e
        BY <1>0, <3>1, SetEntryFacts
      <3>8. Entry(w)' = e
        BY <1>2, <3>7 DEF Entry, s, k
      <3> QED
        BY <1>4, <3>6, <3>7, <3>8
    <2>2. CASE v = Null
      <3>1. cache' = cache /\ stale' = stale
        BY <2>2 DEF Read, v, old
      <3>2. UNCHANGED << db, linked, live, dead, last, raced, astray >>
        BY <1>1 DEF tables
      <3>3. /\ RowsKept /\ EntriesKept(w) /\ IdsFrom(w)
            /\ EntriesInv' /\ Coherent' /\ OwnRows'
        BY <1>2, <3>1, <3>2, NoDataStep
      <3>4. TypeOK'
        BY <1>0, <1>2, <3>1, <3>2 DEF TypeOK, Cached
      <3>5. StepFrame(w)
        BY <1>2, <3>2, <3>3 DEF StepFrame, ToldFrom, Told, DeadRaced
      <3>6. RowsInv'
        BY <3>2 DEF IInv, RowsInv
      <3>7. LiveLinked' /\ GearOfLiving'
        BY <3>2, <3>3, LiveLinkedStep, GearStep
      <3>8. k \in Cached(s)' /\ Entry(w)' = old
        BY <1>0, <1>2, <3>1 DEF Cached, Entry, s, k, old
      <3> QED
        BY <3>3, <3>4, <3>5, <3>6, <3>7, <3>8
    <2> QED
      BY <2>1, <2>2
  <1>6. CallOK(w)'
    <2>1. HasEntry(w)'
      BY <1>2, <1>5 DEF HasEntry, s, k
    <2>2. /\ OwnId(w, "place")' /\ OwnKey(w)' /\ call[w].key[1] \notin Told'
          /\ Entry(w)'.id["place"] = call[w].key[1]
      BY <1>1, <1>2, <1>5, StillNew DEF StepFrame, tables, k, old
    <2>3. IsNew(w)'
      BY <1>1, <1>2, <2>2 DEF IsNew, k
    <2>4. HasVars(w)'
      <3>1. /\ old.id["vars"] \in DOMAIN db["vars"]
            /\ << s, old.id["vars"] >> \in linked
        BY <1>0, <1>1 DEF CallOK, HasVars, Creating, s, old
      <3> QED
        BY <1>1, <1>5, <3>1 DEF HasVars, tables, s
    <2>5. HasGear(w)'
      <3>1. CASE next = "findgear"
        BY <1>2, <3>1 DEF HasGear, Equipped
      <3>2. CASE next = "insertplace"
        <4>1. LET g == old.id["gear"] IN
              /\ g \in DOMAIN db["gear"]
              /\ OneLink => db["gear"][g].up = old.id["vars"]
              /\ \A q \in dead : db["place"][q[2]].up = g => g \in raced
          BY <1>0, <1>1, <3>2 DEF CallOK, HasGear, Equipped, old
        <4> QED
          BY <1>1, <1>5, <4>1 DEF HasGear, OneLink, tables
      <3> QED
        BY <3>1, <3>2
    <2>6. HasPlace(w)'
      BY <1>1, <1>2 DEF HasPlace
    <2> QED
      BY <2>1, <2>3, <2>4, <2>5, <2>6 DEF CallOK
  <1>7. CallsInv'
    BY <1>1, <1>2, <1>5, <1>6, CallsStep DEF Making, k
  <1> QED
    BY <1>5, <1>7 DEF IInv

------------------------------------------------------------------------------
(* Steps that write a row.                                                  *)

\* The entry's part becomes a row under a uuid that nobody else has.
LEMMA InsertFacts ==
    ASSUME IInv, NEW w \in Worker, Making(w), NEW p \in Part,
           NEW up \in Uuid \cup {NoUuid}, NEW place, NEW next \in Place \ {"idle"},
           Insert(w, p, up, place, next), OwnId(w, p),
           p = "gear" => up \in DOMAIN db["vars"],
           p = "place" => /\ up \in DOMAIN db["gear"]
                          /\ up = Entry(w).id["gear"]
                          /\ OneLink => db["gear"][up].up = Entry(w).id["vars"]
    PROVE  /\ TypeOK' /\ StepFrame(w)
           /\ RowsInv' /\ EntriesInv' /\ Coherent' /\ OwnRows' /\ LiveLinked'
           /\ GearOfLiving'
           /\ call'[w].at = next /\ call'[w].key = call[w].key
           /\ call[w].key \in Cached(ServerOf[w])'
           /\ Entry(w)' = Entry(w)
           /\ Entry(w).id[p] \in DOMAIN db'[p]
           /\ db'[p][Entry(w).id[p]].up = up
           /\ \A q \in Part \ {p} : db'[q] = db[q]
           /\ UNCHANGED << linked, live, dead, cache, last, history >>
  <1> DEFINE s == ServerOf[w]
             k == call[w].key
             e == Entry(w)
             u == e.id[p]
             row == [val |-> e.val[p], up |-> up]
  <1>0. /\ TypeOK /\ CallOK(w) /\ s \in World /\ k \in Key /\ k \in Cached(s)
        /\ e = cache[s][k] /\ e \in EntryTypes
        /\ k[1] \notin DOMAIN db["place"]
        /\ e.id["place"] = k[1]
        /\ \A t \in World : \A j \in Cached(t) : j[1] = k[1] => t = s /\ j = k
        /\ \A q \in Part : e.id[q] <= last /\ e.id[q] \in Nat
    BY OwnEntry DEF OwnKey
  <1>1. /\ UNCHANGED << linked, live, dead, cache, last, stale, raced, astray >>
        /\ db' = [db EXCEPT ![p] = With(@, u, row)]
        /\ Goes(w, next)
    BY DEF Insert, counters, history
  <1>2. /\ call' \in [Worker -> [at : Place, key : Key \cup {NoKey}]]
        /\ call'[w].at = next /\ call'[w].key = k
        /\ \A v \in Worker \ {w} : call'[v] = call[v]
    BY <1>0, <1>1, GoesFacts
  <1>3. /\ u # NoUuid /\ u \notin DOMAIN db[p]
        /\ \A t \in World : \A j \in Cached(t) :
              cache[t][j].id[p] = u => t = s /\ j = k
    BY DEF OwnId
  <1>4. /\ u \in Uuid /\ u <= last
        /\ row \in [val : Value \cup {Null}, up : Uuid \cup {NoUuid}]
    BY <1>0, <1>3 DEF EntryTypes
  <1>5. /\ DOMAIN db' = Part
        /\ DOMAIN db'[p] = DOMAIN db[p] \cup {u}
        /\ \A q \in Part \ {p} : db'[q] = db[q]
        /\ db'[p][u] = row
        /\ \A x \in DOMAIN db[p] : db'[p][x] = db[p][x]
    <2>1. DOMAIN db = Part /\ p \in DOMAIN db
      BY <1>0 DEF TypeOK
    <2>2. /\ DOMAIN db' = Part /\ db'[p] = With(db[p], u, row)
          /\ \A q \in Part \ {p} : db'[q] = db[q]
      BY <1>1, <2>1
    <2> HIDE DEF u, row
    <2> QED
      BY <1>3, <2>2 DEF With
  <1>6. e.val[p] = row.val /\ row.up = up
    OBVIOUS
  <1>7. Entry(w)' = e /\ k \in Cached(s)'
    BY <1>0, <1>1, <1>2 DEF Entry, Cached
  <1> HIDE DEF s, k, e, u, row
  <1>8. TypeOK'
    <2>1. \A q \in Part : DOMAIN db'[q] \subseteq Uuid
      BY <1>0, <1>4, <1>5 DEF TypeOK
    <2>2. \A q \in Part : \A x \in DOMAIN db'[q] :
             db'[q][x] \in [val : Value \cup {Null}, up : Uuid \cup {NoUuid}]
      <3> SUFFICES ASSUME NEW q \in Part, NEW x \in DOMAIN db'[q]
                   PROVE  db'[q][x] \in [val : Value \cup {Null},
                                         up : Uuid \cup {NoUuid}]
        OBVIOUS
      <3>1. CASE q = p /\ x = u
        BY <1>4, <1>5, <3>1
      <3>2. CASE ~(q = p /\ x = u)
        <4>1. x \in DOMAIN db[q] /\ db'[q][x] = db[q][x]
          BY <1>5, <3>2
        <4> QED
          BY <1>0, <4>1 DEF TypeOK
      <3> QED
        BY <3>1, <3>2
    <2> QED
      BY <1>0, <1>1, <1>2, <1>5, <2>1, <2>2 DEF TypeOK, Cached
  <1>9. RowsKept
    BY <1>5 DEF RowsKept
  <1>10. EntriesKept(w) /\ IdsFrom(w)
    <2>1. EntriesKept(w)
      BY <1>1 DEF EntriesKept, Cached, Entry
    <2>2. \A q \in Part : \A x \in DOMAIN db'[q] :
             x \in DOMAIN db[q] \/ (q = p /\ x = u)
      BY <1>5
    <2>3. call[w].at \in Creating /\ OwnId(w, p)
      BY DEF Making
    <2> QED
      BY <1>1, <2>1, <2>2, <2>3 DEF IdsFrom, Cached, u, e
  <1>11. StepFrame(w)
    BY <1>1, <1>2, <1>9, <1>10 DEF StepFrame, ToldFrom, Told, DeadRaced
  <1>12. RowsInv'
    <2>1. \A q \in Part : \A x \in DOMAIN db'[q] : x <= last'
      BY <1>1, <1>4, <1>5 DEF IInv, RowsInv
    <2>2. \A x \in DOMAIN db'["place"] : db'["place"][x].up \in DOMAIN db'["gear"]
      <3> SUFFICES ASSUME NEW x \in DOMAIN db'["place"]
                   PROVE  db'["place"][x].up \in DOMAIN db'["gear"]
        OBVIOUS
      <3>1. CASE p = "place" /\ x = u
        BY <1>5, <1>6, <3>1 DEF Part
      <3>2. CASE ~(p = "place" /\ x = u)
        <4>1. x \in DOMAIN db["place"] /\ db'["place"][x] = db["place"][x]
          BY <1>5, <3>2 DEF Part
        <4>2. db["place"][x].up \in DOMAIN db["gear"]
          BY <4>1 DEF IInv, RowsInv
        <4> QED
          BY <1>5, <4>1, <4>2 DEF Part
      <3> QED
        BY <3>1, <3>2
    <2>3. \A x \in DOMAIN db'["gear"] : db'["gear"][x].up \in DOMAIN db'["vars"]
      <3> SUFFICES ASSUME NEW x \in DOMAIN db'["gear"]
                   PROVE  db'["gear"][x].up \in DOMAIN db'["vars"]
        OBVIOUS
      <3>1. CASE p = "gear" /\ x = u
        BY <1>5, <1>6, <3>1 DEF Part
      <3>2. CASE ~(p = "gear" /\ x = u)
        <4>1. x \in DOMAIN db["gear"] /\ db'["gear"][x] = db["gear"][x]
          BY <1>5, <3>2 DEF Part
        <4>2. db["gear"][x].up \in DOMAIN db["vars"]
          BY <4>1 DEF IInv, RowsInv
        <4> QED
          BY <1>5, <4>1, <4>2 DEF Part
      <3> QED
        BY <3>1, <3>2
    <2>4. \A q \in Part : DOMAIN db[q] \subseteq DOMAIN db'[q]
      BY <1>5
    <2> QED
      BY <1>1, <2>1, <2>2, <2>3, <2>4 DEF IInv, RowsInv, Part
  <1>13. EntriesInv'
    BY <1>1 DEF IInv, EntriesInv, Cached
  <1>14. Coherent'
    <2> SUFFICES ASSUME NEW t \in World, NEW j \in Cached(t), NEW q \in Part,
                        cache[t][j].id[q] \in DOMAIN db'[q],
                        << t, j, q >> \notin stale
                 PROVE  cache[t][j].val[q] = db'[q][cache[t][j].id[q]].val
      BY <1>1 DEF Coherent, Cached
    <2>1. CASE q = p /\ cache[t][j].id[q] = u
      BY <1>0, <1>3, <1>5, <1>6, <2>1
    <2>2. CASE ~(q = p /\ cache[t][j].id[q] = u)
      BY <1>5, <2>2 DEF IInv, Coherent
    <2> QED
      BY <2>1, <2>2
  <1>15. OwnRows'
    <2>1. ASSUME OneLink', NEW t \in World, NEW j \in Cached(t)', NEW q \in Part,
                 j[1] \in DOMAIN db'["place"], << t, j, q >> \notin astray'
          PROVE  \/ /\ j \in Cached(t) /\ j[1] \in DOMAIN db["place"]
                    /\ << t, j, q >> \notin astray
                    /\ cache'[t][j].id[q] = cache[t][j].id[q]
                 \/ cache'[t][j].id[q] = RowsOf(j[1])'[q]
      <3>1. /\ j \in Cached(t) /\ cache'[t][j] = cache[t][j] /\ OneLink
            /\ << t, j, q >> \notin astray
        BY <1>1, <2>1 DEF Cached, OneLink
      <3>2. CASE p = "place" /\ j[1] = u
        <4>1. u = k[1] /\ e.id["place"] = u
          BY <1>0, <3>2 DEF u
        <4>2. cache'[t][j] = e
          BY <1>0, <3>1, <3>2, <4>1
        <4>3. /\ RowsOf(j[1])'["place"] = u
              /\ RowsOf(j[1])'["gear"] = db'["place"][u].up
              /\ RowsOf(j[1])'["vars"] = db'["gear"][db'["place"][u].up].up
          BY <3>2 DEF RowsOf, Part
        <4>4. db'["place"][u].up = e.id["gear"]
              /\ db'["gear"][e.id["gear"]].up = e.id["vars"]
          BY <1>5, <1>6, <3>1, <3>2 DEF Part, e
        <4> QED
          BY <4>1, <4>2, <4>3, <4>4 DEF Part
      <3>3. CASE ~(p = "place" /\ j[1] = u)
        BY <1>5, <2>1, <3>1, <3>3 DEF Part
      <3> QED
        BY <3>2, <3>3
    <2> QED
      BY <1>1, <1>9, <2>1, OwnRowsStep
  <1>16. LiveLinked' /\ GearOfLiving'
    BY <1>1, <1>9, LiveLinkedStep, GearStep
  <1> QED
    BY <1>1, <1>2, <1>5, <1>6, <1>7, <1>8, <1>11, <1>12, <1>13, <1>14, <1>15,
       <1>16 DEF s, k, e, u, history

\* The new variables become a row (mysql.cpp:1548-1553).
LEMMA InsertVarsStep ==
    ASSUME IInv, NEW w \in Worker,
           Insert(w, "vars", NoUuid, "insertvars", "linkvars")
    PROVE  IInv'
  <1>1. /\ call[w].at = "insertvars" /\ Making(w) /\ CallOK(w)
        /\ "vars" \in Part /\ "linkvars" \in Place \ {"idle"}
    BY DEF Insert, At, Making, Creating, Part, Place, IInv, CallsInv
  <1>2. OwnId(w, "vars")
    BY <1>1 DEF CallOK, IsNew
  <1>3. NoUuid \in Uuid \cup {NoUuid}
    OBVIOUS
  <1>4. /\ TypeOK' /\ StepFrame(w)
        /\ RowsInv' /\ EntriesInv' /\ Coherent' /\ OwnRows' /\ LiveLinked'
        /\ GearOfLiving'
        /\ call'[w].at = "linkvars" /\ call'[w].key = call[w].key
        /\ call[w].key \in Cached(ServerOf[w])'
        /\ Entry(w)' = Entry(w)
        /\ Entry(w).id["vars"] \in DOMAIN db'["vars"]
        /\ \A q \in Part \ {"vars"} : db'[q] = db[q]
    BY <1>1, <1>2, <1>3, InsertFacts
  <1>5. CallOK(w)'
    <2>1. HasEntry(w)'
      BY <1>4 DEF HasEntry
    <2>2. /\ OwnId(w, "place")' /\ OwnKey(w)' /\ call[w].key[1] \notin Told'
          /\ Entry(w)'.id["place"] = call[w].key[1]
      BY <1>1, <1>4, StillNew DEF StepFrame, Part
    <2>3. IsNew(w)'
      BY <1>4, <2>2 DEF IsNew
    <2>4. HasVars(w)'
      BY <1>4 DEF HasVars
    <2> QED
      BY <1>4, <2>1, <2>3, <2>4 DEF CallOK, HasGear, HasPlace, Equipped
  <1>6. CallsInv'
    BY <1>1, <1>4, <1>5, CallsStep DEF Making
  <1> QED
    BY <1>4, <1>6 DEF IInv

\* The new gear becomes a row that leads to his variables: no one who is dead
\* has it (mysql.cpp:1613-1623).
LEMMA InsertGearStep ==
    ASSUME IInv, NEW w \in Worker,
           Insert(w, "gear", Entry(w).id["vars"], "insertgear", "insertplace")
    PROVE  IInv'
  <1> DEFINE id == Entry(w).id
  <1>1. /\ call[w].at = "insertgear" /\ Making(w) /\ CallOK(w)
        /\ "gear" \in Part /\ "insertplace" \in Place \ {"idle"}
    BY DEF Insert, At, Making, Creating, Part, Place, IInv, CallsInv
  <1>2. OwnId(w, "gear")
    BY <1>1 DEF CallOK, IsNew
  <1>3. /\ id["vars"] \in DOMAIN db["vars"]
        /\ << ServerOf[w], id["vars"] >> \in linked
        /\ id["vars"] \in Uuid \cup {NoUuid}
    BY <1>1, OwnEntry DEF CallOK, HasVars, Making, EntryTypes, Part
  <1>4. /\ TypeOK' /\ StepFrame(w)
        /\ RowsInv' /\ EntriesInv' /\ Coherent' /\ OwnRows' /\ LiveLinked'
        /\ GearOfLiving'
        /\ call'[w].at = "insertplace" /\ call'[w].key = call[w].key
        /\ call[w].key \in Cached(ServerOf[w])'
        /\ Entry(w)' = Entry(w)
        /\ id["gear"] \in DOMAIN db'["gear"]
        /\ db'["gear"][id["gear"]].up = id["vars"]
        /\ \A q \in Part \ {"gear"} : db'[q] = db[q]
        /\ UNCHANGED << linked, live, dead, raced >>
    <2> HIDE DEF id
    <2>1. Insert(w, "gear", id["vars"], "insertgear", "insertplace")
      BY DEF id
    <2> QED
      BY <1>1, <1>2, <1>3, <2>1, InsertFacts DEF id, history
  <1>5. CallOK(w)'
    <2>1. HasEntry(w)'
      BY <1>4 DEF HasEntry
    <2>2. /\ OwnId(w, "place")' /\ OwnKey(w)' /\ call[w].key[1] \notin Told'
          /\ Entry(w)'.id["place"] = call[w].key[1]
      BY <1>1, <1>4, StillNew DEF StepFrame, Part
    <2>3. IsNew(w)'
      BY <1>4, <2>2 DEF IsNew
    <2>4. HasVars(w)'
      BY <1>3, <1>4 DEF HasVars, Part
    <2>5. HasGear(w)'
      <3>1. \A q \in dead : db["place"][q[2]].up \in DOMAIN db["gear"]
        BY DEF IInv, RowsInv
      <3>2. id["gear"] \notin DOMAIN db["gear"]
        BY <1>2 DEF OwnId
      <3>3. \A q \in dead' : db'["place"][q[2]].up # id["gear"]
        BY <1>4, <3>1, <3>2 DEF Part
      <3> QED
        BY <1>4, <3>3 DEF HasGear
    <2> QED
      BY <1>4, <2>1, <2>3, <2>4, <2>5 DEF CallOK, HasPlace
  <1>6. CallsInv'
    BY <1>1, <1>4, <1>5, CallsStep DEF Making
  <1> QED
    BY <1>4, <1>6 DEF IInv

\* The character becomes a row that leads to his gear (mysql.cpp:1662-1669).
LEMMA InsertPlaceStep ==
    ASSUME IInv, NEW w \in Worker,
           Insert(w, "place", Entry(w).id["gear"], "insertplace", "insertlive")
    PROVE  IInv'
  <1> DEFINE id == Entry(w).id
  <1>1. /\ call[w].at = "insertplace" /\ Making(w) /\ CallOK(w)
        /\ "place" \in Part /\ "insertlive" \in Place \ {"idle"}
    BY DEF Insert, At, Making, Creating, Part, Place, IInv, CallsInv
  <1>2. OwnId(w, "place") /\ id["place"] = call[w].key[1]
    BY <1>1, OwnEntry DEF CallOK, IsNew, Making
  <1>3. /\ id["gear"] \in DOMAIN db["gear"]
        /\ OneLink => db["gear"][id["gear"]].up = id["vars"]
        /\ \A q \in dead : db["place"][q[2]].up = id["gear"] => id["gear"] \in raced
        /\ id["gear"] \in Uuid \cup {NoUuid}
    BY <1>1, OwnEntry DEF CallOK, HasGear, Equipped, EntryTypes, Part
  <1>4. /\ TypeOK' /\ StepFrame(w)
        /\ RowsInv' /\ EntriesInv' /\ Coherent' /\ OwnRows' /\ LiveLinked'
        /\ GearOfLiving'
        /\ call'[w].at = "insertlive" /\ call'[w].key = call[w].key
        /\ call[w].key \in Cached(ServerOf[w])'
        /\ Entry(w)' = Entry(w)
        /\ id["place"] \in DOMAIN db'["place"]
        /\ db'["place"][id["place"]].up = id["gear"]
        /\ \A q \in Part \ {"place"} : db'[q] = db[q]
        /\ UNCHANGED << linked, live, dead, raced >>
    <2> HIDE DEF id
    <2>1. Insert(w, "place", id["gear"], "insertplace", "insertlive")
      BY DEF id
    <2>2. OneLink => db["gear"][id["gear"]].up = Entry(w).id["vars"]
      BY <1>3 DEF id
    <2> QED
      BY <1>1, <1>2, <1>3, <2>1, <2>2, InsertFacts DEF id, history
  <1>5. CallOK(w)'
    <2>1. HasEntry(w)'
      BY <1>4 DEF HasEntry
    <2>2. IsNew(w)'
      BY <1>1, <1>4 DEF CallOK, IsNew, Making, Told
    <2>3. HasVars(w)'
      BY <1>1, <1>4 DEF CallOK, HasVars, Making, Creating, Part
    <2>4. HasGear(w)'
      <3>1. \A q \in dead : q[2] \in DOMAIN db["place"]
        BY DEF IInv, RowsInv
      <3>2. \A q \in dead' : db'["place"][q[2]].up = db["place"][q[2]].up
        BY <1>4, <3>1 DEF StepFrame, RowsKept, Part
      <3> QED
        BY <1>3, <1>4, <3>2 DEF HasGear, OneLink, Part
    <2>5. HasPlace(w)'
      BY <1>2, <1>4 DEF HasPlace
    <2> QED
      BY <2>1, <2>2, <2>3, <2>4, <2>5 DEF CallOK
  <1>6. CallsInv'
    BY <1>1, <1>4, <1>5, CallsStep DEF Making
  <1> QED
    BY <1>4, <1>6 DEF IInv

\* An update of a row, and the entries that show it as it was
\* (mysql.cpp:1696-1734).
LEMMA WriteStep ==
    ASSUME IInv, NEW w \in Worker, NEW p \in Part, Write(w, p)
    PROVE  IInv'
  <1> DEFINE s == ServerOf[w]
             k == call[w].key
             e == Entry(w)
             u == e.id[p]
             v == e.val[p]
  <1>1. /\ call[w].at = p /\ TypeOK /\ CallOK(w)
        /\ UNCHANGED << linked, live, dead, cache, last, raced, astray >>
        /\ Goes(w, After[p])
    BY DEF Write, At, IInv, CallsInv, counters
  <1>2. After[p] \in {"gear", "vars", "idle"} /\ After[p] \in Place
    BY DEF After, Part, Place
  <1>3. /\ call' \in [Worker -> [at : Place, key : Key \cup {NoKey}]]
        /\ call'[w].at = After[p]
        /\ After[p] # "idle" => call'[w].key = k
        /\ \A x \in Worker \ {w} : call'[x] = call[x]
    BY <1>1, <1>2, GoesFacts
  <1>4. /\ s \in World /\ k \in Key /\ k \in Cached(s) /\ e = cache[s][k]
        /\ v \in Value \cup {Null}
    BY <1>1, EntryType DEF CallOK
  <1>5. ASSUME u \notin DOMAIN db[p]
        PROVE  /\ TypeOK' /\ RowsInv' /\ EntriesInv' /\ Coherent' /\ OwnRows'
               /\ RowsKept /\ EntriesKept(w) /\ IdsFrom(w)
    <2>1. db' = db /\ stale' = stale
      BY <1>5 DEF Write, Marks
    <2>2. TypeOK'
      BY <1>1, <1>3, <2>1 DEF TypeOK, Cached
    <2>3. /\ RowsKept /\ EntriesKept(w) /\ IdsFrom(w)
          /\ EntriesInv' /\ Coherent' /\ OwnRows'
      BY <1>1, <1>3, <2>1, NoDataStep
    <2>4. RowsInv'
      BY <1>1, <2>1 DEF IInv, RowsInv
    <2> QED
      BY <2>2, <2>3, <2>4
  <1>6. ASSUME u \in DOMAIN db[p]
        PROVE  /\ TypeOK' /\ RowsInv' /\ EntriesInv' /\ Coherent' /\ OwnRows'
               /\ RowsKept /\ EntriesKept(w) /\ IdsFrom(w)
    <2>1. /\ DOMAIN db' = Part
          /\ DOMAIN db'[p] = DOMAIN db[p]
          /\ \A q \in Part \ {p} : db'[q] = db[q]
          /\ db'[p][u] = [val |-> v, up |-> db[p][u].up]
          /\ \A x \in DOMAIN db[p] : x # u => db'[p][x] = db[p][x]
      <3>1. /\ DOMAIN db = Part
            /\ db[p][u] \in [val : Value \cup {Null}, up : Uuid \cup {NoUuid}]
        BY <1>1, <1>6 DEF TypeOK
      <3>2. db' = [db EXCEPT ![p][u].val = v]
        BY <1>6 DEF Write
      <3> HIDE DEF u, v
      <3>3. /\ DOMAIN db' = Part
            /\ db'[p] = [db[p] EXCEPT ![u] = [@ EXCEPT !.val = v]]
            /\ \A q \in Part \ {p} : db'[q] = db[q]
        BY <3>1, <3>2
      <3>4. /\ DOMAIN db'[p] = DOMAIN db[p]
            /\ db'[p][u] = [db[p][u] EXCEPT !.val = v]
            /\ \A x \in DOMAIN db[p] : x # u => db'[p][x] = db[p][x]
        BY <1>6, <3>3
      <3> QED
        BY <3>1, <3>3, <3>4
    <2>2. stale' = (IF v # db[p][u].val THEN stale \cup Showing(p, u) ELSE stale)
                       \ Marks(s, k, {p})
      BY <1>6 DEF Write
    <2> HIDE DEF s, k, e, u, v
    <2>3. \A q \in Part : \A x \in DOMAIN db'[q] :
             x \in DOMAIN db[q] /\ db'[q][x].up = db[q][x].up
      BY <2>1
    <2>4. RowsKept
      BY <2>1 DEF RowsKept
    <2>5. TypeOK'
      <3>1. \A q \in Part : \A x \in DOMAIN db'[q] :
               db'[q][x] \in [val : Value \cup {Null}, up : Uuid \cup {NoUuid}]
        <4> SUFFICES ASSUME NEW q \in Part, NEW x \in DOMAIN db'[q]
                     PROVE  db'[q][x] \in [val : Value \cup {Null},
                                           up : Uuid \cup {NoUuid}]
          OBVIOUS
        <4>1. db[q][x] \in [val : Value \cup {Null}, up : Uuid \cup {NoUuid}]
          BY <1>1, <2>3 DEF TypeOK
        <4>2. CASE q = p /\ x = u
          BY <1>4, <2>1, <4>1, <4>2
        <4>3. CASE ~(q = p /\ x = u)
          BY <2>1, <4>1, <4>3
        <4> QED
          BY <4>2, <4>3
      <3>2. stale' \subseteq World \X Key \X Part
        BY <1>1, <2>2 DEF TypeOK, Showing
      <3>3. \A q \in Part : DOMAIN db'[q] \subseteq Uuid
        BY <1>1, <2>3 DEF TypeOK
      <3> QED
        BY <1>1, <1>3, <2>1, <3>1, <3>2, <3>3 DEF TypeOK, Cached
    <2>6. EntriesKept(w) /\ IdsFrom(w)
      BY <1>1, <2>3 DEF EntriesKept, IdsFrom, Cached, Entry
    <2>7. RowsInv'
      BY <1>1, <2>3, <2>4 DEF IInv, RowsInv, RowsKept, Part
    <2>8. EntriesInv'
      BY <1>1 DEF IInv, EntriesInv, Cached
    <2>9. Coherent'
      <3> SUFFICES ASSUME NEW t \in World, NEW j \in Cached(t), NEW q \in Part,
                          cache[t][j].id[q] \in DOMAIN db'[q],
                          << t, j, q >> \notin stale'
                   PROVE  cache[t][j].val[q] = db'[q][cache[t][j].id[q]].val
        BY <1>1 DEF Coherent, Cached
      <3> DEFINE x == cache[t][j].id[q]
      <3>1. CASE t = s /\ j = k /\ q = p
        BY <1>4, <2>1, <3>1 DEF e, u, v
      <3>2. CASE q = p /\ x = u /\ ~(t = s /\ j = k)
        <4>1. << t, j, q >> \notin Marks(s, k, {p})
          BY <3>2, MarksFacts
        <4>2. j \in Key
          BY <1>1 DEF TypeOK
        <4>3. << t, j, q >> \in Showing(p, u)
          BY <3>2, <4>2 DEF Showing
        <4>4. v = db[p][u].val /\ << t, j, q >> \notin stale
          BY <2>2, <4>1, <4>3
        <4>5. cache[t][j].val[q] = db[q][x].val
          BY <1>6, <3>2, <4>4 DEF IInv, Coherent
        <4> QED
          BY <2>1, <3>2, <4>4, <4>5
      <3>3. CASE ~(q = p /\ x = u) /\ ~(t = s /\ j = k /\ q = p)
        <4>1. << t, j, q >> \notin stale
          BY <2>2, <3>3, MarksFacts
        <4>2. x \in DOMAIN db[q] /\ db'[q][x] = db[q][x]
          BY <2>1, <3>3
        <4> QED
          BY <4>1, <4>2 DEF IInv, Coherent
      <3> QED
        BY <3>1, <3>2, <3>3
    <2>10. OwnRows'
      BY <1>1, <2>3, <2>4, OwnRowsStep DEF Cached, Part
    <2> QED
      BY <2>4, <2>5, <2>6, <2>7, <2>8, <2>9, <2>10
  <1>7. /\ TypeOK' /\ RowsInv' /\ EntriesInv' /\ Coherent' /\ OwnRows'
        /\ RowsKept /\ EntriesKept(w) /\ IdsFrom(w)
    BY <1>5, <1>6
  <1>8. StepFrame(w)
    BY <1>1, <1>3, <1>7 DEF StepFrame, ToldFrom, Told, DeadRaced
  <1>9. CallOK(w)'
    <2>1. HasEntry(w)'
      BY <1>1, <1>2, <1>3, <1>4 DEF HasEntry, Cached, Part, Creating
    <2> QED
      BY <1>2, <1>3, <2>1 DEF CallOK, IsNew, HasVars, HasGear, HasPlace,
                              Creating, Equipped
  <1>10. CallsInv'
    BY <1>2, <1>3, <1>8, <1>9, CallsStep DEF Creating
  <1>11. LiveLinked' /\ GearOfLiving'
    BY <1>1, <1>7, LiveLinkedStep, GearStep
  <1> QED
    BY <1>7, <1>10, <1>11 DEF IInv

\* A server that starts again has an empty cache and no calls
\* (mysql.hpp:86, redex.cpp:66-81).
LEMMA RestartStep ==
    ASSUME IInv, NEW s \in World, Restart(s)
    PROVE  IInv'
  <1>1. /\ UNCHANGED << db, linked, live, dead, last, raced >>
        /\ cache' = [cache EXCEPT ![s] = [k \in {} |-> 0]]
        /\ call' = [w \in Worker |-> IF ServerOf[w] = s THEN Idle ELSE call[w]]
        /\ stale' = {m \in stale : m[1] # s} /\ astray' = {m \in astray : m[1] # s}
        /\ TypeOK
    BY DEF Restart, tables, IInv
  <1>2. /\ DOMAIN cache' = World /\ Cached(s)' = {}
        /\ \A t \in World : t # s => cache'[t] = cache[t]
    BY <1>1 DEF TypeOK, Cached
  <1>3. \A t \in World : \A k \in Cached(t)' :
           t # s /\ k \in Cached(t) /\ cache'[t][k] = cache[t][k]
    BY <1>2 DEF Cached
  <1>4. /\ call' \in [Worker -> [at : Place, key : Key \cup {NoKey}]]
        /\ \A w \in Worker : IF ServerOf[w] = s THEN call'[w].at = "idle"
                             ELSE call'[w] = call[w]
    BY <1>1 DEF TypeOK, Idle, Place
  <1>5. TypeOK'
    <2>1. /\ \A t \in World : Cached(t)' \subseteq Key
          /\ \A t \in World : \A k \in Cached(t)' :
                cache'[t][k] \in [val : [Part -> Value \cup {Null}],
                                  id : [Part -> Uuid \cup {NoUuid}]]
      BY <1>1, <1>3 DEF TypeOK
    <2> QED
      BY <1>1, <1>2, <1>4, <2>1 DEF TypeOK
  <1>6. RowsInv'
    BY <1>1 DEF IInv, RowsInv
  <1>7. EntriesInv'
    BY <1>1, <1>3 DEF IInv, EntriesInv
  <1>8. Coherent'
    <2>1. \A t \in World : \A k \in Cached(t)' : \A p \in Part :
             << t, k, p >> \notin stale' => << t, k, p >> \notin stale
      BY <1>1, <1>3
    <2> QED
      BY <1>1, <1>3, <2>1 DEF IInv, Coherent
  <1>9. RowsKept
    BY <1>1 DEF RowsKept
  <1>10. OwnRows'
    <2>1. \A t \in World : \A k \in Cached(t)' : \A p \in Part :
             << t, k, p >> \notin astray' => << t, k, p >> \notin astray
      BY <1>1, <1>3
    <2> QED
      BY <1>1, <1>3, <1>9, <2>1, OwnRowsStep
  <1>11. LiveLinked' /\ GearOfLiving'
    BY <1>1, <1>9, LiveLinkedStep, GearStep
  <1>12. ASSUME NEW w \in Worker PROVE CallOK(w)'
    <2>1. CASE ServerOf[w] = s
      BY <1>4, <2>1, QuietCallOK
    <2>2. CASE ServerOf[w] # s
      <3>1. /\ call'[w] = call[w] /\ cache'[ServerOf[w]] = cache[ServerOf[w]]
            /\ CallOK(w)
        BY <1>2, <1>4, <2>2 DEF IInv, CallsInv
      <3>2. Entry(w)' = Entry(w)
        BY <3>1 DEF Entry
      <3>3. HasEntry(w)'
        BY <3>1 DEF CallOK, HasEntry, Cached
      <3>4. ASSUME NEW p \in Part, OwnId(w, p) PROVE OwnId(w, p)'
        BY <1>1, <1>3, <3>1, <3>2, <3>4 DEF OwnId
      <3>5. OwnKey(w) => OwnKey(w)'
        BY <1>3, <3>1 DEF OwnKey
      <3>7. IsNew(w)'
        BY <1>1, <3>1, <3>2, <3>4, <3>5 DEF CallOK, IsNew, Told, Part
      <3>6. HasVars(w)' /\ HasGear(w)' /\ HasPlace(w)'
        BY <1>1, <3>1, <3>2 DEF CallOK, HasVars, HasGear, HasPlace, OneLink
      <3> QED
        BY <3>3, <3>6, <3>7 DEF CallOK
    <2> QED
      BY <2>1, <2>2
  <1>13. Apart'
    BY <1>4 DEF IInv, CallsInv, Apart, Creating
  <1> QED
    BY <1>5, <1>6, <1>7, <1>8, <1>10, <1>11, <1>12, <1>13 DEF IInv, CallsInv

------------------------------------------------------------------------------
(* The invariant.                                                           *)

\* Nothing is stored and no call is under way.
LEMMA InitIInv == Init => IInv
  <1> SUFFICES ASSUME Init PROVE IInv
    OBVIOUS
  <1>1. /\ DOMAIN db = Part /\ \A p \in Part : DOMAIN db[p] = {}
        /\ linked = {} /\ live = {} /\ dead = {}
        /\ DOMAIN cache = World /\ \A s \in World : Cached(s) = {}
        /\ call = [w \in Worker |-> Idle]
        /\ last = 0 /\ stale = {} /\ raced = {} /\ astray = {}
    BY DEF Init, Cached
  <1>2. call \in [Worker -> [at : Place, key : Key \cup {NoKey}]]
        /\ \A w \in Worker : call[w].at = "idle"
    BY <1>1 DEF Idle, Place
  <1>3. TypeOK
    BY <1>1, <1>2, BoundAssumption DEF TypeOK
  <1>4. RowsInv /\ EntriesInv
    BY <1>1 DEF RowsInv, EntriesInv, Part
  <1>5. CallsInv
    BY <1>2 DEF CallsInv, Apart, CallOK, HasEntry, IsNew, HasVars, HasGear,
                HasPlace, Creating, Equipped, Part
  <1>6. Coherent /\ OwnRows /\ LiveLinked /\ GearOfLiving
    BY <1>1 DEF Coherent, OwnRows, LiveLinked, GearOfLiving
  <1> QED
    BY <1>3, <1>4, <1>5, <1>6 DEF IInv

\* Every statement of every call, and a restart, keeps the invariant.
LEMMA NextIInv == IInv /\ [Next]_vars => IInv'
  <1> SUFFICES ASSUME IInv, [Next]_vars PROVE IInv'
    OBVIOUS
  <1>1. ASSUME NEW w \in Worker, Create(w) PROVE IInv'
    <2>1. {"vars", "gear"} \subseteq Part
      BY DEF Part
    <2>2. CASE FindVars(w) \/ FindGear(w) \/ LinkVars(w) \/ InsertLive(w)
      BY <2>2, FindVarsStep, FindGearStep, LinkVarsStep, InsertLiveStep
    <2>3. CASE Insert(w, "vars", NoUuid, "insertvars", "linkvars")
      BY <2>3, InsertVarsStep
    <2>4. CASE Read(w, "vars", "readvars", "findgear")
      BY <2>4, ReadStep
    <2>5. CASE Insert(w, "gear", Entry(w).id["vars"], "insertgear", "insertplace")
      BY <2>5, InsertGearStep
    <2>6. CASE Read(w, "gear", "readgear", "insertplace")
      BY <2>6, ReadStep
    <2>7. CASE Insert(w, "place", Entry(w).id["gear"], "insertplace", "insertlive")
      BY <2>7, InsertPlaceStep
    <2> QED
      BY <1>1, <2>2, <2>3, <2>4, <2>5, <2>6, <2>7 DEF Create
  <1>2. ASSUME NEW w \in Worker, Begin(w) PROVE IInv'
    <2>1. CASE \E u \in Uuid : LinkChars(w, u) \/ LoadChar(w, u) \/ LoadBreaks(w, u)
      BY <2>1, LinkCharsStep, LoadCharStep, LoadBreaksStep
    <2>2. ASSUME NEW u \in Told, StartKill(w, u) PROVE IInv'
      BY <2>2, CallOnly
    <2>3. ASSUME NEW u \in Told, NEW f \in Form, NEW g \in Change,
                 << u, f >> \in Cached(ServerOf[w]),
                 NEW n \in Named(ServerOf[w], << u, f >>),
                 StartUpdate(w, << u, f >>, g, n)
          PROVE  IInv'
      BY <2>3, StartUpdateStep
    <2>4. CASE \E g \in New : Existing(w, g)
      BY <2>4, ExistingStep
    <2> QED
      BY <1>2, <2>1, <2>2, <2>3, <2>4 DEF Begin
  <1>3. ASSUME NEW w \in Worker, Step(w) PROVE IInv'
    <2>1. CASE Throw(w)
      BY <2>1, CallOnly
    <2>2. CASE Kill(w)
      BY <2>2, KillStep
    <2>3. CASE \E p \in Part : Write(w, p)
      BY <2>3, WriteStep
    <2> QED
      BY <1>1, <1>2, <1>3, <2>1, <2>2, <2>3 DEF Step
  <1>4. CASE UNCHANGED vars
    <2>1. UNCHANGED << db, linked, live, dead, cache, call, last, history >>
      BY <1>4 DEF vars, tables, counters
    <2>2. TypeOK'
      BY <2>1 DEF IInv, TypeOK, Cached, history
    <2>3. RowsInv' /\ EntriesInv' /\ RowsKept
      BY <2>1 DEF IInv, RowsInv, EntriesInv, RowsKept, Cached
    <2>4. Apart'
      BY <2>1 DEF IInv, CallsInv, Apart
    <2>5. ASSUME NEW w \in Worker PROVE CallOK(w)'
      <3>1. CallOK(w) /\ Entry(w)' = Entry(w)
        BY <2>1 DEF IInv, CallsInv, Entry
      <3>2. \A p \in Part : OwnId(w, p) => OwnId(w, p)'
        BY <2>1, <3>1 DEF OwnId, Cached
      <3>5. OwnKey(w) => OwnKey(w)'
        BY <2>1 DEF OwnKey, Cached
      <3>3. HasEntry(w)' /\ IsNew(w)'
        BY <2>1, <3>1, <3>2, <3>5 DEF CallOK, HasEntry, IsNew, Told, Cached, Part
      <3>4. HasVars(w)' /\ HasGear(w)' /\ HasPlace(w)'
        BY <2>1, <3>1 DEF CallOK, HasVars, HasGear, HasPlace, OneLink, history
      <3> QED
        BY <3>1, <3>3, <3>4 DEF CallOK
    <2>6. Coherent'
      BY <2>1 DEF IInv, Coherent, Cached, history
    <2>7. OwnRows'
      BY <2>1, <2>3, OwnRowsStep DEF Cached, history
    <2>8. LiveLinked' /\ GearOfLiving'
      BY <2>1, <2>3, LiveLinkedStep, GearStep DEF history
    <2> QED
      BY <2>2, <2>3, <2>4, <2>5, <2>6, <2>7, <2>8 DEF IInv, CallsInv
  <1> QED
    BY <1>3, <1>4, RestartStep DEF Next

\* IInv is an invariant of every behaviour.
LEMMA Inductive == Spec => []IInv
  BY InitIInv, NextIInv, PTL DEF Spec

------------------------------------------------------------------------------
(* What follows from it.                                                    *)

\* Every variable has its type, for any number of worlds, workers and uuids.
THEOREM TypeCorrect == Spec => []TypeOK
  <1>1. IInv => TypeOK
    BY DEF IInv
  <1> QED
    BY Inductive, <1>1, PTL

\* With one worker in each world, the cache shows something else than the
\* database only for a reason that history names: another entry wrote the row,
\* an updateChar threw before it wrote or wrote to another row, a loadChar
\* broke off, or createChar kept the call's value (mysql.cpp:1462-1472,
\* 1684-1741).  (A second worker could write a row between the SELECT of
\* loadChar and the filling, which LoadChar makes in one step.)
THEOREM CachesExplained ==
    ASSUME OneWorker
    PROVE  Spec => []Coherent
  <1>1. IInv => Coherent
    BY DEF IInv
  <1> QED
    BY Inductive, <1>1, PTL

\* With one worker in each world, updateChar writes a character to the rows
\* that loadChar reads him from, as long as no world is linked to the variables
\* of two, except for a part whose uuid an updateChar named otherwise or a
\* loadChar that broke off never filled (mysql.cpp:1429-1472, 1684-1712).
THEOREM RowsOwned ==
    ASSUME OneWorker
    PROVE  Spec => []OwnRows
  <1>1. IInv => OwnRows
    BY DEF IInv
  <1> QED
    BY Inductive, <1>1, PTL

\* The living share no gear with the dead, except where a killChar came
\* between createChar's search and its use (mysql.cpp:1583-1611).
THEOREM GearOnlyOfLiving == Spec => []GearOfLiving
  <1>1. IInv => GearOfLiving
    BY DEF IInv
  <1> QED
    BY Inductive, <1>1, PTL

\* A step after which no one more lives, and after which a call of createChar
\* is under way only where one was or nobody lives, keeps LiveInv.
LEMMA LiveKept ==
    ASSUME LiveInv, live' \subseteq live,
           \A v \in Worker : call'[v].at \in Creating =>
              \/ call[v].at \in Creating
              \/ \A r \in live : r[1] # ServerOf[v]
    PROVE  LiveInv'
  <1>1. OneLive'
    BY DEF LiveInv, OneLive
  <1>2. NoneYet'
    BY DEF LiveInv, NoneYet
  <1> QED
    BY <1>1, <1>2 DEF LiveInv

\* Where a call goes on to, if it is not one of createChar already.
LEMMA CreatingFrom ==
    ASSUME TypeOK, NEW w \in Worker, NEW place, Goes(w, place),
           call[w].at \in Creating \/ place \notin Creating
    PROVE  \A v \in Worker : call'[v].at \in Creating => call[v].at \in Creating
  BY DEF TypeOK, Goes, Idle, Creating

\* With one worker in each world, createChar's check of the living holds
\* until its character lives (mysql.cpp:1498-1524, 1671-1677).
LEMMA LiveStep ==
    ASSUME OneWorker, IInv, LiveInv, [Next]_vars
    PROVE  LiveInv'
  <1>0. TypeOK
    BY DEF IInv
  <1>1. ASSUME NEW w \in Worker, Step(w) PROVE LiveInv'
    <2>1. CASE Throw(w) \/ Kill(w)
      <3>1. Goes(w, "idle") /\ live' \subseteq live
        BY <2>1 DEF Throw, Kill, tables
      <3> QED
        BY <1>0, <3>1, CreatingFrom, LiveKept DEF Creating
    <2>2. CASE FindVars(w) \/ FindGear(w)
      <3>1. call[w].at \in Creating /\ live' = live /\ \E place : Goes(w, place)
        BY <2>2 DEF FindVars, FindGear, Find, At, Creating, tables
      <3> QED
        BY <1>0, <3>1, CreatingFrom, LiveKept
    <2>3. CASE LinkVars(w)
      <3>1. call[w].at \in Creating /\ live' = live /\ \E place : Goes(w, place)
        BY <2>3 DEF LinkVars, At, Creating
      <3> QED
        BY <1>0, <3>1, CreatingFrom, LiveKept
    <2>4. ASSUME NEW p \in Part, NEW up, NEW place \in Creating, NEW next,
                 Insert(w, p, up, place, next) \/ Read(w, p, place, next)
          PROVE  LiveInv'
      <3>1. call[w].at \in Creating /\ live' = live /\ Goes(w, next)
        BY <2>4 DEF Insert, Read, At, tables
      <3> QED
        BY <1>0, <3>1, CreatingFrom, LiveKept
    <2>5. CASE InsertLive(w)
      <3> DEFINE new == << ServerOf[w], call[w].key[1] >>
      <3>1. /\ call[w].at \in Creating /\ live' = live \cup {new}
            /\ Goes(w, "idle")
        BY <2>5 DEF InsertLive, At, Creating
      <3>2. /\ call'[w].at \notin Creating
            /\ \A v \in Worker \ {w} : call'[v] = call[v]
        BY <1>0, <3>1 DEF TypeOK, Goes, Idle, Creating
      <3>3. \A r \in live : r[1] # ServerOf[w]
        BY <3>1 DEF LiveInv, NoneYet
      <3>4. OneLive'
        BY <3>1, <3>3 DEF LiveInv, OneLive
      <3>5. NoneYet'
        BY <3>1, <3>2 DEF LiveInv, NoneYet, OneWorker
      <3> QED
        BY <3>4, <3>5 DEF LiveInv
    <2>6. CASE Create(w)
      <3>1. /\ {"insertvars", "readvars", "insertgear", "readgear",
                "insertplace"} \subseteq Creating
            /\ Part = {"place", "gear", "vars"}
        BY DEF Creating, Part
      <3>2. CASE \/ Insert(w, "vars", NoUuid, "insertvars", "linkvars")
                 \/ Read(w, "vars", "readvars", "findgear")
        BY <2>4, <3>1, <3>2
      <3>3. CASE \/ Insert(w, "gear", Entry(w).id["vars"], "insertgear",
                           "insertplace")
                 \/ Read(w, "gear", "readgear", "insertplace")
        BY <2>4, <3>1, <3>3
      <3>4. CASE Insert(w, "place", Entry(w).id["gear"], "insertplace",
                        "insertlive")
        BY <2>4, <3>1, <3>4
      <3> QED
        BY <2>2, <2>3, <2>5, <2>6, <3>2, <3>3, <3>4 DEF Create
    <2>7. ASSUME NEW p \in Part, Write(w, p) PROVE LiveInv'
      <3>1. live' = live /\ Goes(w, After[p]) /\ After[p] \notin Creating
        BY <2>7 DEF Write, After, Part, Creating
      <3> QED
        BY <1>0, <3>1, CreatingFrom, LiveKept
    <2>8. ASSUME NEW u, LinkChars(w, u) \/ LoadChar(w, u) \/ LoadBreaks(w, u)
          PROVE  LiveInv'
      <3>1. live' = live /\ call' = call
        BY <2>8 DEF LinkChars, LoadChar, LoadBreaks, tables
      <3> QED
        BY <3>1, LiveKept
    <2>9. ASSUME NEW place, NEW k, Begins(w, place, k), live' = live,
                 place \in Creating => \A r \in live : r[1] # ServerOf[w]
          PROVE  LiveInv'
      <3>1. \A v \in Worker : call'[v].at \in Creating =>
               \/ call[v].at \in Creating
               \/ \A r \in live : r[1] # ServerOf[v]
        BY <1>0, <2>9 DEF TypeOK, Begins
      <3> QED
        BY <2>9, <3>1, LiveKept
    <2>10. ASSUME NEW u, StartKill(w, u) PROVE LiveInv'
      BY <2>9, <2>10 DEF StartKill, tables, Creating
    <2>11. ASSUME NEW k, NEW g, NEW n, StartUpdate(w, k, g, n) PROVE LiveInv'
      BY <2>9, <2>11 DEF StartUpdate, tables, Creating
    <2>12. ASSUME NEW g, Existing(w, g) PROVE LiveInv'
      BY <2>9, <2>12 DEF Existing, tables
    <2> QED
      BY <1>1, <2>1, <2>6, <2>7, <2>8, <2>10, <2>11, <2>12 DEF Step, Begin
  <1>2. ASSUME NEW s \in World, Restart(s) PROVE LiveInv'
    <2>1. live' = live /\ \A v \in Worker :
             call'[v].at \in Creating => call[v].at \in Creating
      BY <1>2 DEF Restart, tables, Idle, Creating
    <2> QED
      BY <2>1, LiveKept
  <1>3. CASE UNCHANGED vars
    BY <1>3, LiveKept DEF vars, tables
  <1> QED
    BY <1>1, <1>2, <1>3 DEF Next

\* With one worker in each world, the player never has two live characters in
\* a world, wherever calls break off and servers start again
\* (mysql.cpp:1498-1524).
THEOREM OneLiveCharacter ==
    ASSUME OneWorker
    PROVE  Spec => []OneLive
  <1>1. Init => LiveInv
    BY DEF Init, LiveInv, OneLive, NoneYet
  <1>2. IInv /\ LiveInv /\ [Next]_vars => LiveInv'
    BY LiveStep
  <1>3. LiveInv => OneLive
    BY DEF LiveInv
  <1> QED
    BY Inductive, <1>1, <1>2, <1>3, PTL DEF Spec
==============================================================================
