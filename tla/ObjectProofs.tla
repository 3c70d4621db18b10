----------------------------- MODULE ObjectProofs -----------------------------
(***************************************************************************)
(* The inductive invariant of ObjectStore and what follows from it: caches *)
(* differ from the rows only where something explains it, no object is     *)
(* forgotten, updates arrive, and ObjectRegistry is implemented.           *)
(***************************************************************************)
EXTENDS ObjectStore, TLAPS

USE ServerAssumption, ValueAssumption, GiveAssumption, BoundAssumption

Entries == UNION {[K -> Content] : K \in SUBSET Key}
Reads == UNION {[O -> Content] : O \in SUBSET Object}
CallType == [at : Place, key : Key \cup {NoKey}, world : World, mine : BOOLEAN,
             plain : BOOLEAN, read : Reads, give : Give, late : SUBSET Object]

\* What the uuid cells that name no row belong to.
NamelessInv ==
    /\ nameless \subseteq World \X Key
    /\ \A m \in nameless : m[2] \in Cached(m[1])

TypeInv ==
    /\ rows \in [DOMAIN rows -> Content] /\ DOMAIN rows \subseteq Object
    /\ link \in [DOMAIN link -> {"live", "dead"}]
    /\ DOMAIN link \subseteq World \X DOMAIN rows
    /\ cache \in [World -> Entries]
    /\ call \in [Worker -> CallType]
    /\ failures \in 0..MaxFailures
    /\ stale \subseteq World \X Key \X Cell /\ stray \subseteq Object
    /\ NamelessInv

\* A call has what its next statement takes.
PlaceOK(v) ==
    /\ call[v].at \notin {"idle", "dump"} => call[v].key \in Key
    /\ At(v, "insert") => IF call[v].mine THEN call[v].key \in Cached(ServerOf[v])
                          ELSE call[v].key[1] \in DOMAIN call[v].read
    /\ At(v, "fill") => call[v].key[1] \in DOMAIN call[v].read
    /\ At(v, "fill") \/ At(v, "dump") => DOMAIN call[v].read \subseteq DOMAIN rows

\* What was read is still in the row, unless another call has written it.
ReadOK(v) ==
    At(v, "fill") \/ At(v, "dump") =>
        \A o \in DOMAIN call[v].read \ call[v].late : call[v].read[o] = rows[o]

\* What an update was given is in the cached object, which names its row if the
\* uuid was plain, unless another call has filled it.
GivenOK(v) ==
    At(v, "write") =>
        /\ call[v].key \in Cached(ServerOf[v]) /\ DOMAIN call[v].give \subseteq Cell
        /\ call[v].key[1] \notin call[v].late =>
              /\ \A c \in DOMAIN call[v].give :
                    cache[ServerOf[v]][call[v].key][c] = call[v].give[c]
              /\ call[v].plain => << ServerOf[v], call[v].key >> \notin nameless

CallOK(v) == PlaceOK(v) /\ ReadOK(v) /\ GivenOK(v)
CallInv == \A v \in Worker : CallOK(v)

IInv == TypeInv /\ CallInv /\ Coherent /\ NothingForgotten

------------------------------------------------------------------------------
(* Facts about the helpers.                                                 *)

LEMMA WithFacts ==
    ASSUME NEW f, NEW x, NEW y
    PROVE  /\ DOMAIN With(f, x, y) = DOMAIN f \cup {x}
           /\ With(f, x, y)[x] = y
           /\ \A z \in DOMAIN f : z # x => With(f, x, y)[z] = f[z]
  BY DEF With

LEMMA IdleFacts ==
    ASSUME NEW w \in Worker
    PROVE  /\ Idle \in CallType /\ Idle.at = "idle" /\ Idle.late = {}
           /\ DOMAIN Idle.read = {} /\ DOMAIN Idle.give = {}
  <1>1. ServerOf[w] \in World /\ (CHOOSE s \in World : TRUE) \in World
    OBVIOUS
  <1>2. [o \in {} |-> 0] \in [{} -> Content] /\ [c \in {} |-> 0] \in [{} -> Value \cup {Null}]
    OBVIOUS
  <1>3. [o \in {} |-> 0] \in Reads
    BY <1>2 DEF Reads
  <1>4. [c \in {} |-> 0] \in Give
    BY <1>2 DEF Give
  <1> QED
    BY <1>1, <1>3, <1>4 DEF Idle, CallType, Place

LEMMA BeginsFacts ==
    ASSUME NEW w \in Worker, NEW place \in Place, NEW k \in Key \cup {NoKey}
    PROVE  /\ Begins(w, place, k) \in CallType
           /\ Begins(w, place, k).at = place /\ Begins(w, place, k).key = k
           /\ Begins(w, place, k).late = {}
           /\ Begins(w, place, k).world = ServerOf[w]
           /\ DOMAIN Begins(w, place, k).read = {}
           /\ DOMAIN Begins(w, place, k).give = {}
  BY IdleFacts DEF Begins, CallType

LEMMA EntriesFacts ==
    ASSUME NEW e \in Entries
    PROVE  /\ DOMAIN e \subseteq Key /\ e = [k \in DOMAIN e |-> e[k]]
           /\ \A k \in DOMAIN e : e[k] \in Content
  BY DEF Entries

LEMMA ReadsFacts ==
    ASSUME NEW e \in Reads
    PROVE  /\ DOMAIN e \subseteq Object /\ e = [o \in DOMAIN e |-> e[o]]
           /\ \A o \in DOMAIN e : e[o] \in Content
  BY DEF Reads

LEMMA GiveFacts ==
    ASSUME NEW g \in Give
    PROVE  /\ DOMAIN g \subseteq Cell
           /\ \A c \in DOMAIN g : g[c] \in Value \cup {Null}
  BY DEF Give

LEMMA OverFacts ==
    ASSUME NEW e \in Content, NEW g \in Give
    PROVE  /\ Over(e, g) \in Content
           /\ \A c \in Cell : Over(e, g)[c] = IF c \in DOMAIN g THEN g[c] ELSE e[c]
  BY GiveFacts DEF Over, Content

\* A server's cache takes one entry.
LEMMA SetEntryFacts ==
    ASSUME cache \in [World -> Entries], NEW s \in World, NEW k \in Key,
           NEW e \in Content, SetEntry(s, k, e)
    PROVE  /\ cache' \in [World -> Entries]
           /\ Cached(s)' = Cached(s) \cup {k} /\ cache'[s][k] = e
           /\ \A j \in Cached(s) : j # k => cache'[s][j] = cache[s][j]
           /\ \A t \in World : t # s => cache'[t] = cache[t]
  <1> DEFINE f == With(cache[s], k, e)
  <1>1. cache' = [cache EXCEPT ![s] = f]
    BY DEF SetEntry
  <1>2. f = [j \in DOMAIN cache[s] \cup {k} |-> IF j = k THEN e ELSE cache[s][j]]
    BY DEF With
  <1>3. f \in [DOMAIN cache[s] \cup {k} -> Content]
        /\ DOMAIN cache[s] \cup {k} \subseteq Key
    BY <1>2, EntriesFacts
  <1>4. f \in Entries
    BY <1>3 DEF Entries
  <1> QED
    BY <1>1, <1>2, <1>4 DEF Cached

------------------------------------------------------------------------------
(* The calls of the other workers.                                          *)

\* a is b, but that more of what it holds may be out of date.
Ages(a, b) ==
    /\ b.at = a.at /\ b.key = a.key /\ b.world = a.world /\ b.mine = a.mine
    /\ b.plain = a.plain /\ b.read = a.read /\ b.give = a.give /\ a.late \subseteq b.late

LEMMA DelaysFacts ==
    ASSUME TypeInv, NEW o \in Object, NEW ws \in SUBSET Worker
    PROVE  /\ Delays(o, ws) \in [Worker -> CallType]
           /\ \A v \in Worker :
                 /\ Ages(call[v], Delays(o, ws)[v])
                 /\ v \in ws /\ o \in DOMAIN call[v].read
                       => o \in Delays(o, ws)[v].late
  <1> SUFFICES ASSUME NEW v \in Worker
               PROVE  /\ Delays(o, ws)[v] \in CallType
                      /\ Ages(call[v], Delays(o, ws)[v])
                      /\ v \in ws /\ o \in DOMAIN call[v].read
                            => o \in Delays(o, ws)[v].late
    BY DEF Delays
  <1>1. call[v] \in CallType
    BY DEF TypeInv
  <1> DEFINE b == [call[v] EXCEPT !.late = call[v].late \cup {o}]
  <1>2. b \in CallType /\ Ages(call[v], b) /\ o \in b.late
    BY <1>1 DEF CallType, Ages
  <1>3. Delays(o, ws)[v] = IF v \in ws /\ o \in DOMAIN call[v].read
                           THEN b ELSE call[v]
    BY DEF Delays
  <1> QED
    BY <1>1, <1>2, <1>3 DEF Ages

LEMMA RefillsFacts ==
    ASSUME TypeInv, NEW s \in World, NEW k \in Key, NEW ws \in SUBSET Worker
    PROVE  /\ Refills(s, k, ws) \in [Worker -> CallType]
           /\ \A v \in Worker :
                 /\ Ages(call[v], Refills(s, k, ws)[v])
                 /\ v \in ws /\ At(v, "write") /\ ServerOf[v] = s /\ call[v].key = k
                       => k[1] \in Refills(s, k, ws)[v].late
  <1> SUFFICES ASSUME NEW v \in Worker
               PROVE  /\ Refills(s, k, ws)[v] \in CallType
                      /\ Ages(call[v], Refills(s, k, ws)[v])
                      /\ v \in ws /\ At(v, "write") /\ ServerOf[v] = s
                         /\ call[v].key = k => k[1] \in Refills(s, k, ws)[v].late
    BY DEF Refills
  <1>1. call[v] \in CallType /\ k[1] \in Object
    BY DEF TypeInv, Key
  <1> DEFINE b == [call[v] EXCEPT !.late = call[v].late \cup {k[1]}]
  <1>2. b \in CallType /\ Ages(call[v], b) /\ k[1] \in b.late
    BY <1>1 DEF CallType, Ages
  <1>3. Refills(s, k, ws)[v] = IF v \in ws /\ At(v, "write") /\ ServerOf[v] = s
                                  /\ call[v].key = k
                               THEN b ELSE call[v]
    BY DEF Refills
  <1> QED
    BY <1>1, <1>2, <1>3 DEF Ages

\* A call keeps what it knows while another one writes rows and entries.
LEMMA OtherOK ==
    ASSUME IInv, NEW v \in Worker, Ages(call[v], call'[v]),
           DOMAIN rows \subseteq DOMAIN rows',
           \A o \in DOMAIN rows : \/ rows'[o] = rows[o]
                                  \/ o \in DOMAIN call[v].read => o \in call'[v].late,
           \A k \in Cached(ServerOf[v]) :
              /\ k \in DOMAIN cache'[ServerOf[v]]
              /\ \/ cache'[ServerOf[v]][k] = cache[ServerOf[v]][k]
                 \/ At(v, "write") /\ call[v].key = k => k[1] \in call'[v].late,
           At(v, "write") /\ << ServerOf[v], call[v].key >> \in nameless' =>
              \/ << ServerOf[v], call[v].key >> \in nameless
              \/ call[v].key[1] \in call'[v].late
    PROVE  CallOK(v)'
  <1>1. CallOK(v)
    BY DEF IInv, CallInv
  <1>2. PlaceOK(v)'
    BY <1>1 DEF CallOK, PlaceOK, At, Ages, Cached
  <1>3. ReadOK(v)'
    BY <1>1 DEF CallOK, PlaceOK, ReadOK, At, Ages
  <1>4. GivenOK(v)'
    BY <1>1 DEF CallOK, GivenOK, At, Ages, Cached
  <1> QED
    BY <1>2, <1>3, <1>4 DEF CallOK

\* An idle call, and one that has nothing to know.
LEMMA FreshOK ==
    ASSUME NEW v \in Worker, call'[v].at \in {"idle", "link", "parent", "kill"},
           call'[v].at # "idle" => call'[v].key \in Key
    PROVE  CallOK(v)'
  BY DEF CallOK, PlaceOK, ReadOK, GivenOK, At

------------------------------------------------------------------------------
(* What does not change.                                                    *)

LEMMA CoherentKept ==
    ASSUME IInv, UNCHANGED << rows, cache >>, stale \subseteq stale'
    PROVE  Coherent'
  BY DEF IInv, Coherent, Cached

LEMMA NamelessKept ==
    ASSUME IInv, NEW s \in World, NEW k \in Key, k \in DOMAIN cache'[s],
           \A t \in World : \A j \in Cached(t) : j \in DOMAIN cache'[t],
           nameless' \subseteq nameless \cup {<< s, k >>}
    PROVE  NamelessInv'
  BY DEF IInv, TypeInv, NamelessInv, Cached

LEMMA ForgottenKept ==
    ASSUME IInv, DOMAIN link' = DOMAIN link, DOMAIN rows' = DOMAIN rows,
           stray \subseteq stray',
           \A v \in Worker : Unlinked(v) \subseteq Unlinked(v)' \cup stray'
    PROVE  NothingForgotten'
  BY DEF IInv, NothingForgotten, Links

LEMMA InitIInv == Init => IInv
  <1> SUFFICES ASSUME Init PROVE IInv
    OBVIOUS
  <1> USE DEF Init
  <1>1. call \in [Worker -> CallType] /\ \A v \in Worker : call[v].at = "idle"
    BY IdleFacts
  <1>2. [k \in {} |-> 0] \in Entries
    <2>1. [k \in {} |-> 0] \in [{} -> Content]
      OBVIOUS
    <2> QED
      BY <2>1 DEF Entries
  <1>3. TypeInv
    BY <1>1, <1>2 DEF TypeInv, NamelessInv
  <1>4. CallInv
    BY <1>1 DEF CallInv, CallOK, PlaceOK, ReadOK, GivenOK, At
  <1>5. Coherent /\ NothingForgotten
    BY DEF Coherent, NothingForgotten, Cached
  <1> QED
    BY <1>3, <1>4, <1>5 DEF IInv

------------------------------------------------------------------------------
(* The steps.  Those that only move their call: *)

\* A call sets itself, and nothing else of what is known changes.
LEMMA SetsFacts ==
    ASSUME TypeInv, NEW w \in Worker, NEW r \in CallType, Sets(w, r)
    PROVE  /\ call' \in [Worker -> CallType] /\ call'[w] = r
           /\ \A v \in Worker \ {w} : call'[v] = call[v]
  BY DEF TypeInv, Sets

LEMMA EndsFacts ==
    ASSUME TypeInv, NEW w \in Worker, Ends(w)
    PROVE  /\ call' \in [Worker -> CallType] /\ call'[w].at = "idle"
           /\ \A v \in Worker \ {w} : call'[v] = call[v]
  BY IdleFacts, SetsFacts DEF Ends

LEMMA OthersIdle ==
    ASSUME IInv, NEW w \in Worker, UNCHANGED << rows, cache, nameless >>, CallOK(w)',
           \A v \in Worker \ {w} : call'[v] = call[v]
    PROVE  CallInv'
  <1> SUFFICES ASSUME NEW v \in Worker, v # w PROVE CallOK(v)'
    BY DEF CallInv
  <1>1. Ages(call[v], call'[v])
    BY DEF Ages
  <1> QED
    BY <1>1, OtherOK DEF Cached

LEMMA StepThrow ==
    ASSUME IInv, NEW w \in Worker, Throw(w) PROVE IInv'
  <1> USE DEF Throw, tables
  <1>1. /\ call' \in [Worker -> CallType] /\ call'[w].at = "idle"
        /\ \A v \in Worker \ {w} : call'[v] = call[v]
    BY EndsFacts DEF IInv
  <1>2. Unlinked(w) \subseteq Object
    BY DEF Unlinked, IInv, CallInv, CallOK, PlaceOK, At, Key
  <1>3. TypeInv'
    BY <1>1, <1>2 DEF IInv, TypeInv, NamelessInv, Cached
  <1>4. CallInv'
    BY <1>1, FreshOK, OthersIdle
  <1>5. Coherent'
    BY CoherentKept
  <1>6. NothingForgotten'
    <2>1. \A v \in Worker : Unlinked(v) \subseteq Unlinked(v)' \cup stray'
      BY <1>1 DEF Unlinked, At
    <2> QED
      BY <2>1, ForgottenKept
  <1> QED
    BY <1>3, <1>4, <1>5, <1>6 DEF IInv

LEMMA StepRestart ==
    ASSUME IInv, NEW s \in World, Restart(s) PROVE IInv'
  <1> DEFINE his == {w \in Worker : ServerOf[w] = s}
             none == [k \in {} |-> 0]
  <1> USE DEF Restart, tables
  <1>1. none \in Entries
    <2>1. none \in [{} -> Content]
      OBVIOUS
    <2> QED
      BY <2>1 DEF Entries
  <1>2. /\ call' \in [Worker -> CallType]
        /\ \A v \in Worker : IF ServerOf[v] = s THEN call'[v].at = "idle"
                             ELSE call'[v] = call[v]
    BY IdleFacts DEF IInv, TypeInv
  <1>3. /\ cache' \in [World -> Entries] /\ cache'[s] = none
        /\ \A t \in World : t # s => cache'[t] = cache[t]
    BY <1>1 DEF IInv, TypeInv
  <1>4. \A v \in Worker : Unlinked(v) \subseteq Object
    BY DEF Unlinked, IInv, CallInv, CallOK, PlaceOK, At, Key
  <1>5. TypeInv'
    <2>1. UNION {Unlinked(v) : v \in his} \subseteq Object
      BY <1>4
    <2>2. NamelessInv'
      BY <1>3 DEF IInv, TypeInv, NamelessInv, Cached
    <2> QED
      BY <1>2, <1>3, <2>1, <2>2 DEF IInv, TypeInv
  <1>6. CallInv'
    <2> SUFFICES ASSUME NEW v \in Worker PROVE CallOK(v)'
      BY DEF CallInv
    <2>1. CASE ServerOf[v] = s
      BY <1>2, <2>1, FreshOK
    <2>2. CASE ServerOf[v] # s
      <3>1. Ages(call[v], call'[v]) /\ cache'[ServerOf[v]] = cache[ServerOf[v]]
        BY <1>2, <1>3, <2>2 DEF Ages
      <3> QED
        BY <3>1, OtherOK DEF Cached
    <2> QED
      BY <2>1, <2>2
  <1>7. Coherent'
    <2> SUFFICES ASSUME NEW t \in World, NEW k \in DOMAIN cache'[t], NEW c \in Cell,
                        k[1] \in DOMAIN rows, << t, k, c >> \notin stale'
                 PROVE  cache'[t][k][c] = rows'[k[1]][c]
      BY DEF Coherent, Cached
    <2>1. t # s /\ k \in Cached(t)
      BY <1>3 DEF Cached
    <2>2. << t, k, c >> \notin stale
      BY <2>1
    <2> QED
      BY <1>3, <2>1, <2>2 DEF IInv, Coherent
  <1>8. NothingForgotten'
    <2>1. \A v \in Worker : Unlinked(v) \subseteq Unlinked(v)' \cup stray'
      BY <1>2 DEF Unlinked, At
    <2> QED
      BY <2>1, ForgottenKept
  <1> QED
    BY <1>5, <1>6, <1>7, <1>8 DEF IInv

------------------------------------------------------------------------------
(* loadObject and dumpObjects.                                              *)

\* A SELECT reads rows.
LEMMA ReadFacts ==
    ASSUME TypeInv, NEW w \in Worker, NEW place \in Place, NEW k \in Key \cup {NoKey},
           NEW e \in Reads, Sets(w, [Begins(w, place, k) EXCEPT !.read = e])
    PROVE  /\ call' \in [Worker -> CallType]
           /\ call'[w].at = place /\ call'[w].key = k /\ call'[w].read = e
           /\ \A v \in Worker \ {w} : call'[v] = call[v]
  <1> DEFINE r == [Begins(w, place, k) EXCEPT !.read = e]
  <1>1. r \in CallType /\ r.at = place /\ r.key = k /\ r.read = e
    BY BeginsFacts DEF CallType
  <1> QED
    BY <1>1, SetsFacts

\* An idle call has begun; the tables, the caches and the history stay.
LEMMA BeginsKeeps ==
    ASSUME IInv, NEW w \in Worker, At(w, "idle"), CallOK(w)',
           call' \in [Worker -> CallType],
           \A v \in Worker \ {w} : call'[v] = call[v],
           UNCHANGED << tables, cache, nameless, failures, history >>
    PROVE  IInv'
  <1> USE DEF tables, history
  <1>0. NamelessInv'
    BY DEF IInv, TypeInv, NamelessInv, Cached
  <1>1. TypeInv' /\ CallInv' /\ Coherent'
    BY <1>0, OthersIdle, CoherentKept DEF IInv, TypeInv
  <1>2. \A v \in Worker : Unlinked(v) \subseteq Unlinked(v)' \cup stray'
    BY DEF Unlinked, At
  <1> QED
    BY <1>1, <1>2, ForgottenKept DEF IInv

LEMMA StepLoad ==
    ASSUME IInv, NEW w \in Worker, NEW k \in Key, Load(w, k) PROVE IInv'
  <1> DEFINE o == k[1]
             e == With([p \in {} |-> 0], o, rows[o])
  <1>1. o \in Object /\ o \in DOMAIN rows /\ rows[o] \in Content
    BY DEF Load, Live, Links, IInv, TypeInv, Key
  <1>2. e \in Reads /\ DOMAIN e = {o} /\ e[o] = rows[o]
    <2>1. e = [p \in {o} |-> rows[o]]
      BY DEF With
    <2>2. e \in [{o} -> Content] /\ {o} \in SUBSET Object
      BY <1>1, <2>1
    <2> QED
      BY <2>1, <2>2 DEF Reads
  <1>3. [Begins(w, "fill", k) EXCEPT !.read = With(@, o, rows[o])]
            = [Begins(w, "fill", k) EXCEPT !.read = e]
    BY DEF Begins, Idle
  <1>4. /\ call' \in [Worker -> CallType]
        /\ call'[w].at = "fill" /\ call'[w].key = k /\ call'[w].read = e
        /\ \A v \in Worker \ {w} : call'[v] = call[v]
    BY <1>2, <1>3, ReadFacts DEF Load, IInv, Place
  <1>5. CallOK(w)'
    BY <1>1, <1>2, <1>4 DEF CallOK, PlaceOK, ReadOK, GivenOK, At, Load, tables
  <1> QED
    BY <1>4, <1>5, BeginsKeeps DEF Load

LEMMA StepDump ==
    ASSUME IInv, NEW w \in Worker, NEW D \in SUBSET Object, Dump(w, D) PROVE IInv'
  <1> DEFINE e == [o \in D |-> rows[o]]
  <1>1. D \subseteq DOMAIN rows
    BY DEF Dump, IInv, TypeInv
  <1>2. e \in Reads
    <2>1. e \in [D -> Content]
      BY <1>1 DEF IInv, TypeInv
    <2> QED
      BY <2>1 DEF Reads
  <1>3. /\ call' \in [Worker -> CallType]
        /\ call'[w].at = "dump" /\ call'[w].read = e
        /\ \A v \in Worker \ {w} : call'[v] = call[v]
    BY <1>2, ReadFacts DEF Dump, IInv, Place
  <1>4. CallOK(w)'
    BY <1>1, <1>3 DEF CallOK, PlaceOK, ReadOK, GivenOK, At, Dump, tables
  <1> QED
    BY <1>3, <1>4, BeginsKeeps DEF Dump

LEMMA StepFill ==
    ASSUME IInv, NEW w \in Worker, NEW s, s = ServerOf[w], NEW k, k = call[w].key,
           NEW o, o = k[1], NEW e, e = call[w].read[o], Fill(w)
    PROVE  IInv'
  <1>1. /\ s \in World /\ k \in Key /\ o \in Object /\ e \in Content
        /\ o \in DOMAIN rows /\ (o \notin call[w].late => e = rows[o])
    <2>1. /\ call[w] \in CallType /\ k \in Key /\ o \in DOMAIN call[w].read
          /\ DOMAIN call[w].read \subseteq DOMAIN rows
          /\ (o \notin call[w].late => e = rows[o])
      BY DEF Fill, IInv, TypeInv, CallInv, CallOK, PlaceOK, ReadOK, At
    <2>2. call[w].read \in Reads
      BY <2>1 DEF CallType
    <2> QED
      BY <2>1, <2>2, ReadsFacts DEF Key
  <1>2. /\ SetEntry(s, k, e) /\ UNCHANGED << rows, link, failures, stray >>
        /\ stale' = IF o \in call[w].late THEN stale \cup Marks(s, k, Cell)
                    ELSE stale \ Marks(s, k, Cell)
        /\ nameless' \subseteq nameless
        /\ call' = [Refills(s, k, Worker \ {w}) EXCEPT ![w] = Idle]
    BY DEF Fill, tables, Spelled
  <1>3. /\ cache' \in [World -> Entries]
        /\ Cached(s)' = Cached(s) \cup {k} /\ cache'[s][k] = e
        /\ \A j \in Cached(s) : j # k => cache'[s][j] = cache[s][j]
        /\ \A t \in World : t # s => cache'[t] = cache[t]
    BY <1>1, <1>2, SetEntryFacts DEF IInv, TypeInv
  <1>4. /\ call' \in [Worker -> CallType] /\ call'[w].at = "idle"
        /\ \A v \in Worker \ {w} :
              /\ Ages(call[v], call'[v])
              /\ At(v, "write") /\ ServerOf[v] = s /\ call[v].key = k
                    => o \in call'[v].late
    <2>1. Worker \ {w} \in SUBSET Worker
      OBVIOUS
    <2> QED
      BY <1>1, <1>2, <2>1, RefillsFacts, IdleFacts DEF IInv
  <1>5. TypeInv'
    <2>1. NamelessInv'
      BY <1>1, <1>2, <1>3, NamelessKept DEF Cached
    <2> QED
      BY <1>1, <1>2, <1>3, <1>4, <2>1 DEF IInv, TypeInv, Marks
  <1>6. CallInv'
    <2> SUFFICES ASSUME NEW v \in Worker PROVE CallOK(v)'
      BY DEF CallInv
    <2>1. CASE v = w
      BY <1>4, <2>1, FreshOK
    <2>2. CASE v # w
      BY <1>2, <1>3, <1>4, <2>2, OtherOK DEF Cached
    <2> QED
      BY <2>1, <2>2
  <1>7. Coherent'
    <2> SUFFICES ASSUME NEW t \in World, NEW j \in DOMAIN cache'[t], NEW c \in Cell,
                        j[1] \in DOMAIN rows, << t, j, c >> \notin stale'
                 PROVE  cache'[t][j][c] = rows[j[1]][c]
      BY <1>2 DEF Coherent, Cached
    <2>1. CASE t = s /\ j = k
      BY <1>1, <1>2, <1>3, <2>1 DEF Marks
    <2>2. CASE ~(t = s /\ j = k)
      <3>1. j \in Cached(t) /\ cache'[t][j] = cache[t][j]
        BY <1>3, <2>2 DEF Cached
      <3>2. << t, j, c >> \notin stale
        BY <1>2, <2>2 DEF Marks
      <3> QED
        BY <3>1, <3>2 DEF IInv, Coherent
    <2> QED
      BY <2>1, <2>2
  <1>8. NothingForgotten'
    <2>1. \A v \in Worker : Unlinked(v) \subseteq Unlinked(v)' \cup stray'
      BY <1>4 DEF Unlinked, At, Ages, Fill
    <2> QED
      BY <1>2, <2>1, ForgottenKept
  <1> QED
    BY <1>5, <1>6, <1>7, <1>8 DEF IInv

LEMMA StepKeep ==
    ASSUME IInv, NEW w \in Worker, NEW s, s = ServerOf[w],
           NEW read, read = call[w].read, Keep(w)
    PROVE  IInv'
  <1> DEFINE new == {k \in Key \ Cached(s) : k[1] \in DOMAIN read /\ k[2] = "upper"}
             late == {k \in new : k[1] \in call[w].late}
             f == [k \in Cached(s) \cup new |->
                      IF k \in new THEN read[k[1]] ELSE cache[s][k]]
  <1>1. /\ s \in World /\ read \in Reads /\ DOMAIN read \subseteq DOMAIN rows
        /\ \A o \in DOMAIN read \ call[w].late : read[o] = rows[o]
    BY DEF Keep, IInv, TypeInv, CallType, CallInv, CallOK, PlaceOK, ReadOK, At
  <1>2. /\ cache' = [cache EXCEPT ![s] = f]
        /\ stale' = stale \cup ({s} \X late \X Cell) /\ Ends(w)
        /\ UNCHANGED << rows, link, nameless, failures, stray >>
    BY DEF Keep, tables
  <1>3. f \in Entries
    <2>1. f \in [Cached(s) \cup new -> Content]
      BY <1>1, ReadsFacts, EntriesFacts DEF Cached, IInv, TypeInv
    <2>2. Cached(s) \cup new \subseteq Key
      BY <1>1, EntriesFacts DEF Cached, IInv, TypeInv
    <2> QED
      BY <2>1, <2>2 DEF Entries
  <1>4. /\ cache' \in [World -> Entries] /\ cache'[s] = f
        /\ \A t \in World : t # s => cache'[t] = cache[t]
    BY <1>1, <1>2, <1>3 DEF IInv, TypeInv
  <1>5. \A k \in Cached(s) : k \in DOMAIN f /\ f[k] = cache[s][k]
    OBVIOUS
  <1>6. /\ call' \in [Worker -> CallType] /\ call'[w].at = "idle"
        /\ \A v \in Worker \ {w} : call'[v] = call[v]
    BY <1>2, EndsFacts DEF IInv
  <1>7. TypeInv'
    <2>1. NamelessInv'
      BY <1>2, <1>4, <1>5 DEF IInv, TypeInv, NamelessInv, Cached
    <2> QED
      BY <1>1, <1>2, <1>4, <1>6, <2>1 DEF IInv, TypeInv
  <1>8. CallInv'
    <2> SUFFICES ASSUME NEW v \in Worker PROVE CallOK(v)'
      BY DEF CallInv
    <2>1. CASE v = w
      BY <1>6, <2>1, FreshOK
    <2>2. CASE v # w
      <3>1. Ages(call[v], call'[v])
        BY <1>6, <2>2 DEF Ages
      <3>2. \A k \in Cached(ServerOf[v]) :
               /\ k \in DOMAIN cache'[ServerOf[v]]
               /\ cache'[ServerOf[v]][k] = cache[ServerOf[v]][k]
        BY <1>4, <1>5 DEF Cached
      <3> QED
        BY <1>2, <3>1, <3>2, OtherOK
    <2> QED
      BY <2>1, <2>2
  <1>9. Coherent'
    <2>0. rows' = rows
      BY <1>2
    <2> SUFFICES ASSUME NEW t \in World, NEW j \in DOMAIN cache'[t], NEW c \in Cell,
                        j[1] \in DOMAIN rows, << t, j, c >> \notin stale'
                 PROVE  cache'[t][j][c] = rows[j[1]][c]
      BY <2>0 DEF Coherent, Cached
    <2>1. CASE t = s /\ j \in new
      <3>1. j \notin late
        BY <1>2, <2>1
      <3> QED
        BY <1>1, <1>4, <2>1, <3>1
    <2>2. CASE ~(t = s /\ j \in new)
      <3>1. j \in Cached(t) /\ cache'[t][j] = cache[t][j]
        BY <1>4, <2>2 DEF Cached
      <3>2. << t, j, c >> \notin stale
        BY <1>2
      <3> QED
        BY <3>1, <3>2 DEF IInv, Coherent
    <2> QED
      BY <2>1, <2>2
  <1>10. NothingForgotten'
    <2>1. \A v \in Worker : Unlinked(v) \subseteq Unlinked(v)' \cup stray'
      BY <1>6 DEF Unlinked, At, Keep
    <2> QED
      BY <1>2, <2>1, ForgottenKept
  <1> QED
    BY <1>7, <1>8, <1>9, <1>10 DEF IInv

------------------------------------------------------------------------------
(* createObject.                                                            *)

LEMMA StepCreate ==
    ASSUME IInv, NEW w \in Worker, NEW k \in Key, NEW g \in Give,
           NEW plain \in BOOLEAN, NEW s, s = ServerOf[w], Create(w, k, g, plain)
    PROVE  IInv'
  <1> DEFINE o == k[1]
             null == [c \in Cell |-> Null]
             e == Over(null, g)
             new == k \notin Cached(s)
             r == [Begins(w, "insert", k) EXCEPT !.mine = new, !.plain = plain,
                      !.read = IF new THEN @ ELSE With(@, o, e)]
             b == Begins(w, "insert", k)
             reads == IF new THEN b.read ELSE With(b.read, o, e)
  <1>1. s \in World /\ o \in Object /\ null \in Content /\ e \in Content
    <2>1. null \in Content
      BY DEF Content
    <2> QED
      BY <2>1, OverFacts DEF Key
  <1>2. /\ At(w, "idle") /\ Sets(w, r)
        /\ IF new THEN SetEntry(s, k, e) ELSE UNCHANGED cache
        /\ stale' = IF new THEN stale \cup Marks(s, k, Cell) ELSE stale
        /\ nameless' \subseteq IF new THEN nameless \cup {<< s, k >>} ELSE nameless
        /\ failures' \in 0..MaxFailures
        /\ UNCHANGED << rows, link, stray >>
    BY DEF Create, tables, Spelled, Counts, IInv, TypeInv
  <1>3. /\ r \in CallType /\ r.at = "insert" /\ r.key = k /\ r.mine = new
        /\ ~new => o \in DOMAIN r.read
    <2>1. b \in CallType /\ b.at = "insert" /\ b.key = k
      BY BeginsFacts DEF Place
    <2>2. reads \in Reads /\ (~new => o \in DOMAIN reads)
      <3>1. b.read \in Reads
        BY <2>1 DEF CallType
      <3>2. CASE ~new
        <4>1. With(b.read, o, e) = [p \in DOMAIN b.read \cup {o} |->
                                       IF p = o THEN e ELSE b.read[p]]
          BY DEF With
        <4>2. With(b.read, o, e) \in [DOMAIN b.read \cup {o} -> Content]
          BY <1>1, <3>1, <4>1, ReadsFacts
        <4>3. DOMAIN b.read \cup {o} \in SUBSET Object
          BY <1>1, <3>1, ReadsFacts
        <4> QED
          BY <3>2, <4>1, <4>2, <4>3 DEF Reads
      <3> QED
        BY <3>1, <3>2
    <2>3. r = [b EXCEPT !.mine = new, !.plain = plain, !.read = reads]
      BY <2>1 DEF CallType
    <2> HIDE DEF b, reads
    <2> QED
      BY <2>1, <2>2, <2>3 DEF CallType
  <1>4. /\ call' \in [Worker -> CallType] /\ call'[w] = r
        /\ \A v \in Worker \ {w} : call'[v] = call[v]
    BY <1>2, <1>3, SetsFacts DEF IInv
  <1>5. /\ cache' \in [World -> Entries]
        /\ Cached(s)' = Cached(s) \cup {k}
        /\ \A t \in World : \A j \in Cached(t) :
              j \in DOMAIN cache'[t] /\ cache'[t][j] = cache[t][j]
        /\ \A t \in World : \A j \in DOMAIN cache'[t] :
              j \in Cached(t) \/ (new /\ t = s /\ j = k)
    <2>1. CASE new
      BY <1>1, <1>2, <2>1, SetEntryFacts DEF IInv, TypeInv, Cached
    <2>2. CASE ~new
      BY <1>2, <2>2 DEF IInv, TypeInv, Cached
    <2> QED
      BY <2>1, <2>2
  <1>6. TypeInv'
    <2>1. NamelessInv'
      BY <1>1, <1>2, <1>5, NamelessKept DEF Cached
    <2> QED
      BY <1>1, <1>2, <1>4, <1>5, <2>1 DEF IInv, TypeInv, Marks
  <1>7. CallInv'
    <2> SUFFICES ASSUME NEW v \in Worker PROVE CallOK(v)'
      BY DEF CallInv
    <2>1. CASE v = w
      <3>1. call'[w].at = "insert" /\ call'[w].key = k
        BY <1>3, <1>4
      <3>2. k \in DOMAIN cache'[s]
        BY <1>5 DEF Cached
      <3>3. PlaceOK(w)'
        BY <1>3, <1>4, <3>2 DEF PlaceOK, At, Cached
      <3> QED
        BY <2>1, <3>1, <3>3 DEF CallOK, ReadOK, GivenOK, At
    <2>2. CASE v # w
      <3>1. Ages(call[v], call'[v]) /\ ServerOf[v] \in World
        BY <1>4, <2>2 DEF Ages
      <3>2. At(v, "write") => call[v].key \in Cached(ServerOf[v])
        BY DEF IInv, CallInv, CallOK, GivenOK
      <3>3. At(v, "write") /\ << ServerOf[v], call[v].key >> \in nameless'
               => << ServerOf[v], call[v].key >> \in nameless
        BY <1>2, <3>2
      <3> QED
        BY <1>2, <1>5, <3>1, <3>3, OtherOK
    <2> QED
      BY <2>1, <2>2
  <1>8. Coherent'
    <2> SUFFICES ASSUME NEW t \in World, NEW j \in DOMAIN cache'[t], NEW c \in Cell,
                        j[1] \in DOMAIN rows, << t, j, c >> \notin stale'
                 PROVE  cache'[t][j][c] = rows[j[1]][c]
      BY <1>2 DEF Coherent, Cached
    <2>1. ~(new /\ t = s /\ j = k) /\ << t, j, c >> \notin stale
      BY <1>2 DEF Marks
    <2> QED
      BY <1>5, <2>1 DEF IInv, Coherent
  <1>9. NothingForgotten'
    <2>1. \A v \in Worker : Unlinked(v) \subseteq Unlinked(v)' \cup stray'
      BY <1>2, <1>4 DEF Unlinked, At
    <2> QED
      BY <1>2, <2>1, ForgottenKept
  <1> QED
    BY <1>6, <1>7, <1>8, <1>9 DEF IInv

\* One worker's call has moved on, the caches are as they were.
LEMMA OthersStay ==
    ASSUME IInv, NEW w \in Worker, UNCHANGED << cache, nameless >>, CallOK(w)',
           DOMAIN rows \subseteq DOMAIN rows',
           \A o \in DOMAIN rows : rows'[o] = rows[o],
           \A v \in Worker \ {w} : call'[v] = call[v]
    PROVE  CallInv'
  <1> SUFFICES ASSUME NEW v \in Worker, v # w PROVE CallOK(v)'
    BY DEF CallInv
  <1>1. Ages(call[v], call'[v])
    BY DEF Ages
  <1> QED
    BY <1>1, OtherOK DEF Cached

LEMMA StepInsertRow ==
    ASSUME IInv, NEW w \in Worker, NEW s, s = ServerOf[w],
           NEW k, k = call[w].key, NEW o, o = k[1], InsertRow(w)
    PROVE  IInv'
  <1> DEFINE e == IF call[w].mine THEN cache[s][k] ELSE call[w].read[o]
             mine == IF call[w].mine THEN Marks(s, k, Cell) ELSE {}
  <1>1. /\ At(w, "insert") /\ s \in World /\ k \in Key /\ o \in Object
        /\ e \in Content
    <2>1. /\ k \in Key /\ call[w] \in CallType
          /\ IF call[w].mine THEN k \in Cached(s) ELSE o \in DOMAIN call[w].read
      BY DEF InsertRow, IInv, TypeInv, CallInv, CallOK, PlaceOK, At
    <2>2. call[w].read \in Reads /\ cache[s] \in Entries
      BY <2>1 DEF CallType, IInv, TypeInv
    <2> QED
      BY <2>1, <2>2, ReadsFacts, EntriesFacts DEF InsertRow, Key, Cached
  <1>2. CASE o \in DOMAIN rows \/ ~Nameable(w)
    <2>1. Ends(w) /\ UNCHANGED << rows, stale, link, cache, nameless, failures, stray >>
      BY <1>2 DEF InsertRow
    <2>2. /\ call' \in [Worker -> CallType] /\ call'[w].at = "idle"
          /\ \A v \in Worker \ {w} : call'[v] = call[v]
      BY <2>1, EndsFacts DEF IInv
    <2>3. TypeInv' /\ CallInv' /\ Coherent'
      BY <2>1, <2>2, FreshOK, OthersIdle, CoherentKept
         DEF IInv, TypeInv, NamelessInv, Cached
    <2>4. \A v \in Worker : Unlinked(v) \subseteq Unlinked(v)' \cup stray'
      BY <1>1, <2>2 DEF Unlinked, At
    <2> QED
      BY <2>1, <2>3, <2>4, ForgottenKept DEF IInv
  <1>3. CASE o \notin DOMAIN rows /\ Nameable(w)
    <2>1. /\ rows' = With(rows, o, e)
          /\ stale' = (stale \cup Shown(o)) \ mine
          /\ Sets(w, Begins(w, "link", k))
          /\ UNCHANGED << link, cache, nameless, failures, stray >>
      BY <1>3 DEF InsertRow
    <2>2. /\ DOMAIN rows' = DOMAIN rows \cup {o} /\ rows'[o] = e
          /\ \A p \in DOMAIN rows : p # o /\ rows'[p] = rows[p]
      <3>1. rows' = [p \in DOMAIN rows \cup {o} |-> IF p = o THEN e ELSE rows[p]]
        BY <2>1 DEF With
      <3> HIDE DEF e
      <3> QED
        BY <1>3, <3>1
    <2>3. rows' \in [DOMAIN rows' -> Content]
      <3>1. rows' = [p \in DOMAIN rows \cup {o} |-> IF p = o THEN e ELSE rows[p]]
        BY <2>1 DEF With
      <3> QED
        BY <1>1, <3>1 DEF IInv, TypeInv
    <2>4. /\ call' \in [Worker -> CallType]
          /\ call'[w].at = "link" /\ call'[w].key = k
          /\ \A v \in Worker \ {w} : call'[v] = call[v]
      <3>1. /\ Begins(w, "link", k) \in CallType
            /\ Begins(w, "link", k).at = "link" /\ Begins(w, "link", k).key = k
        BY <1>1, BeginsFacts DEF Place
      <3> QED
        BY <2>1, <3>1, SetsFacts DEF IInv
    <2>5. TypeInv'
      <3>1. stale' \subseteq World \X Key \X Cell
        BY <2>1 DEF IInv, TypeInv, Shown
      <3>2. DOMAIN rows' \subseteq Object /\ DOMAIN link' \subseteq World \X DOMAIN rows'
        BY <1>1, <2>1, <2>2 DEF IInv, TypeInv
      <3>3. NamelessInv'
        BY <2>1 DEF IInv, TypeInv, NamelessInv, Cached
      <3> QED
        BY <2>1, <2>3, <2>4, <3>1, <3>2, <3>3 DEF IInv, TypeInv
    <2>6. CallInv'
      <3>1. CallOK(w)'
        BY <1>1, <2>4, FreshOK
      <3> QED
        BY <2>1, <2>2, <2>4, <3>1, OthersStay
    <2>7. Coherent'
      <3>1. cache' = cache
        BY <2>1
      <3> SUFFICES ASSUME NEW t \in World, NEW j \in Cached(t), NEW c \in Cell,
                          j[1] \in DOMAIN rows', << t, j, c >> \notin stale'
                   PROVE  cache[t][j][c] = rows'[j[1]][c]
        BY <3>1 DEF Coherent, Cached
      <3>2. CASE << t, j, c >> \in mine
        BY <2>2, <3>2 DEF Marks
      <3>3. CASE << t, j, c >> \notin mine
        <4>1. << t, j, c >> \notin stale /\ << t, j, c >> \notin Shown(o)
          BY <2>1, <3>3
        <4>2. j \in Key
          BY EntriesFacts DEF IInv, TypeInv, Cached
        <4>3. j[1] # o
          BY <4>1, <4>2 DEF Shown
        <4> QED
          BY <2>2, <4>1, <4>3 DEF IInv, Coherent
      <3> QED
        BY <3>2, <3>3
    <2>8. NothingForgotten'
      <3> SUFFICES ASSUME NEW p \in DOMAIN rows', Links(p)' = {}
                   PROVE  p \in stray' \cup UNION {Unlinked(v)' : v \in Worker}
        BY DEF NothingForgotten
      <3>1. CASE p = o
        <4>1. o \in Unlinked(w)'
          BY <2>4 DEF Unlinked, At
        <4> QED
          BY <3>1, <4>1
      <3>2. CASE p # o
        <4>1. p \in DOMAIN rows /\ Links(p) = {}
          BY <2>1, <2>2, <3>2 DEF Links
        <4>2. \A v \in Worker : Unlinked(v) \subseteq Unlinked(v)'
          BY <1>1, <2>4 DEF Unlinked, At
        <4> QED
          BY <2>1, <4>1, <4>2 DEF IInv, NothingForgotten
      <3> QED
        BY <3>1, <3>2
    <2> QED
      BY <2>5, <2>6, <2>7, <2>8 DEF IInv
  <1> QED
    BY <1>2, <1>3

\* A call ends and nothing but links changes.
LEMMA LinksOnly ==
    ASSUME IInv, NEW w \in Worker, Ends(w),
           UNCHANGED << rows, cache, nameless, failures, stale, stray >>,
           link' \in [DOMAIN link' -> {"live", "dead"}],
           DOMAIN link' \subseteq World \X DOMAIN rows
    PROVE  /\ TypeInv' /\ CallInv' /\ Coherent'
           /\ \A v \in Worker \ {w} : Unlinked(v) = Unlinked(v)'
  <1>1. /\ call' \in [Worker -> CallType] /\ call'[w].at = "idle"
        /\ \A v \in Worker \ {w} : call'[v] = call[v]
    BY EndsFacts DEF IInv
  <1>2. TypeInv'
    BY <1>1 DEF IInv, TypeInv, NamelessInv, Cached
  <1>3. CallInv' /\ Coherent'
    BY <1>1, FreshOK, OthersIdle, CoherentKept
  <1> QED
    BY <1>1, <1>2, <1>3 DEF Unlinked, At

LEMMA StepInsertLink ==
    ASSUME IInv, NEW w \in Worker, NEW o, o = call[w].key[1],
           NEW s, s = call[w].world, InsertLink(w)
    PROVE  IInv'
  <1>1. s \in World /\ o \in Object
    BY DEF InsertLink, IInv, TypeInv, CallType, CallInv, CallOK, PlaceOK, At, Key
  <1>2. /\ At(w, "link") /\ Ends(w)
        /\ UNCHANGED << rows, cache, nameless, failures, stale, stray >>
        /\ link' = IF << s, o >> \notin DOMAIN link /\ o \in DOMAIN rows
                   THEN With(link, << s, o >>, "live") ELSE link
    BY DEF InsertLink, history
  <1>3. /\ link' \in [DOMAIN link' -> {"live", "dead"}]
        /\ DOMAIN link \subseteq DOMAIN link'
        /\ DOMAIN link' \subseteq World \X DOMAIN rows
        /\ o \in DOMAIN rows => << s, o >> \in DOMAIN link'
    <2>1. CASE << s, o >> \in DOMAIN link \/ o \notin DOMAIN rows
      BY <1>2, <2>1 DEF IInv, TypeInv
    <2>2. CASE << s, o >> \notin DOMAIN link /\ o \in DOMAIN rows
      <3>1. link' = [r \in DOMAIN link \cup {<< s, o >>} |->
                        IF r = << s, o >> THEN "live" ELSE link[r]]
        BY <1>2, <2>2 DEF With
      <3> QED
        BY <1>1, <2>2, <3>1 DEF IInv, TypeInv
    <2> QED
      BY <2>1, <2>2
  <1>4. /\ TypeInv' /\ CallInv' /\ Coherent'
        /\ \A v \in Worker \ {w} : Unlinked(v) = Unlinked(v)'
    BY <1>2, <1>3, LinksOnly
  <1>5. NothingForgotten'
    <2> SUFFICES ASSUME NEW p \in DOMAIN rows, Links(p)' = {}
                 PROVE  p \in stray \cup UNION {Unlinked(v)' : v \in Worker}
      BY <1>2 DEF NothingForgotten
    <2>1. p # o
      BY <1>3 DEF Links
    <2>2. Links(p) = {}
      BY <1>3 DEF Links
    <2>3. p \in stray \cup UNION {Unlinked(v) : v \in Worker}
      BY <2>2 DEF IInv, NothingForgotten
    <2>4. p \notin Unlinked(w)
      BY <2>1 DEF Unlinked
    <2> QED
      BY <1>4, <2>3, <2>4
  <1> QED
    BY <1>4, <1>5 DEF IInv

------------------------------------------------------------------------------
(* updateObject.                                                            *)

\* The arguments go into an entry, which differs from the row in no cell but
\* those given.
LEMMA UpdateFacts ==
    ASSUME IInv, NEW w \in Worker, NEW s, s = ServerOf[w], NEW k \in Cached(s),
           NEW g \in Give, SetEntry(s, k, Over(cache[s][k], g)),
           stale' = stale \cup Marks(s, k, DOMAIN g),
           UNCHANGED << rows, link, stray >>
    PROVE  /\ cache' \in [World -> Entries]
           /\ \A t \in World : DOMAIN cache'[t] = Cached(t)
           /\ \A t \in World : \A j \in Cached(t) :
                 ~(t = s /\ j = k) => cache'[t][j] = cache[t][j]
           /\ \A c \in DOMAIN g : cache'[s][k][c] = g[c]
           /\ k \in Key /\ stale' \subseteq World \X Key \X Cell
           /\ Coherent'
  <1> DEFINE e == Over(cache[s][k], g)
  <1>1. s \in World /\ k \in Key /\ cache[s][k] \in Content
    BY EntriesFacts DEF IInv, TypeInv, Cached
  <1>2. e \in Content /\ \A c \in Cell : e[c] = IF c \in DOMAIN g THEN g[c]
                                                ELSE cache[s][k][c]
    BY <1>1, OverFacts
  <1> HIDE DEF e
  <1>3. /\ cache' \in [World -> Entries]
        /\ Cached(s)' = Cached(s) \cup {k} /\ cache'[s][k] = e
        /\ \A j \in Cached(s) : j # k => cache'[s][j] = cache[s][j]
        /\ \A t \in World : t # s => cache'[t] = cache[t]
    BY <1>1, <1>2, SetEntryFacts DEF IInv, TypeInv, e
  <1>4. /\ \A t \in World : DOMAIN cache'[t] = Cached(t)
        /\ \A t \in World : \A j \in Cached(t) :
              ~(t = s /\ j = k) => cache'[t][j] = cache[t][j]
    BY <1>3 DEF Cached
  <1>5. DOMAIN g \subseteq Cell
    BY GiveFacts
  <1>6. Coherent'
    <2> SUFFICES ASSUME NEW t \in World, NEW j \in Cached(t), NEW c \in Cell,
                        j[1] \in DOMAIN rows, << t, j, c >> \notin stale'
                 PROVE  cache'[t][j][c] = rows[j[1]][c]
      BY <1>4 DEF Coherent, Cached
    <2>1. cache[t][j][c] = rows[j[1]][c]
      BY DEF IInv, Coherent
    <2>2. CASE t = s /\ j = k
      <3>1. c \notin DOMAIN g
        BY <2>2 DEF Marks
      <3> QED
        BY <1>2, <1>3, <2>1, <2>2, <3>1
    <2>3. CASE ~(t = s /\ j = k)
      BY <1>4, <2>1, <2>3
    <2> QED
      BY <2>2, <2>3
  <1>7. stale' \subseteq World \X Key \X Cell
    BY <1>1, <1>5 DEF IInv, TypeInv, Marks
  <1> QED
    BY <1>1, <1>2, <1>3, <1>4, <1>5, <1>6, <1>7

\* The other calls, when an entry has been changed.
LEMMA OthersRefilled ==
    ASSUME IInv, NEW w \in Worker, NEW s \in World, NEW k \in Key,
           UNCHANGED rows, nameless' \subseteq nameless \cup {<< s, k >>}, CallOK(w)',
           \A t \in World : DOMAIN cache'[t] = Cached(t),
           \A t \in World : \A j \in Cached(t) :
               ~(t = s /\ j = k) => cache'[t][j] = cache[t][j],
           \A v \in Worker \ {w} :
               /\ Ages(call[v], call'[v])
               /\ At(v, "write") /\ ServerOf[v] = s /\ call[v].key = k
                     => k[1] \in call'[v].late
    PROVE  CallInv'
  <1> SUFFICES ASSUME NEW v \in Worker, v # w PROVE CallOK(v)'
    BY DEF CallInv
  <1>1. ServerOf[v] \in World
    OBVIOUS
  <1>2. At(v, "write") /\ << ServerOf[v], call[v].key >> \in nameless' =>
           \/ << ServerOf[v], call[v].key >> \in nameless
           \/ call[v].key[1] \in call'[v].late
    OBVIOUS
  <1> QED
    BY <1>1, <1>2, OtherOK

LEMMA StepUpdate ==
    ASSUME IInv, NEW w \in Worker, NEW k \in Key, NEW g \in Give,
           NEW plain \in BOOLEAN, NEW s, s = ServerOf[w], Update(w, k, g, plain)
    PROVE  IInv'
  <1> DEFINE r == [Begins(w, "write", k) EXCEPT !.give = g, !.plain = plain]
  <1>1. /\ At(w, "idle") /\ k \in Cached(s) /\ s \in World
        /\ SetEntry(s, k, Over(cache[s][k], g))
        /\ stale' = stale \cup Marks(s, k, DOMAIN g)
        /\ call' = [Refills(s, k, Worker \ {w}) EXCEPT ![w] = r]
        /\ nameless' \subseteq nameless \cup {<< s, k >>}
        /\ (plain => << s, k >> \notin nameless')
        /\ failures' \in 0..MaxFailures
        /\ UNCHANGED << rows, link, stray >>
    BY DEF Update, tables, Spelled, Counts, IInv, TypeInv
  <1>2. /\ cache' \in [World -> Entries]
        /\ \A t \in World : DOMAIN cache'[t] = Cached(t)
        /\ \A t \in World : \A j \in Cached(t) :
              ~(t = s /\ j = k) => cache'[t][j] = cache[t][j]
        /\ \A c \in DOMAIN g : cache'[s][k][c] = g[c]
        /\ stale' \subseteq World \X Key \X Cell
        /\ Coherent'
    BY <1>1, UpdateFacts
  <1>3. /\ r \in CallType /\ r.at = "write" /\ r.key = k /\ r.give = g
        /\ r.plain = plain
    <2> DEFINE b == Begins(w, "write", k)
    <2>1. b \in CallType /\ b.at = "write" /\ b.key = k
      BY BeginsFacts DEF Place
    <2>2. r = [b EXCEPT !.give = g, !.plain = plain]
      OBVIOUS
    <2> HIDE DEF b
    <2> QED
      BY <2>1, <2>2 DEF CallType
  <1> HIDE DEF r
  <1>4. /\ call' \in [Worker -> CallType] /\ call'[w] = r
        /\ \A v \in Worker \ {w} :
              /\ Ages(call[v], call'[v])
              /\ At(v, "write") /\ ServerOf[v] = s /\ call[v].key = k
                    => k[1] \in call'[v].late
    <2>1. Worker \ {w} \in SUBSET Worker
      OBVIOUS
    <2> QED
      BY <1>1, <1>3, <2>1, RefillsFacts DEF IInv
  <1>5. TypeInv'
    <2>1. NamelessInv'
      BY <1>1, <1>2, NamelessKept
    <2> QED
      BY <1>1, <1>2, <1>4, <2>1 DEF IInv, TypeInv
  <1>6. CallInv'
    <2>1. k \in DOMAIN cache'[s] /\ DOMAIN g \subseteq Cell
      BY <1>1, <1>2, GiveFacts
    <2>2. CallOK(w)'
      BY <1>1, <1>2, <1>3, <1>4, <2>1 DEF CallOK, PlaceOK, ReadOK, GivenOK, At, Cached
    <2>3. UNCHANGED rows /\ nameless' \subseteq nameless \cup {<< s, k >>}
      BY <1>1
    <2>4. \A t \in World : \A j \in Cached(t) :
              ~(t = s /\ j = k) => cache'[t][j] = cache[t][j]
      BY <1>2
    <2>5. \A t \in World : DOMAIN cache'[t] = Cached(t)
      BY <1>2
    <2>6. s \in World
      BY <1>1
    <2> QED
      BY <1>4, <2>2, <2>3, <2>4, <2>5, <2>6, OthersRefilled
  <1>7. NothingForgotten'
    <2>1. \A v \in Worker : Unlinked(v) \subseteq Unlinked(v)' \cup stray'
      BY <1>1, <1>4 DEF Unlinked, At, Ages
    <2> QED
      BY <1>1, <2>1, ForgottenKept
  <1> QED
    BY <1>2, <1>5, <1>6, <1>7 DEF IInv

LEMMA StepUpdateBreaks ==
    ASSUME IInv, NEW w \in Worker, NEW k \in Key, NEW g \in Give,
           NEW plain \in BOOLEAN, NEW s, s = ServerOf[w],
           UpdateBreaks(w, k, g, plain)
    PROVE  IInv'
  <1>1. /\ At(w, "idle") /\ k \in Cached(s) /\ s \in World
        /\ SetEntry(s, k, Over(cache[s][k], g))
        /\ stale' = stale \cup Marks(s, k, DOMAIN g)
        /\ call' = Refills(s, k, Worker \ {w})
        /\ nameless' \subseteq nameless \cup {<< s, k >>}
        /\ failures' \in 0..MaxFailures
        /\ UNCHANGED << rows, link, stray >>
    BY DEF UpdateBreaks, Spelled, tables, IInv, TypeInv
  <1>2. /\ cache' \in [World -> Entries]
        /\ \A t \in World : DOMAIN cache'[t] = Cached(t)
        /\ \A t \in World : \A j \in Cached(t) :
              ~(t = s /\ j = k) => cache'[t][j] = cache[t][j]
        /\ stale' \subseteq World \X Key \X Cell
        /\ Coherent'
    BY <1>1, UpdateFacts
  <1>3. /\ call' \in [Worker -> CallType]
        /\ \A v \in Worker :
              /\ Ages(call[v], call'[v])
              /\ v # w /\ At(v, "write") /\ ServerOf[v] = s /\ call[v].key = k
                    => k[1] \in call'[v].late
    <2>1. Worker \ {w} \in SUBSET Worker
      OBVIOUS
    <2> QED
      BY <1>1, <2>1, RefillsFacts DEF IInv
  <1>4. TypeInv'
    <2>1. NamelessInv'
      BY <1>1, <1>2, NamelessKept
    <2> QED
      BY <1>1, <1>2, <1>3, <2>1 DEF IInv, TypeInv
  <1>5. CallInv'
    <2>1. call'[w].at = "idle"
      BY <1>1, <1>3 DEF Ages, At
    <2>2. CallOK(w)'
      BY <2>1, FreshOK
    <2> QED
      BY <1>1, <1>2, <1>3, <2>2, OthersRefilled
  <1>6. NothingForgotten'
    <2>1. \A v \in Worker : Unlinked(v) \subseteq Unlinked(v)' \cup stray'
      BY <1>3 DEF Unlinked, At, Ages
    <2> QED
      BY <1>1, <2>1, ForgottenKept
  <1> QED
    BY <1>2, <1>4, <1>5, <1>6 DEF IInv

LEMMA StepWrite ==
    ASSUME IInv, NEW w \in Worker, NEW parent \in BOOLEAN,
           NEW s, s = ServerOf[w], NEW k, k = call[w].key, NEW o, o = k[1],
           Write(w, parent)
    PROVE  IInv'
  <1> DEFINE e == cache[s][k]
             next == IF parent THEN Begins(w, "parent", k) ELSE Idle
  <1>1. /\ At(w, "write") /\ s \in World /\ k \in Key /\ o \in Object
        /\ k \in Cached(s) /\ e \in Content
    BY EntriesFacts DEF Write, IInv, TypeInv, CallInv, CallOK, PlaceOK, GivenOK,
                        At, Key, Cached
  <1>2. /\ next \in CallType /\ next.at \in {"idle", "parent"}
        /\ next.at = "parent" => next.key = k
    BY <1>1, IdleFacts, BeginsFacts DEF Place
  <1> HIDE DEF next
  <1>3. CASE o \notin DOMAIN rows \/ << s, k >> \in nameless
    <2>1. /\ Sets(w, next)
          /\ UNCHANGED << rows, stale, link, cache, nameless, failures, stray >>
      BY <1>3 DEF Write, next
    <2>2. /\ call' \in [Worker -> CallType] /\ call'[w] = next
          /\ \A v \in Worker \ {w} : call'[v] = call[v]
      BY <1>2, <2>1, SetsFacts DEF IInv
    <2>3. CallOK(w)'
      BY <1>1, <1>2, <2>2, FreshOK
    <2>4. TypeInv' /\ CallInv' /\ Coherent'
      BY <2>1, <2>2, <2>3, OthersIdle, CoherentKept
         DEF IInv, TypeInv, NamelessInv, Cached
    <2>5. \A v \in Worker : Unlinked(v) \subseteq Unlinked(v)' \cup stray'
      BY <1>1, <2>2 DEF Unlinked, At
    <2> QED
      BY <2>1, <2>4, <2>5, ForgottenKept DEF IInv
  <1>4. CASE o \in DOMAIN rows /\ << s, k >> \notin nameless
    <2>1. /\ rows' = [rows EXCEPT ![o] = e]
          /\ stale' = (IF e # rows[o] THEN stale \cup Shown(o) ELSE stale)
                          \ Marks(s, k, Cell)
          /\ call' = [Delays(o, Worker \ {w}) EXCEPT ![w] = next]
          /\ UNCHANGED << link, cache, nameless, failures, stray >>
      BY <1>4 DEF Write, next
    <2>2. /\ call' \in [Worker -> CallType] /\ call'[w] = next
          /\ \A v \in Worker \ {w} :
                /\ Ages(call[v], call'[v])
                /\ o \in DOMAIN call[v].read => o \in call'[v].late
      <3>1. Worker \ {w} \in SUBSET Worker
        OBVIOUS
      <3> QED
        BY <1>1, <1>2, <2>1, <3>1, DelaysFacts DEF IInv
    <2>3. /\ DOMAIN rows' = DOMAIN rows /\ rows'[o] = e
          /\ \A p \in DOMAIN rows : p # o => rows'[p] = rows[p]
          /\ rows' \in [DOMAIN rows -> Content]
      BY <1>1, <1>4, <2>1 DEF IInv, TypeInv
    <2>4. TypeInv'
      <3>1. stale' \subseteq World \X Key \X Cell
        BY <2>1 DEF IInv, TypeInv, Shown
      <3>2. NamelessInv'
        BY <2>1 DEF IInv, TypeInv, NamelessInv, Cached
      <3> QED
        BY <2>1, <2>2, <2>3, <3>1, <3>2 DEF IInv, TypeInv
    <2>5. CallInv'
      <3> SUFFICES ASSUME NEW v \in Worker PROVE CallOK(v)'
        BY DEF CallInv
      <3>1. CASE v = w
        BY <1>1, <1>2, <2>2, <3>1, FreshOK
      <3>2. CASE v # w
        <4>1. Ages(call[v], call'[v]) /\ cache' = cache /\ nameless' = nameless
          BY <2>1, <2>2, <3>2
        <4>2. \A p \in DOMAIN rows : \/ rows'[p] = rows[p]
                                     \/ p \in DOMAIN call[v].read => p \in call'[v].late
          BY <2>2, <2>3, <3>2
        <4> QED
          BY <2>3, <4>1, <4>2, OtherOK DEF Cached
      <3> QED
        BY <3>1, <3>2
    <2>6. Coherent'
      <3>1. cache' = cache
        BY <2>1
      <3> SUFFICES ASSUME NEW t \in World, NEW j \in Cached(t), NEW c \in Cell,
                          j[1] \in DOMAIN rows', << t, j, c >> \notin stale'
                   PROVE  cache[t][j][c] = rows'[j[1]][c]
        BY <3>1 DEF Coherent, Cached
      <3>2. CASE << t, j, c >> \in Marks(s, k, Cell)
        BY <2>3, <3>2 DEF Marks
      <3>3. CASE << t, j, c >> \notin Marks(s, k, Cell)
        <4>1. << t, j, c >> \notin stale /\ j \in Key
          BY <2>1, <3>3, EntriesFacts DEF IInv, TypeInv, Cached
        <4>2. cache[t][j][c] = rows[j[1]][c]
          BY <2>3, <4>1 DEF IInv, Coherent
        <4>3. rows'[j[1]] = rows[j[1]]
          <5>1. CASE j[1] # o
            BY <2>3, <5>1
          <5>2. CASE j[1] = o
            <6>1. << t, j, c >> \in Shown(o)
              BY <4>1, <5>2 DEF Shown
            <6>2. e = rows[o]
              BY <2>1, <3>3, <6>1
            <6> QED
              BY <2>3, <5>2, <6>2
          <5> QED
            BY <5>1, <5>2
        <4> QED
          BY <4>2, <4>3
      <3> QED
        BY <3>2, <3>3
    <2>7. NothingForgotten'
      <3>1. \A v \in Worker : Unlinked(v) \subseteq Unlinked(v)' \cup stray'
        BY <1>1, <2>2 DEF Unlinked, At, Ages
      <3> QED
        BY <2>1, <2>3, <3>1, ForgottenKept
    <2> QED
      BY <2>4, <2>5, <2>6, <2>7 DEF IInv
  <1> QED
    BY <1>3, <1>4

LEMMA StepParent ==
    ASSUME IInv, NEW w \in Worker, Parent(w) PROVE IInv'
  <1> USE DEF Parent, tables, history
  <1>1. /\ call' \in [Worker -> CallType] /\ call'[w].at = "idle"
        /\ \A v \in Worker \ {w} : call'[v] = call[v]
    BY EndsFacts DEF IInv
  <1>2. TypeInv' /\ CallInv' /\ Coherent'
    BY <1>1, FreshOK, OthersIdle, CoherentKept DEF IInv, TypeInv, NamelessInv, Cached
  <1>3. \A v \in Worker : Unlinked(v) \subseteq Unlinked(v)' \cup stray'
    BY <1>1 DEF Unlinked, At
  <1> QED
    BY <1>2, <1>3, ForgottenKept DEF IInv

------------------------------------------------------------------------------
(* killObject and the links.                                                *)

\* A call is about to write a link or a killinfo.
LEMMA StepStartKill ==
    ASSUME IInv, NEW w \in Worker, NEW o \in Object, StartKill(w, o)
    PROVE  IInv'
  <1> DEFINE k == << o, "lower" >>
             r == Begins(w, "kill", k)
  <1>1. k \in Key
    BY DEF Key, Form
  <1>2. r \in CallType /\ r.at = "kill" /\ r.key = k
    BY <1>1, BeginsFacts DEF Place
  <1>3. /\ call' \in [Worker -> CallType] /\ call'[w] = r
        /\ \A v \in Worker \ {w} : call'[v] = call[v]
    BY <1>2, SetsFacts DEF StartKill, IInv
  <1>4. CallOK(w)'
    BY <1>1, <1>2, <1>3, FreshOK
  <1> QED
    BY <1>3, <1>4, BeginsKeeps DEF StartKill

LEMMA StepCreateLink ==
    ASSUME IInv, NEW w \in Worker, NEW o \in Object, NEW t \in World,
           CreateLink(w, o, t)
    PROVE  IInv'
  <1> DEFINE k == << o, "lower" >>
             r == [Begins(w, "link", k) EXCEPT !.world = t]
  <1>1. k \in Key
    BY DEF Key, Form
  <1>2. r \in CallType /\ r.at = "link" /\ r.key = k
    BY <1>1, BeginsFacts DEF Place, CallType
  <1>3. /\ call' \in [Worker -> CallType] /\ call'[w] = r
        /\ \A v \in Worker \ {w} : call'[v] = call[v]
    BY <1>2, SetsFacts DEF CreateLink, IInv
  <1>4. CallOK(w)'
    BY <1>1, <1>2, <1>3, FreshOK
  <1> QED
    BY <1>3, <1>4, BeginsKeeps DEF CreateLink

LEMMA StepKill ==
    ASSUME IInv, NEW w \in Worker, NEW o, o = call[w].key[1], Kill(w)
    PROVE  IInv'
  <1>1. /\ At(w, "kill") /\ Ends(w)
        /\ UNCHANGED << rows, cache, nameless, failures, stale, stray >>
        /\ link' = [r \in DOMAIN link |-> IF r[2] = o THEN "dead" ELSE link[r]]
    BY DEF Kill, history
  <1>2. /\ link' \in [DOMAIN link' -> {"live", "dead"}]
        /\ DOMAIN link' = DOMAIN link /\ DOMAIN link' \subseteq World \X DOMAIN rows
    BY <1>1 DEF IInv, TypeInv
  <1>3. /\ TypeInv' /\ CallInv' /\ Coherent'
        /\ \A v \in Worker \ {w} : Unlinked(v) = Unlinked(v)'
    BY <1>1, <1>2, LinksOnly
  <1>4. Unlinked(w) = {}
    BY <1>1 DEF Unlinked, At
  <1>5. NothingForgotten'
    BY <1>1, <1>2, <1>3, <1>4, ForgottenKept
  <1> QED
    BY <1>3, <1>5 DEF IInv

\* No call moves: what calls and caches know of links is nothing.
LEMMA CallsStay ==
    ASSUME IInv, UNCHANGED << rows, cache, nameless, call, failures, stale >>,
           link' \in [DOMAIN link' -> {"live", "dead"}],
           DOMAIN link' \subseteq World \X DOMAIN rows,
           stray' \subseteq Object
    PROVE  TypeInv' /\ CallInv' /\ Coherent'
  BY CoherentKept DEF IInv, TypeInv, NamelessInv, CallInv, CallOK, PlaceOK, ReadOK,
                      GivenOK, At, Cached

LEMMA StepMoveLink ==
    ASSUME IInv, NEW w \in Worker, NEW o \in Object, NEW s \in World, NEW t \in World,
           MoveLink(w, o, s, t)
    PROVE  IInv'
  <1> DEFINE D == DOMAIN link \ Links(o)
  <1>1. /\ Links(o) = {<< s, o >>} /\ << s, o >> \in DOMAIN link
        /\ link' = With([r \in D |-> link[r]], << t, o >>, link[<< s, o >>])
        /\ UNCHANGED << rows, cache, nameless, call, failures, stale, stray >>
    BY DEF MoveLink, history, Links
  <1>2. /\ DOMAIN link' = D \cup {<< t, o >>}
        /\ link' \in [DOMAIN link' -> {"live", "dead"}]
        /\ DOMAIN link' \subseteq World \X DOMAIN rows
    <2>1. link' = [r \in D \cup {<< t, o >>} |->
                      IF r = << t, o >> THEN link[<< s, o >>] ELSE link[r]]
      BY <1>1 DEF With
    <2>2. link[<< s, o >>] \in {"live", "dead"} /\ o \in DOMAIN rows
      BY <1>1 DEF IInv, TypeInv
    <2> QED
      BY <2>1, <2>2 DEF IInv, TypeInv
  <1>3. TypeInv' /\ CallInv' /\ Coherent'
    BY <1>1, <1>2, CallsStay DEF IInv, TypeInv
  <1>4. NothingForgotten'
    <2> SUFFICES ASSUME NEW p \in DOMAIN rows, Links(p)' = {}
                 PROVE  Links(p) = {}
      BY <1>1 DEF IInv, NothingForgotten, Unlinked, At
    <2>1. p # o
      <3>1. << t, o >> \in DOMAIN link'
        BY <1>2
      <3> QED
        BY <3>1 DEF Links
    <2>2. \A r \in DOMAIN link : r[2] = p => r \in DOMAIN link'
      BY <1>2, <2>1 DEF Links
    <2> QED
      BY <2>2 DEF Links
  <1> QED
    BY <1>3, <1>4 DEF IInv

LEMMA StepDeleteLinks ==
    ASSUME IInv, NEW w \in Worker, NEW o \in Object, DeleteLinks(w, o)
    PROVE  IInv'
  <1>1. /\ link' = [r \in DOMAIN link \ Links(o) |-> link[r]]
        /\ stray' = stray \cup {o}
        /\ UNCHANGED << rows, cache, nameless, call, failures, stale >>
    BY DEF DeleteLinks
  <1>2. /\ DOMAIN link' = DOMAIN link \ Links(o)
        /\ link' \in [DOMAIN link' -> {"live", "dead"}]
        /\ DOMAIN link' \subseteq World \X DOMAIN rows
        /\ stray' \subseteq Object
    BY <1>1 DEF IInv, TypeInv
  <1>3. TypeInv' /\ CallInv' /\ Coherent'
    BY <1>1, <1>2, CallsStay
  <1>4. NothingForgotten'
    <2> SUFFICES ASSUME NEW p \in DOMAIN rows, Links(p)' = {}, p # o
                 PROVE  Links(p) = {}
      BY <1>1 DEF IInv, NothingForgotten, Unlinked, At
    <2> QED
      BY <1>2 DEF Links
  <1> QED
    BY <1>3, <1>4 DEF IInv

------------------------------------------------------------------------------
\* The invariant is inductive.
LEMMA NextIInv == IInv /\ [Next]_vars => IInv'
  <1> SUFFICES ASSUME IInv, [Next]_vars PROVE IInv'
    OBVIOUS
  <1>1. ASSUME NEW w \in Worker, Step(w) PROVE IInv'
    <2>1. CASE \/ Throw(w) \/ Fill(w) \/ Keep(w) \/ InsertRow(w) \/ InsertLink(w)
               \/ Parent(w) \/ Kill(w)
      BY <2>1, StepThrow, StepFill, StepKeep, StepInsertRow, StepInsertLink,
         StepParent, StepKill
    <2>2. ASSUME NEW parent \in BOOLEAN, Write(w, parent) PROVE IInv'
      BY <2>2, StepWrite
    <2>3. ASSUME NEW D \in SUBSET Object, Dump(w, D) PROVE IInv'
      BY <2>3, StepDump
    <2>4. ASSUME NEW k \in Key,
                 \/ Load(w, k)
                 \/ \E plain \in BOOLEAN :
                       \/ \E g \in New : Create(w, k, g, plain)
                       \/ \E g \in Change : \/ Update(w, k, g, plain)
                                           \/ UpdateBreaks(w, k, g, plain)
          PROVE  IInv'
      BY <2>4, StepLoad, StepCreate, StepUpdate, StepUpdateBreaks
    <2>5. ASSUME NEW o \in Object,
                 \/ StartKill(w, o) \/ DeleteLinks(w, o)
                 \/ \E t \in World : CreateLink(w, o, t)
                 \/ \E s, t \in World : MoveLink(w, o, s, t)
          PROVE  IInv'
      BY <2>5, StepStartKill, StepDeleteLinks, StepCreateLink, StepMoveLink
    <2> QED
      BY <1>1, <2>1, <2>2, <2>3, <2>4, <2>5 DEF Step
  <1>2. ASSUME NEW s \in World, Restart(s) PROVE IInv'
    BY <1>2, StepRestart
  <1>3. CASE UNCHANGED vars
    <2>1. UNCHANGED << rows, link, cache, nameless, call, failures, stale, stray >>
      BY <1>3 DEF vars, tables, history
    <2>2. TypeInv' /\ CallInv' /\ Coherent'
      BY <2>1, CallsStay DEF IInv, TypeInv
    <2> QED
      BY <2>1, <2>2, ForgottenKept DEF IInv, Unlinked, At
  <1> QED
    BY <1>1, <1>2, <1>3 DEF Next

LEMMA Inductive == Spec => []IInv
  BY InitIInv, NextIInv, PTL DEF Spec

------------------------------------------------------------------------------
(* What an update writes.                                                   *)

\* A step of one worker leaves the others' calls where they are.
LEMMA OthersPlace ==
    ASSUME IInv, NEW v \in Worker, NEW w \in Worker, v # w, Step(v)
    PROVE  call'[w].at = call[w].at
  <1> USE DEF IInv, TypeInv
  <1>1. ASSUME NEW r, Sets(v, r) PROVE call'[w].at = call[w].at
    BY <1>1 DEF Sets
  <1>2. ASSUME NEW s \in World, NEW k \in Key, NEW r,
               call' = [Refills(s, k, Worker \ {v}) EXCEPT ![v] = r]
               \/ call' = Refills(s, k, Worker \ {v})
        PROVE  call'[w].at = call[w].at
    <2>1. Worker \ {v} \in SUBSET Worker
      OBVIOUS
    <2> DEFINE f == Refills(s, k, Worker \ {v})
    <2>2. f \in [Worker -> CallType] /\ Ages(call[w], f[w])
      BY <2>1, RefillsFacts
    <2> HIDE DEF f
    <2>3. call' = [f EXCEPT ![v] = r] \/ call' = f
      BY <1>2 DEF f
    <2> QED
      BY <2>2, <2>3 DEF Ages
  <1>3. ASSUME NEW o \in Object, NEW r,
               call' = [Delays(o, Worker \ {v}) EXCEPT ![v] = r]
        PROVE  call'[w].at = call[w].at
    <2>1. Worker \ {v} \in SUBSET Worker
      OBVIOUS
    <2> QED
      BY <1>3, <2>1, DelaysFacts DEF Ages
  <1>4. CASE \/ Throw(v) \/ Keep(v) \/ InsertRow(v) \/ InsertLink(v)
             \/ Parent(v) \/ Kill(v)
    BY <1>1, <1>4 DEF Throw, Keep, InsertRow, InsertLink, Parent, Kill, Ends
  <1>5. CASE Fill(v)
    <2>1. ServerOf[v] \in World /\ call[v].key \in Key
      BY <1>5 DEF CallInv, CallOK, PlaceOK, Fill, At
    <2> QED
      BY <1>2, <1>5, <2>1 DEF Fill
  <1>6. ASSUME NEW parent \in BOOLEAN, Write(v, parent)
        PROVE  call'[w].at = call[w].at
    <2>1. call[v].key \in Key /\ call[v].key[1] \in Object
      BY <1>6 DEF CallInv, CallOK, PlaceOK, Write, At, Key
    <2> QED
      BY <1>1, <1>3, <1>6, <2>1 DEF Write
  <1>7. ASSUME NEW D \in SUBSET Object, Dump(v, D) PROVE call'[w].at = call[w].at
    BY <1>1, <1>7 DEF Dump
  <1>8. ASSUME NEW k \in Key, NEW g \in Give, NEW plain \in BOOLEAN,
               \/ Create(v, k, g, plain) \/ Update(v, k, g, plain)
               \/ UpdateBreaks(v, k, g, plain)
        PROVE  call'[w].at = call[w].at
    <2>1. CASE Create(v, k, g, plain)
      BY <1>1, <2>1 DEF Create
    <2>2. CASE Update(v, k, g, plain) \/ UpdateBreaks(v, k, g, plain)
      BY <1>2, <2>2 DEF Update, UpdateBreaks
    <2> QED
      BY <1>8, <2>1, <2>2
  <1>9. ASSUME NEW o \in Object, NEW s \in World, NEW t \in World,
               \/ StartKill(v, o) \/ DeleteLinks(v, o)
               \/ CreateLink(v, o, t) \/ MoveLink(v, o, s, t)
        PROVE  call'[w].at = call[w].at
    BY <1>1, <1>9 DEF StartKill, DeleteLinks, CreateLink, MoveLink
  <1>10. ASSUME NEW k \in Key, Load(v, k) PROVE call'[w].at = call[w].at
    BY <1>1, <1>10 DEF Load
  <1>11. ASSUME NEW o \in Object, StartKill(v, o) \/ DeleteLinks(v, o)
         PROVE  call'[w].at = call[w].at
    BY <1>1, <1>11 DEF StartKill, DeleteLinks
  <1> QED
    BY <1>4, <1>5, <1>6, <1>7, <1>8, <1>9, <1>10, <1>11 DEF Step

\* Only its UPDATE, or a failure, takes an update out of its place.
LEMMA WriteOnly ==
    ASSUME IInv, NEW w \in Worker, At(w, "write"), Step(w)
    PROVE  Throw(w) \/ \E parent \in BOOLEAN : Write(w, parent)
  BY DEF Step, At, Fill, Keep, InsertRow, InsertLink, Parent, Kill, Dump, Load,
         Create, Update, UpdateBreaks, StartKill, DeleteLinks, CreateLink, MoveLink

LEMMA WriteArrives ==
    ASSUME IInv, NEW w \in Worker, NEW parent \in BOOLEAN, Write(w, parent),
           call[w].key[1] \in DOMAIN rows, call[w].key[1] \notin call[w].late,
           call[w].plain,
           NEW c \in DOMAIN call[w].give
    PROVE  rows'[call[w].key[1]][c] = call[w].give[c]
  <1>1. /\ cache[ServerOf[w]][call[w].key][c] = call[w].give[c]
        /\ << ServerOf[w], call[w].key >> \notin nameless
    BY DEF IInv, CallInv, CallOK, GivenOK, Write, At
  <1>2. rows'[call[w].key[1]] = cache[ServerOf[w]][call[w].key]
    BY <1>1 DEF Write, IInv, TypeInv
  <1> QED
    BY <1>1, <1>2

\* The action property that Arrives says holds of every step.
LEMMA StepArrives ==
    ASSUME IInv, [Next]_vars,
           NEW w \in Worker, At(w, "write"), call'[w].at # "write",
           failures' = failures,
           call[w].key[1] \in DOMAIN rows, call[w].key[1] \notin call[w].late,
           call[w].plain,
           NEW c \in DOMAIN call[w].give
    PROVE  rows'[call[w].key[1]][c] = call[w].give[c]
  <1>0. failures \in Nat
    BY DEF IInv, TypeInv
  <1>1. ASSUME NEW s \in World, Restart(s) PROVE FALSE
    BY <1>0, <1>1 DEF Restart
  <1>2. ASSUME NEW v \in Worker, Step(v)
        PROVE  rows'[call[w].key[1]][c] = call[w].give[c]
    <2>1. v = w
      BY <1>2, OthersPlace DEF At
    <2>2. ~Throw(w)
      BY <1>0 DEF Throw
    <2> QED
      BY <1>2, <2>1, <2>2, WriteOnly, WriteArrives
  <1>3. ~ UNCHANGED vars
    BY DEF vars, At
  <1> QED
    BY <1>1, <1>2, <1>3 DEF Next

------------------------------------------------------------------------------
(* ObjectRegistry, read off the links.                                      *)

status == [r \in World \X Object |-> IF r \in DOMAIN link THEN link[r] ELSE "none"]

LEMMA InitReg == Init => Reg!Init
  BY DEF Init, Reg!Init

LEMMA StatusFacts ==
    ASSUME IInv
    PROVE  /\ DOMAIN link \subseteq World \X Object
           /\ \A r \in World \X Object : status[r] = "none" <=> r \notin DOMAIN link
           /\ \A o \in Object : Reg!Places(o) = {s \in World : << s, o >> \in DOMAIN link}
  <1>1. DOMAIN link \subseteq World \X Object
    BY DEF IInv, TypeInv
  <1>2. \A r \in World \X Object : status[r] = "none" <=> r \notin DOMAIN link
    BY DEF status, IInv, TypeInv
  <1> QED
    BY <1>1, <1>2 DEF Reg!Places, status

LEMMA RegInsertLink ==
    ASSUME IInv, NEW w \in Worker, NEW o, o = call[w].key[1],
           NEW s, s = call[w].world, InsertLink(w)
    PROVE  [Reg!Next]_status
  <1>1. s \in World /\ o \in Object
    BY DEF InsertLink, IInv, TypeInv, CallType, CallInv, CallOK, PlaceOK, At, Key
  <1>2. CASE link' = link
    BY <1>2 DEF status
  <1>3. CASE << s, o >> \notin DOMAIN link /\ link' = With(link, << s, o >>, "live")
    <2>1. status[<< s, o >>] = "none"
      BY <1>1, <1>3, StatusFacts
    <2>2. status' = [status EXCEPT ![<< s, o >>] = "live"]
      BY <1>1, <1>3 DEF status, With
    <2>3. Reg!Enter(s, o)
      BY <2>1, <2>2 DEF Reg!Enter, status
    <2> QED
      BY <1>1, <2>3 DEF Reg!Next
  <1> QED
    BY <1>2, <1>3 DEF InsertLink

LEMMA RegKill ==
    ASSUME IInv, NEW w \in Worker, NEW o, o = call[w].key[1], Kill(w)
    PROVE  [Reg!Next]_status
  <1>1. o \in Object
    BY DEF Kill, IInv, CallInv, CallOK, PlaceOK, At, Key
  <1>2. link' = [r \in DOMAIN link |-> IF r[2] = o THEN "dead" ELSE link[r]]
    BY DEF Kill
  <1>3. status' = [r \in World \X Object |->
                      IF r[2] = o /\ status[r] = "live" THEN "dead" ELSE status[r]]
    BY <1>2 DEF status, IInv, TypeInv
  <1>4. Reg!Die(o)
    BY <1>3 DEF Reg!Die, status
  <1> QED
    BY <1>1, <1>4 DEF Reg!Next

LEMMA RegMoveLink ==
    ASSUME IInv, NEW w \in Worker, NEW o \in Object, NEW s \in World, NEW t \in World,
           MoveLink(w, o, s, t)
    PROVE  [Reg!Next]_status
  <1> DEFINE D == DOMAIN link \ Links(o)
  <1>1. /\ Links(o) = {<< s, o >>} /\ s # t
        /\ link' = With([r \in D |-> link[r]], << t, o >>, link[<< s, o >>])
    BY DEF MoveLink
  <1>2. Reg!Places(o) = {s}
    <2>1. \A x \in World : << x, o >> \in DOMAIN link <=> << x, o >> \in Links(o)
      BY DEF Links
    <2>2. \A x \in World : << x, o >> \in Links(o) <=> x = s
      BY <1>1
    <2> QED
      BY <2>1, <2>2, StatusFacts
  <1>3. /\ D = DOMAIN link \ {<< s, o >>}
        /\ link' = [r \in D \cup {<< t, o >>} |->
                       IF r = << t, o >> THEN link[<< s, o >>] ELSE link[r]]
    BY <1>1 DEF With
  <1>4. << s, o >> \in DOMAIN link
    BY <1>1 DEF Links
  <1>5. status' = [status EXCEPT ![<< s, o >>] = "none",
                                 ![<< t, o >>] = status[<< s, o >>]]
    BY <1>1, <1>3, <1>4 DEF status
  <1>6. Reg!Move(s, t, o)
    BY <1>2, <1>5 DEF Reg!Move, status
  <1> QED
    BY <1>6 DEF Reg!Next

LEMMA RegDeleteLinks ==
    ASSUME IInv, NEW w \in Worker, NEW o \in Object, DeleteLinks(w, o)
    PROVE  [Reg!Next]_status
  <1>1. link' = [r \in DOMAIN link \ Links(o) |-> link[r]]
    BY DEF DeleteLinks
  <1>2. status' = [r \in World \X Object |-> IF r[2] = o THEN "none" ELSE status[r]]
    BY <1>1 DEF status, Links
  <1>3. Reg!Leave(o)
    BY <1>2 DEF Reg!Leave, status
  <1> QED
    BY <1>3 DEF Reg!Next

\* Every step is one of the registry, or one that it does not see.
LEMMA StepReg == IInv /\ [Next]_vars => [Reg!Next]_status
  <1> SUFFICES ASSUME IInv, [Next]_vars PROVE [Reg!Next]_status
    OBVIOUS
  <1>1. CASE link' = link
    BY <1>1 DEF status
  <1>2. ASSUME NEW w \in Worker, Step(w) PROVE [Reg!Next]_status
    <2>1. CASE InsertLink(w) \/ Kill(w)
      BY <2>1, RegInsertLink, RegKill
    <2>2. ASSUME NEW o \in Object,
                 DeleteLinks(w, o) \/ \E s, t \in World : MoveLink(w, o, s, t)
          PROVE  [Reg!Next]_status
      BY <2>2, RegDeleteLinks, RegMoveLink
    <2>3. CASE /\ ~InsertLink(w) /\ ~Kill(w)
               /\ \A o \in Object : /\ ~DeleteLinks(w, o)
                                    /\ \A s, t \in World : ~MoveLink(w, o, s, t)
      <3>1. link' = link
        BY <1>2, <2>3 DEF Step, Throw, Fill, Keep, InsertRow, Parent, Write, Dump,
           Load, Create, Update, UpdateBreaks, StartKill, CreateLink, tables
      <3> QED
        BY <1>1, <3>1
    <2> QED
      BY <2>1, <2>2, <2>3
  <1>3. ASSUME NEW s \in World, Restart(s) PROVE link' = link
    BY <1>3 DEF Restart, tables
  <1>4. CASE UNCHANGED vars
    BY <1>1, <1>4 DEF vars, tables
  <1> QED
    BY <1>1, <1>2, <1>3, <1>4 DEF Next

------------------------------------------------------------------------------
\* The tables, the caches and the calls stay well formed, for any numbers of
\* worlds, workers, objects and columns: no statement takes what is not there.
THEOREM TypeCorrect == Spec => []TypeOK
  <1>1. IInv => TypeOK
    <2> SUFFICES ASSUME IInv PROVE TypeOK
      OBVIOUS
    <2>1. \A w \in Worker : call[w] \in CallType /\ call[w].read \in Reads
      BY DEF IInv, TypeInv, CallType
    <2>2. \A s \in World : Cached(s) \subseteq Key
                           /\ \A k \in Cached(s) : cache[s][k] \in Content
      BY EntriesFacts DEF IInv, TypeInv, Cached
    <2>3. \A w \in Worker :
             /\ call[w].at \in Place /\ call[w].key \in Key \cup {NoKey}
             /\ call[w].world \in World
             /\ call[w].mine \in BOOLEAN /\ call[w].plain \in BOOLEAN
             /\ \A o \in DOMAIN call[w].read : call[w].read[o] \in Content
             /\ call[w].late \subseteq Object
      BY <2>1, ReadsFacts DEF CallType
    <2> QED
      BY <2>2, <2>3 DEF TypeOK, IInv, TypeInv, NamelessInv
  <1> QED
    BY Inductive, <1>1, PTL

\* A cached object differs from its row only where an update under way, broken
\* off or without a row by its uuid, a refused createObject, another entry or a
\* late read explains it (mysql.cpp:1829-1842, 1870, 1905, 2041), for any number of
\* servers and workers.
THEOREM CachesExplained == Spec => []Coherent
  BY Inductive, PTL DEF IInv

\* An object without a world is one that a createObject is about to link or
\* left behind (mysql.cpp:1885-1889), or whose links were deleted.
THEOREM NoneForgotten == Spec => []NothingForgotten
  BY Inductive, PTL DEF IInv

\* An updateObject with a plain uuid that succeeds has written what it was given,
\* unless the same entry was filled in between (mysql.cpp:1905-1934).
THEOREM UpdatesArrive == Spec => Arrives
  <1>1. ASSUME IInv, [Next]_vars
        PROVE  [\A w \in Worker :
                   LET o == call[w].key[1] IN
                   At(w, "write") /\ call'[w].at # "write" /\ failures' = failures
                       /\ o \in DOMAIN rows /\ o \notin call[w].late /\ call[w].plain
                     => \A c \in DOMAIN call[w].give :
                            rows'[o][c] = call[w].give[c]]_vars
    BY <1>1, StepArrives
  <1> QED
    BY <1>1, Inductive, PTL DEF Spec, Arrives

\* ObjectStore implements ObjectRegistry: an object that died in a world does
\* not come back to life there (mysql.cpp:1973-2121), for any numbers of worlds
\* and objects.
THEOREM ImplementsRegistry == Spec => Registered
  BY Inductive, InitReg, StepReg, PTL DEF Spec, Registered, Reg!Spec, status
==============================================================================
