---------------------------- MODULE ConnPoolProofs ----------------------------
(***************************************************************************)
(* The inductive invariant of ConnPool and what follows from it: a         *)
(* connection has one user, no bounded_push fails, and the pool is empty   *)
(* only when all that initdb made is in use or was kept by failed queries. *)
(* Then the pool at work with the dispatcher (Service): that it is this    *)
(* one, that the unloading closes it, that game and workers never wait for *)
(* each other in a circle, and that each wait uses up what it waits for.   *)
(***************************************************************************)
EXTENDS Service, FiniteSetTheorems, TLAPS

USE WorkerAssumption, ConnAssumption

\* Where the threads are, and what initdb and termdb know there.
PlaceInv ==
    /\ \A t \in Thread : held[t] # NoConn <=> pc[t] \in {"query", "push"}
    /\ \A w \in Worker : pc[w] \in {"idle", "want", "query"}
    /\ pc[Game] \in {"connect", "push", "check"} => building
    /\ pc[Game] \in {"idle", "close"} => ~building
    /\ poolcleanup <=> pc[Game] = "close"
    /\ building => ~poolinitialized /\ built <= poolsize
    /\ building /\ pc[Game] \in {"want", "query", "check"} => built = 0

OpenInv == IsFiniteSet(open) /\ leaked \subseteq open

\* The connections that the initdb in progress has made, and what they and
\* the earlier ones leave of the nodes that were reserved.
Made == built + IF pc[Game] = "connect" THEN 0 ELSE 1
CountInv ==
    /\ Cardinality(open) <= capacity
    /\ building => /\ Cardinality(open) >= Made
                   /\ Cardinality(open) + poolsize + 1 - Made <= capacity
    /\ Usable => Cardinality(open) >= poolsize + 1

IInv == /\ TypeOK /\ PlaceInv /\ OpenInv /\ CountInv
        /\ Exclusive /\ Accounted

------------------------------------------------------------------------------
(* Facts about the queue.                                                   *)

\* poolsize is a positive number.
LEMMA PoolsizeType == poolsize \in Nat \ {0}
  BY FS_CardinalityType, FS_EmptySet DEF poolsize

\* A queue without repetition whose elements miss one element of a finite
\* set is shorter than the set is large.
LEMMA DistinctFits ==
    ASSUME NEW S, IsFiniteSet(S), NEW c \in S,
           NEW q \in Seq(S \ {c}),
           \A k, l \in 1..Len(q) : q[k] = q[l] => k = l
    PROVE  Len(q) < Cardinality(S)
  <1> DEFINE T == S \ {c}
  <1>1. /\ IsFiniteSet(T) /\ Cardinality(T) = Cardinality(S) - 1
        /\ Cardinality(S) \in Nat
    BY FS_RemoveElement, FS_CardinalityType
  <1>2. /\ q \in [1..Len(q) -> T] /\ Len(q) \in Nat
    OBVIOUS
  <1>3. q \in Injection(1..Len(q), T)
    BY <1>2 DEF Injection, IsInjective
  <1>4. Cardinality(1..Len(q)) <= Cardinality(T)
    BY <1>1, <1>3, FS_Injection
  <1>5. Cardinality(1..Len(q)) = Len(q)
    <2>1. ASSUME NEW n \in Nat PROVE Cardinality(1..n) = n
      BY FS_Interval
    <2> QED
      BY <1>2, <2>1
  <1> QED
    BY <1>1, <1>2, <1>4, <1>5

\* Taking the first connection.
LEMMA PopPool ==
    ASSUME pool \in Seq(Conn), pool # << >>, pool' = Tail(pool),
           \A k, l \in 1..Len(pool) : pool[k] = pool[l] => k = l
    PROVE  /\ pool' \in Seq(Conn)
           /\ Head(pool) \in InPool /\ Head(pool) \in Conn
           /\ InPool' = InPool \ {Head(pool)}
           /\ \A k, l \in 1..Len(pool') : pool'[k] = pool'[l] => k = l
  <1>1. /\ Len(pool) \in Nat \ {0} /\ Head(pool) = pool[1]
        /\ pool' \in Seq(Conn) /\ Len(pool') = Len(pool) - 1
        /\ \A k \in 1..Len(pool') : pool'[k] = pool[k + 1]
    OBVIOUS
  <1>2. \A k \in 1..Len(pool') : k + 1 \in 1..Len(pool)
    BY <1>1
  <1>3. Head(pool) \in InPool /\ Head(pool) \in Conn
    BY <1>1 DEF InPool
  <1>4. InPool' \subseteq InPool \ {Head(pool)}
    BY <1>1, <1>2 DEF InPool
  <1>5. InPool \ {Head(pool)} \subseteq InPool'
    <2> SUFFICES ASSUME NEW k \in 1..Len(pool), pool[k] # pool[1]
                 PROVE  pool[k] \in InPool'
      BY <1>1 DEF InPool
    <2>1. k - 1 \in 1..Len(pool') /\ pool'[k - 1] = pool[k]
      BY <1>1
    <2> QED
      BY <2>1 DEF InPool
  <1>6. \A k, l \in 1..Len(pool') : pool'[k] = pool'[l] => k = l
    BY <1>1, <1>2
  <1> QED
    BY <1>1, <1>3, <1>4, <1>5, <1>6

\* Appending a connection that is not there.
LEMMA PushPool ==
    ASSUME pool \in Seq(Conn), NEW c \in Conn, c \notin InPool,
           pool' = Append(pool, c),
           \A k, l \in 1..Len(pool) : pool[k] = pool[l] => k = l
    PROVE  /\ pool' \in Seq(Conn)
           /\ InPool' = InPool \cup {c}
           /\ \A k, l \in 1..Len(pool') : pool'[k] = pool'[l] => k = l
  <1>1. /\ Len(pool) \in Nat /\ pool' \in Seq(Conn)
        /\ Len(pool') = Len(pool) + 1 /\ pool'[Len(pool) + 1] = c
        /\ \A k \in 1..Len(pool) : pool'[k] = pool[k]
    OBVIOUS
  <1>2. \A k \in 1..Len(pool') : k \in 1..Len(pool) \/ k = Len(pool) + 1
    BY <1>1
  <1>3. InPool' = InPool \cup {c}
    <2>1. InPool' \subseteq InPool \cup {c}
      BY <1>1, <1>2 DEF InPool
    <2>2. c \in InPool'
      BY <1>1 DEF InPool
    <2>3. InPool \subseteq InPool'
      BY <1>1 DEF InPool
    <2> QED
      BY <2>1, <2>2, <2>3
  <1>4. \A k \in 1..Len(pool) : pool[k] # c
    BY DEF InPool
  <1> QED
    BY <1>1, <1>2, <1>3, <1>4

\* There is a node for every connection that comes back or is new.
LEMMA PushFits ==
    ASSUME IInv, NEW t \in Thread, held[t] # NoConn
    PROVE  /\ held[t] \in Conn /\ held[t] \notin InPool
           /\ held[t] \in open /\ held[t] \notin leaked
           /\ Pushed(held[t]) = Append(pool, held[t])
  <1>1. held[t] \in Conn /\ held[t] \in InHand
    BY DEF IInv, TypeOK, InHand, Holders
  <1>2. held[t] \notin InPool /\ held[t] \in open \ leaked
    BY <1>1 DEF IInv, Exclusive
  <1>3. pool \in Seq(open \ {held[t]})
    <2>1. \A k \in 1..Len(pool) : pool[k] \in open \ {held[t]}
      BY <1>2 DEF InPool, IInv, Exclusive
    <2> QED
      BY <2>1 DEF IInv, TypeOK
  <1>4. Len(pool) < Cardinality(open)
    BY <1>2, <1>3, DistinctFits DEF IInv, OpenInv, Exclusive
  <1>5. /\ Cardinality(open) <= capacity /\ capacity \in Nat
        /\ Cardinality(open) \in Nat /\ Len(pool) \in Nat
    BY FS_CardinalityType DEF IInv, CountInv, OpenInv, TypeOK
  <1> QED
    BY <1>1, <1>2, <1>4, <1>5 DEF Pushed

------------------------------------------------------------------------------
(* Each part of the invariant is preserved.                                 *)

\* Before the first initdb the invariant holds.
LEMMA InitIInv == Init => IInv
  <1> SUFFICES ASSUME Init PROVE IInv
    OBVIOUS
  <1> USE DEF Init
  <1>1. TypeOK
    <2>1. built \in 0..(poolsize + 1)
      BY PoolsizeType
    <2>2. pool \in Seq(Conn) /\ capacity \in Nat
      OBVIOUS
    <2>3. held \in [Thread -> Conn \cup {NoConn}]
      OBVIOUS
    <2> QED
      BY <2>1, <2>2, <2>3 DEF TypeOK
  <1>2. PlaceInv
    BY DEF PlaceInv, Thread
  <1>3. OpenInv
    BY FS_EmptySet DEF OpenInv
  <1>4. CountInv
    BY FS_EmptySet DEF CountInv, Usable
  <1>5. Exclusive /\ Accounted
    BY DEF Exclusive, Accounted, Holders, InHand, InPool, Thread
  <1> QED
    BY <1>1, <1>2, <1>3, <1>4, <1>5 DEF IInv

\* Every step keeps the types.
LEMMA TypeStep == IInv /\ [Next]_vars => TypeOK'
  <1> SUFFICES ASSUME IInv, [Next]_vars PROVE TypeOK'
    OBVIOUS
  <1> USE DEF TypeOK, Goes, Holds
  <1>0. TypeOK /\ PlaceInv /\ Exclusive
    BY DEF IInv
  <1>1. ASSUME NEW t \in Thread, Want(t) PROVE TypeOK'
    BY <1>0, <1>1 DEF Want
  <1>2. ASSUME NEW t \in Thread, Get(t) PROVE TypeOK'
    BY <1>0, <1>2, PopPool DEF Get, Exclusive
  <1>3. ASSUME NEW t \in Thread, Return(t) PROVE TypeOK'
    <2>1. held[t] # NoConn
      BY <1>0, <1>3 DEF Return, PlaceInv
    <2> QED
      BY <1>0, <1>3, <2>1, PushFits DEF Return
  <1>4. ASSUME NEW t \in Thread, Fail(t) PROVE TypeOK'
    <2>1. held[t] \in Conn
      BY <1>0, <1>4 DEF Fail, PlaceInv
    <2> QED
      BY <1>0, <1>4, <2>1 DEF Fail
  <1>5. CASE StartInit
    <2>1. built' \in 0..(poolsize + 1) /\ capacity' \in Nat
      BY <1>0, <1>5, PoolsizeType DEF StartInit
    <2> QED
      BY <1>0, <1>5, <2>1 DEF StartInit
  <1>6. ASSUME NEW c \in Conn, Connect(c) PROVE TypeOK'
    BY <1>0, <1>6 DEF Connect
  <1>7. CASE InitThrows
    BY <1>0, <1>7 DEF InitThrows
  <1>8. CASE PushNew
    <2>1. held[Game] # NoConn /\ Game \in Thread
      BY <1>0, <1>8 DEF PushNew, PlaceInv, Thread
    <2>2. pool' \in Seq(Conn)
      BY <1>0, <1>8, <2>1, PushFits DEF PushNew
    <2>3. built <= poolsize /\ built \in Nat
      BY <1>0, <1>8, PoolsizeType DEF PushNew, PlaceInv
    <2>4. built' = built \/ built' = built + 1
      BY <1>8 DEF PushNew
    <2>5. built' \in 0..(poolsize + 1)
      BY <2>3, <2>4, PoolsizeType
    <2>6. building' \in BOOLEAN /\ poolinitialized' \in BOOLEAN
      <3>1. CASE built = 0
        BY <1>0, <1>8, <3>1 DEF PushNew
      <3>2. CASE built # 0
        <4>1. /\ building' = (built + 1 <= poolsize)
              /\ poolinitialized' = ~building'
          BY <1>8, <3>2 DEF PushNew
        <4>2. building' \in BOOLEAN
          BY <4>1, SMT
        <4> QED
          BY <4>1, <4>2
      <3> QED
        BY <3>1, <3>2
    <2>7. pc' \in [Thread -> {"idle", "want", "query", "connect", "push",
                              "check", "close"}]
      BY <1>0, <1>8 DEF PushNew
    <2> QED
      BY <1>0, <1>8, <2>2, <2>5, <2>6, <2>7 DEF PushNew
  <1>9. CASE CheckMore
    BY <1>0, <1>9 DEF CheckMore
  <1>10. CASE CheckDone
    <2>1. built' \in 0..(poolsize + 1)
      BY <1>10, PoolsizeType DEF CheckDone
    <2> QED
      BY <1>0, <1>10, <2>1 DEF CheckDone
  <1>11. CASE StartTerm
    BY <1>0, <1>11 DEF StartTerm
  <1>12. CASE Close
    BY <1>0, <1>12, PopPool DEF Close, Exclusive
  <1>13. CASE EndTerm
    BY <1>0, <1>13 DEF EndTerm
  <1>14. CASE UNCHANGED vars
    BY <1>0, <1>14 DEF vars
  <1> QED
    BY <1>1, <1>2, <1>3, <1>4, <1>5, <1>6, <1>7, <1>8, <1>9, <1>10, <1>11,
       <1>12, <1>13, <1>14 DEF Next, Query, Initdb, Termdb

\* Every step leaves the threads where initdb and termdb know them to be.
LEMMA PlaceStep == IInv /\ [Next]_vars => PlaceInv'
  <1> SUFFICES ASSUME IInv, [Next]_vars PROVE PlaceInv'
    OBVIOUS
  <1> USE DEF PlaceInv, TypeOK, Goes, Holds, Thread
  <1>0. TypeOK /\ PlaceInv
    BY DEF IInv
  <1>1. ASSUME NEW t \in Thread, Want(t) PROVE PlaceInv'
    BY <1>0, <1>1 DEF Want
  <1>2. ASSUME NEW t \in Thread, Get(t) PROVE PlaceInv'
    <2>1. Head(pool) \in Conn
      BY <1>0, <1>2, PopPool DEF Get, IInv, Exclusive
    <2> QED
      BY <1>0, <1>2, <2>1 DEF Get
  <1>3. ASSUME NEW t \in Thread, Return(t) PROVE PlaceInv'
    BY <1>0, <1>3 DEF Return
  <1>4. ASSUME NEW t \in Thread, Fail(t) PROVE PlaceInv'
    BY <1>0, <1>4 DEF Fail
  <1>5. CASE StartInit
    BY <1>0, <1>5, PoolsizeType DEF StartInit
  <1>6. ASSUME NEW c \in Conn, Connect(c) PROVE PlaceInv'
    BY <1>0, <1>6 DEF Connect
  <1>7. CASE InitThrows
    BY <1>0, <1>7 DEF InitThrows
  <1>8. CASE PushNew
    BY <1>0, <1>8, PoolsizeType DEF PushNew
  <1>9. CASE CheckMore
    BY <1>0, <1>9 DEF CheckMore
  <1>10. CASE CheckDone
    BY <1>0, <1>10, PoolsizeType DEF CheckDone
  <1>11. CASE StartTerm
    BY <1>0, <1>11 DEF StartTerm
  <1>12. CASE Close
    BY <1>0, <1>12 DEF Close
  <1>13. CASE EndTerm
    BY <1>0, <1>13 DEF EndTerm
  <1>14. CASE UNCHANGED vars
    BY <1>0, <1>14 DEF vars
  <1> QED
    BY <1>1, <1>2, <1>3, <1>4, <1>5, <1>6, <1>7, <1>8, <1>9, <1>10, <1>11,
       <1>12, <1>13, <1>14 DEF Next, Query, Initdb, Termdb

------------------------------------------------------------------------------
(* Who has a connection.                                                    *)

\* Whose connection it is, free of the definition of the sets.
LEMMA HandsStep ==
    ASSUME TypeOK, TypeOK', NEW t \in Thread, NEW c \in Conn \cup {NoConn},
           held' = [held EXCEPT ![t] = c],
           \A s, u \in Holders : held[s] = held[u] => s = u,
           c \notin InHand
    PROVE  /\ InHand' = (InHand \ {held[t]}) \cup (IF c = NoConn THEN {} ELSE {c})
           /\ \A s, u \in Holders' : held'[s] = held'[u] => s = u
  <1>1. /\ held'[t] = c
        /\ \A s \in Thread \ {t} : held'[s] = held[s]
    BY DEF TypeOK
  <1>2. /\ Holders' = {s \in Thread : held'[s] # NoConn}
        /\ InHand' = {held'[s] : s \in Holders'}
    BY DEF Holders, InHand
  <1>3. \A s \in Holders \ {t} : held[s] # c
    BY DEF InHand
  <1>4. \A s, u \in Holders' : held'[s] = held'[u] => s = u
    BY <1>1, <1>2, <1>3 DEF Holders
  <1>5. InHand' \subseteq (InHand \ {held[t]}) \cup (IF c = NoConn THEN {} ELSE {c})
    <2> SUFFICES ASSUME NEW s \in Holders'
                 PROVE  held'[s] \in (InHand \ {held[t]})
                                     \cup (IF c = NoConn THEN {} ELSE {c})
      BY <1>2
    <2>1. CASE s = t
      BY <1>1, <1>2, <2>1
    <2>2. CASE s # t
      <3>1. s \in Holders /\ held'[s] = held[s]
        BY <1>1, <1>2, <2>2 DEF Holders
      <3>2. held[s] # held[t]
        BY <3>1, <2>2 DEF Holders
      <3> QED
        BY <3>1, <3>2 DEF InHand
    <2> QED
      BY <2>1, <2>2
  <1>6. (InHand \ {held[t]}) \cup (IF c = NoConn THEN {} ELSE {c}) \subseteq InHand'
    <2>1. ASSUME NEW s \in Holders, held[s] # held[t] PROVE held[s] \in InHand'
      <3>1. s # t /\ held'[s] = held[s] /\ s \in Holders'
        BY <1>1, <1>2, <2>1 DEF Holders
      <3> QED
        BY <1>2, <3>1
    <2>2. c # NoConn => c \in InHand'
      BY <1>1, <1>2
    <2> QED
      BY <2>1, <2>2 DEF InHand
  <1> QED
    BY <1>4, <1>5, <1>6

\* One connection moves between the pool, a thread and the leaked ones.
UserInv == Exclusive /\ Accounted /\ leaked \subseteq open

\* Steps that leave the queue, the hands and the server alone keep the
\* users of the connections.
LEMMA UserFrame ==
    ASSUME UserInv, UNCHANGED << pool, held, open, leaked >>
    PROVE  UserInv'
  <1>1. InPool' = InPool /\ Holders' = Holders /\ InHand' = InHand
    BY DEF InPool, Holders, InHand
  <1> QED
    BY <1>1 DEF UserInv, Exclusive, Accounted

\* No step gives a connection a second user, or none.
LEMMA UserStep == IInv /\ [Next]_vars => UserInv'
  <1> SUFFICES ASSUME IInv, [Next]_vars PROVE UserInv'
    OBVIOUS
  <1> USE DEF Goes, Holds
  <1>0. /\ TypeOK /\ TypeOK' /\ PlaceInv /\ UserInv
        /\ Game \in Thread
    BY TypeStep DEF IInv, OpenInv, UserInv, Thread
  <1>1. /\ \A s, u \in Holders : held[s] = held[u] => s = u
        /\ \A k, l \in 1..Len(pool) : pool[k] = pool[l] => k = l
        /\ InPool \cap InHand = {}
        /\ InPool \cup InHand \subseteq open \ leaked
        /\ open \subseteq InPool \cup InHand \cup leaked
        /\ leaked \subseteq open
        /\ NoConn \notin InHand /\ open \subseteq Conn
    BY <1>0 DEF UserInv, Exclusive, Accounted, InHand, Holders, TypeOK
  <1>2. ASSUME NEW t \in Thread, Get(t) PROVE UserInv'
    <2> DEFINE c == Head(pool)
    <2>1. /\ InPool' = InPool \ {c} /\ c \in InPool /\ c \in Conn
          /\ \A k, l \in 1..Len(pool') : pool'[k] = pool'[l] => k = l
      BY <1>0, <1>1, <1>2, PopPool DEF Get, TypeOK
    <2>2. held[t] = NoConn /\ held' = [held EXCEPT ![t] = c]
      BY <1>0, <1>2 DEF Get, PlaceInv
    <2> HIDE DEF c
    <2>3. c \notin InHand /\ c # NoConn
      BY <1>1, <2>1
    <2>4. /\ InHand' = (InHand \ {held[t]}) \cup (IF c = NoConn THEN {} ELSE {c})
          /\ \A s, u \in Holders' : held'[s] = held'[u] => s = u
      BY <1>0, <1>1, <2>1, <2>2, <2>3, HandsStep
    <2>5. InHand' = InHand \cup {c}
      BY <1>1, <2>2, <2>3, <2>4
    <2>6. open' = open /\ leaked' = leaked
      BY <1>2 DEF Get
    <2> QED
      BY <1>1, <2>1, <2>4, <2>5, <2>6 DEF UserInv, Exclusive, Accounted
  <1>3. ASSUME NEW t \in Thread, held[t] # NoConn,
               pool' = Pushed(held[t]), held' = [held EXCEPT ![t] = NoConn],
               UNCHANGED << open, leaked >>
        PROVE  UserInv'
    <2> DEFINE c == held[t]
    <2>1. /\ c \in Conn /\ c \notin InPool /\ c \in open /\ c \notin leaked
          /\ pool' = Append(pool, c)
      BY <1>3, PushFits
    <2>2. /\ InPool' = InPool \cup {c}
          /\ \A k, l \in 1..Len(pool') : pool'[k] = pool'[l] => k = l
      BY <1>0, <1>1, <2>1, PushPool DEF TypeOK
    <2>3. /\ InHand' = InHand \ {c}
          /\ \A s, u \in Holders' : held'[s] = held'[u] => s = u
      BY <1>0, <1>1, <1>3, HandsStep
    <2> HIDE DEF c
    <2>4. open' = open /\ leaked' = leaked
      BY <1>3
    <2> QED
      BY <1>1, <2>1, <2>2, <2>3, <2>4 DEF UserInv, Exclusive, Accounted
  <1>4. ASSUME NEW t \in Thread, Return(t) PROVE UserInv'
    <2>1. held[t] # NoConn
      BY <1>0, <1>4 DEF Return, PlaceInv
    <2> QED
      BY <1>3, <1>4, <2>1 DEF Return
  <1>5. CASE PushNew
    <2>1. held[Game] # NoConn
      BY <1>0, <1>5 DEF PushNew, PlaceInv
    <2> QED
      BY <1>0, <1>3, <1>5, <2>1 DEF PushNew
  <1>6. ASSUME NEW t \in Thread, Fail(t) PROVE UserInv'
    <2> DEFINE c == held[t]
    <2>1. /\ held' = [held EXCEPT ![t] = NoConn] /\ c \in InHand
          /\ leaked' = leaked \cup {c} /\ open' = open /\ pool' = pool
      BY <1>0, <1>6 DEF Fail, PlaceInv, InHand, Holders
    <2>2. /\ InHand' = InHand \ {c}
          /\ \A s, u \in Holders' : held'[s] = held'[u] => s = u
      BY <1>0, <1>1, <2>1, HandsStep
    <2>3. InPool' = InPool
      BY <2>1 DEF InPool
    <2> HIDE DEF c
    <2> QED
      BY <1>1, <2>1, <2>2, <2>3 DEF UserInv, Exclusive, Accounted
  <1>7. ASSUME NEW c \in Conn, Connect(c) PROVE UserInv'
    <2>1. /\ held' = [held EXCEPT ![Game] = c] /\ held[Game] = NoConn
          /\ c \notin open /\ c # NoConn
          /\ leaked' = leaked /\ open' = open \cup {c} /\ pool' = pool
      BY <1>0, <1>7 DEF Connect, PlaceInv
    <2>2. c \notin InHand
      BY <1>1, <2>1
    <2>3. /\ InHand' = (InHand \ {NoConn}) \cup (IF c = NoConn THEN {} ELSE {c})
          /\ \A s, u \in Holders' : held'[s] = held'[u] => s = u
      BY <1>0, <1>1, <2>1, <2>2, HandsStep
    <2>4. InHand' = InHand \cup {c}
      BY <1>1, <2>1, <2>3
    <2>5. InPool' = InPool
      BY <2>1 DEF InPool
    <2> QED
      BY <1>1, <2>1, <2>3, <2>4, <2>5 DEF UserInv, Exclusive, Accounted
  <1>8. CASE Close
    <2> DEFINE c == Head(pool)
    <2>1. /\ InPool' = InPool \ {c} /\ c \in InPool
          /\ \A k, l \in 1..Len(pool') : pool'[k] = pool'[l] => k = l
      BY <1>0, <1>1, <1>8, PopPool DEF Close, TypeOK
    <2>2. held' = held /\ leaked' = leaked /\ open' = open \ {c}
      BY <1>8 DEF Close
    <2>3. /\ InHand' = InHand
          /\ \A s, u \in Holders' : held'[s] = held'[u] => s = u
      BY <1>1, <2>2 DEF InHand, Holders
    <2> HIDE DEF c
    <2> QED
      BY <1>1, <2>1, <2>2, <2>3 DEF UserInv, Exclusive, Accounted
  <1>9. ASSUME NEW t \in Thread, Want(t) PROVE UserInv'
    BY <1>0, <1>9, UserFrame DEF Want
  <1>10. CASE StartInit \/ InitThrows \/ CheckMore \/ CheckDone
    BY <1>0, <1>10, UserFrame DEF StartInit, InitThrows, CheckMore, CheckDone
  <1>11. CASE StartTerm \/ EndTerm
    BY <1>0, <1>11, UserFrame DEF StartTerm, EndTerm
  <1>12. CASE UNCHANGED vars
    BY <1>0, <1>12, UserFrame DEF vars
  <1> QED
    BY <1>2, <1>4, <1>5, <1>6, <1>7, <1>8, <1>9, <1>10, <1>11, <1>12
       DEF Next, Query, Initdb, Termdb

------------------------------------------------------------------------------
(* How many connections there are.                                          *)

\* Steps that open no connection and reserve no node keep the counts.
LEMMA CountFrame ==
    ASSUME CountInv,
           UNCHANGED << open, capacity, building, built, poolinitialized,
                        poolcleanup >>,
           building => (pc'[Game] = "connect" <=> pc[Game] = "connect")
    PROVE  CountInv'
  BY DEF CountInv, Made, Usable, poolsize

\* The nodes that initdb reserves last for the connections it makes.
LEMMA CountStep == IInv /\ [Next]_vars => IsFiniteSet(open)' /\ CountInv'
  <1> SUFFICES ASSUME IInv, [Next]_vars
               PROVE  IsFiniteSet(open)' /\ CountInv'
    OBVIOUS
  <1> USE DEF Goes, Holds, Usable, Made
  <1>0. /\ TypeOK /\ PlaceInv /\ CountInv /\ IsFiniteSet(open)
        /\ Cardinality(open) \in Nat /\ poolsize \in Nat \ {0}
        /\ capacity \in Nat /\ built \in Nat /\ Game \in Thread
    BY PoolsizeType, FS_CardinalityType DEF IInv, OpenInv, TypeOK, Thread
  <1>1. ASSUME NEW c \in Conn, Connect(c) PROVE IsFiniteSet(open)' /\ CountInv'
    <2>1. /\ IsFiniteSet(open') /\ Cardinality(open') = Cardinality(open) + 1
      BY <1>0, <1>1, FS_AddElement DEF Connect
    <2>2. /\ pc[Game] = "connect" /\ pc'[Game] = "push" /\ building
          /\ built <= poolsize /\ ~poolinitialized
          /\ UNCHANGED << capacity, building, built, poolinitialized >>
      BY <1>0, <1>1 DEF Connect, PlaceInv, TypeOK
    <2> QED
      BY <1>0, <2>1, <2>2 DEF CountInv
  <1>2. CASE Close
    <2>1. Head(pool) \in open
      BY <1>2, PopPool DEF Close, IInv, TypeOK, Exclusive
    <2>2. IsFiniteSet(open') /\ Cardinality(open') = Cardinality(open) - 1
      BY <1>0, <1>2, <2>1, FS_RemoveElement DEF Close
    <2>3. /\ ~building /\ poolcleanup
          /\ UNCHANGED << building, poolcleanup, capacity >>
      BY <1>0, <1>2 DEF Close, PlaceInv
    <2> QED
      BY <1>0, <2>2, <2>3 DEF CountInv
  <1>3. CASE StartInit
    <2>1. /\ capacity' = capacity + poolsize + 3 /\ built' = 0 /\ open' = open
          /\ pc'[Game] = "connect" /\ ~poolinitialized'
      BY <1>0, <1>3 DEF StartInit, TypeOK
    <2> QED
      BY <1>0, <2>1 DEF CountInv
  <1>4. CASE PushNew
    <2>1. /\ UNCHANGED << open, capacity, poolcleanup >>
          /\ pc[Game] = "push" /\ building /\ ~poolinitialized
          /\ built <= poolsize
      BY <1>0, <1>4 DEF PushNew, PlaceInv
    <2>2. CASE built = 0
      <3>1. pc'[Game] = "want" /\ UNCHANGED << built, building, poolinitialized >>
        BY <1>0, <1>4, <2>2 DEF PushNew, TypeOK
      <3> QED
        BY <1>0, <2>1, <3>1 DEF CountInv
    <2>3. CASE built # 0 /\ built + 1 <= poolsize
      <3>1. /\ built' = built + 1 /\ pc'[Game] = "connect" /\ ~poolinitialized'
        BY <1>0, <1>4, <2>3 DEF PushNew, TypeOK
      <3> QED
        BY <1>0, <2>1, <3>1 DEF CountInv
    <2>4. CASE built # 0 /\ ~(built + 1 <= poolsize)
      <3>1. ~building'
        BY <1>0, <1>4, <2>4 DEF PushNew
      <3>2. built = poolsize
        BY <1>0, <2>1, <2>4
      <3> QED
        BY <1>0, <2>1, <3>1, <3>2 DEF CountInv
    <2> QED
      BY <2>2, <2>3, <2>4
  <1>5. CASE InitThrows
    <2>1. ~building' /\ UNCHANGED << open, capacity, poolinitialized, poolcleanup >>
      BY <1>5 DEF InitThrows
    <2> QED
      BY <1>0, <2>1 DEF CountInv
  <1>6. CASE CheckDone
    <2>1. /\ built = 0 /\ built' = 1 /\ pc[Game] = "check" /\ building
          /\ pc'[Game] = "connect"
          /\ UNCHANGED << open, capacity, poolinitialized, poolcleanup, building >>
      BY <1>0, <1>6 DEF CheckDone, PlaceInv, TypeOK
    <2> QED
      BY <1>0, <2>1 DEF CountInv
  <1>7. ASSUME NEW t \in Thread, Fail(t) PROVE IsFiniteSet(open)' /\ CountInv'
    <2>1. /\ UNCHANGED << open, capacity, poolinitialized, poolcleanup, built >>
          /\ pc[t] = "query"
          /\ t = Game => ~building'
          /\ t # Game => building' = building /\ pc'[Game] = pc[Game]
      BY <1>0, <1>7 DEF Fail, TypeOK
    <2> QED
      BY <1>0, <2>1 DEF CountInv
  <1>8. ASSUME NEW t \in Thread, Want(t) \/ Get(t) \/ Return(t)
        PROVE  IsFiniteSet(open)' /\ CountInv'
    <2>1. /\ UNCHANGED << open, capacity, building, built, poolinitialized,
                          poolcleanup >>
          /\ pc'[Game] = "connect" <=> pc[Game] = "connect"
      BY <1>0, <1>8 DEF Want, Get, Return, TypeOK
    <2> QED
      BY <1>0, <2>1, CountFrame
  <1>9. CASE CheckMore
    <2>1. /\ UNCHANGED << open, capacity, building, built, poolinitialized,
                          poolcleanup >>
          /\ pc'[Game] = "connect" <=> pc[Game] = "connect"
      BY <1>0, <1>9 DEF CheckMore, TypeOK
    <2> QED
      BY <1>0, <2>1, CountFrame
  <1>10. CASE StartTerm \/ EndTerm
    <2>1. /\ ~building /\ UNCHANGED << open, capacity, building >>
          /\ ~(Usable')
      BY <1>0, <1>10 DEF StartTerm, EndTerm, PlaceInv
    <2> QED
      BY <1>0, <2>1 DEF CountInv
  <1>11. CASE UNCHANGED vars
    BY <1>0, <1>11, CountFrame DEF vars
  <1> QED
    BY <1>1, <1>2, <1>3, <1>4, <1>5, <1>6, <1>7, <1>8, <1>9, <1>10, <1>11
       DEF Next, Query, Initdb, Termdb

------------------------------------------------------------------------------
(* The invariant, and the invariants of the runs.                           *)

\* The invariant holds in every state.
LEMMA Inductive == Spec => []IInv
  <1>1. IInv /\ [Next]_vars => IInv'
    BY TypeStep, PlaceStep, UserStep, CountStep DEF IInv, UserInv, OpenInv
  <1> QED
    BY InitIInv, <1>1, PTL DEF Spec

\* Type correctness of the pool, for any number of threads and connections
\* (mysql.cpp:357-513); in particular initdb makes poolsize + 1 connections.
THEOREM TypeCorrect == Spec => []TypeOK
  <1>1. IInv => TypeOK
    BY DEF IInv
  <1> QED
    BY Inductive, <1>1, PTL

\* A connection in use has one user, is not in the pool and was not closed
\* (mysql.cpp:465-513).
THEOREM OneUser == Spec => []Exclusive
  <1>1. IInv => Exclusive
    BY DEF IInv
  <1> QED
    BY Inductive, <1>1, PTL

\* No bounded_push fails (mysql.cpp:429, 505): reserve(poolsize + 3) at each
\* initdb is enough for poolsize + 1 connections, with all that was left.
THEOREM NothingDropped == Spec => []Accounted
  <1>1. IInv => Accounted
    BY DEF IInv
  <1> QED
    BY Inductive, <1>1, PTL

\* There are not more connections in hands than threads that hold one.
LEMMA HandsNotMore ==
    /\ IsFiniteSet(Thread) /\ IsFiniteSet(Holders) /\ IsFiniteSet(InHand)
    /\ Cardinality(InHand) <= Cardinality(Holders)
  <1> DEFINE f == [t \in Holders |-> held[t]]
  <1>1. IsFiniteSet(Thread)
    BY FS_AddElement DEF Thread
  <1>2. IsFiniteSet(Holders)
    BY <1>1, FS_Subset DEF Holders
  <1>3. f \in Surjection(Holders, InHand)
    BY DEF Surjection, InHand
  <1> QED
    BY <1>1, <1>2, <1>3, FS_Surjection

\* Nobody can find the pool empty before poolsize + 1 connections are in use
\* or were kept by failed queries (mysql.cpp:422-438, 483-501).
THEOREM NobodyWaitsEarly == Spec => []EmptyOnlyIfUsedUp
  <1>1. IInv => EmptyOnlyIfUsedUp
    <2> SUFFICES ASSUME IInv, Usable, pool = << >>
                 PROVE  Cardinality(leaked) + Cardinality(Holders) >= poolsize + 1
      BY DEF EmptyOnlyIfUsedUp
    <2>1. InPool = {}
      BY DEF InPool
    <2>2. open = InHand \cup leaked /\ IsFiniteSet(open)
      BY <2>1 DEF IInv, Accounted, Exclusive, OpenInv
    <2>3. IsFiniteSet(Holders)
      BY HandsNotMore
    <2>4. IsFiniteSet(InHand) /\ Cardinality(InHand) <= Cardinality(Holders)
      BY HandsNotMore
    <2>5. IsFiniteSet(leaked)
      BY <2>2, FS_Subset
    <2>6. Cardinality(open) = Cardinality(InHand) + Cardinality(leaked)
                                - Cardinality(InHand \cap leaked)
      BY <2>2, <2>4, <2>5, FS_Union
    <2>7. Cardinality(open) >= poolsize + 1
      BY DEF IInv, CountInv
    <2>8. InHand \cap leaked = {}
      BY DEF IInv, Exclusive
    <2>9. /\ Cardinality(open) \in Nat /\ Cardinality(InHand) \in Nat
          /\ Cardinality(leaked) \in Nat /\ Cardinality(Holders) \in Nat
          /\ poolsize \in Nat
      BY <2>2, <2>3, <2>4, <2>5, FS_CardinalityType, PoolsizeType
    <2>10. Cardinality(InHand \cap leaked) = 0
      BY <2>8, FS_EmptySet
    <2> QED
      BY <2>4, <2>6, <2>7, <2>9, <2>10
  <1> QED
    BY Inductive, <1>1, PTL

\* With a connection for every thread that no failed query kept, no thread
\* ever spins on an empty pool (mysql.cpp:488).
THEOREM EnoughForAll ==
    Spec => [](Cardinality(Live) >= Cardinality(Thread) =>
                  \A t \in Thread : pc[t] = "want" => pool # << >>)
  <1>1. ASSUME IInv, NEW t \in Thread, pc[t] = "want", pool = << >>
        PROVE  Cardinality(Live) < Cardinality(Thread)
    <2>1. Live \subseteq InHand
      BY <1>1 DEF IInv, Accounted, InPool, Live
    <2>2. Holders \subseteq Thread \ {t}
      BY <1>1 DEF IInv, PlaceInv, Holders
    <2>3. Cardinality(Live) <= Cardinality(Holders)
      <3>1. IsFiniteSet(Live) /\ Cardinality(Live) <= Cardinality(InHand)
        BY <2>1, HandsNotMore, FS_Subset
      <3> QED
        BY <3>1, HandsNotMore, FS_CardinalityType
    <2>4. /\ IsFiniteSet(Thread \ {t})
          /\ Cardinality(Thread \ {t}) = Cardinality(Thread) - 1
      BY HandsNotMore, FS_RemoveElement
    <2>5. Cardinality(Holders) <= Cardinality(Thread \ {t})
      BY <2>2, <2>4, FS_Subset
    <2>6. IsFiniteSet(Live)
      BY <2>1, HandsNotMore, FS_Subset
    <2>7. Cardinality(Live) \in Nat /\ Cardinality(Holders) \in Nat /\ Cardinality(Thread) \in Nat
      BY <2>6, HandsNotMore, FS_CardinalityType
    <2> QED
      BY <2>3, <2>4, <2>5, <2>7
  <1>2. IInv => (Cardinality(Live) >= Cardinality(Thread) =>
                   \A t \in Thread : pc[t] = "want" => pool # << >>)
    <2> SUFFICES ASSUME IInv, Cardinality(Live) >= Cardinality(Thread),
                        NEW t \in Thread, pc[t] = "want", pool = << >>
                 PROVE  FALSE
      OBVIOUS
    <2>1. Live \subseteq InHand
      BY DEF IInv, Accounted, InPool, Live
    <2>2. Cardinality(Live) \in Nat /\ Cardinality(Thread) \in Nat
      BY <2>1, HandsNotMore, FS_Subset, FS_CardinalityType
    <2> QED
      BY <1>1, <2>2
  <1> QED
    BY Inductive, <1>2, PTL

------------------------------------------------------------------------------
(* The pool at work with the dispatcher.                                    *)

\* Whatever the workers and the game do, each step of theirs is a step of the
\* pool, or leaves it alone.
LEMMA StepUses == [ServiceNext]_serviceVars => [Next]_vars
  <1> SUFFICES ASSUME [ServiceNext]_serviceVars PROVE Next \/ UNCHANGED vars
    OBVIOUS
  <1>1. ASSUME NEW t \in Thread, MakeQuery(t) PROVE Next
    BY <1>1 DEF MakeQuery, Next, Query
  <1>2. ASSUME NEW w \in Worker, WorkerStep(w) PROVE Next \/ UNCHANGED vars
    <2>1. CASE Dispatch(w) \/ Call(w) \/ AfterCall(w)
      BY <2>1 DEF Dispatch, Call, AfterCall
    <2>2. CASE JobQuery(w)
      BY <1>1, <2>2 DEF JobQuery, Thread
    <2> QED
      BY <1>2, <2>1, <2>2 DEF WorkerStep
  <1>3. CASE NewCall \/ Stopped
    BY <1>3 DEF NewCall, Stopped
  <1>4. CASE NewDatabaseCall
    BY <1>4 DEF NewDatabaseCall, Next, Initdb, Termdb, Query, Thread
  <1>5. CASE InDatabase \/ CheckAgain
    BY <1>5 DEF InDatabase, CheckAgain, Next, Initdb, Termdb, Query, Thread
  <1>6. CASE TerminateModules
    BY <1>6 DEF TerminateModules, Next, Termdb
  <1>7. CASE UNCHANGED serviceVars
    BY <1>7 DEF serviceVars
  <1> QED
    BY <1>2, <1>3, <1>4, <1>5, <1>6, <1>7 DEF ServiceNext, GameStep

\* The workers' jobs, initdb, termdb and the end of the module use the pool as
\* ConnPool says (mysql.cpp:419-513): what is shown of the pool alone holds of
\* the pool at work.
THEOREM ServiceUsesPool == ServiceSpec => Spec
  <1>1. ServiceInit => Init
    BY DEF ServiceInit
  <1> QED
    BY <1>1, StepUses, PTL DEF ServiceSpec, Spec

\* A worker uses the pool only from inside a job.  When the library is gone the
\* workers have ended, and the module closed what was in the pool; without a
\* config file there are neither workers nor connections.
ServiceInv ==
    /\ wpc \in [Worker -> {"absent", "idle", "call", "store", "callback",
                           "finish", "exited"}]
    /\ \A w \in Worker : pc[w] # "idle" => wpc[w] = "call"
    /\ gpc = "gone" => R!AllJoined /\ pc[Game] \in {"idle", "close"}
    /\ gpc = "gone" /\ pc[Game] = "idle" => pool = << >>
    /\ ~configured => /\ \A w \in Worker : wpc[w] = "absent"
                      /\ pc[Game] = "idle" /\ pool = << >>

\* The steps that only the workers' places matter to.
LEMMA ServiceWorker ==
    ASSUME IInv, ServiceInv, NEW w \in Worker, WorkerStep(w)
    PROVE  ServiceInv'
  <1> USE DEF ServiceInv, R!AllJoined
  <1>0. /\ pc \in [Thread -> {"idle", "want", "query", "connect", "push",
                              "check", "close"}]
        /\ Game \in Thread /\ w \in Thread /\ w # Game
    BY DEF IInv, TypeOK, Thread
  <1>1. CASE Dispatch(w)
    BY <1>1 DEF Dispatch, R!Dispatch, R!gameVars, vars
  <1>2. CASE JobQuery(w)
    <2>1. /\ wpc[w] = "call" /\ UNCHANGED << wpc, gpc, configured >>
          /\ \A t \in Thread \ {w} : pc'[t] = pc[t]
      BY <1>0, <1>2 DEF JobQuery, redexVars, MakeQuery, Want, Get,
         Return, Fail, Goes
    <2>2. configured /\ gpc # "gone"
      BY <2>1
    <2> QED
      BY <2>1, <2>2 DEF Thread
  <1>3. CASE Call(w)
    <2>1. /\ pc[w] = "idle" /\ UNCHANGED << gpc, configured, pool, pc >>
          /\ wpc[w] = "call" /\ wpc' = [wpc EXCEPT ![w] = wpc'[w]]
          /\ wpc'[w] \in {"store", "callback", "finish"}
      BY <1>3 DEF Call, R!Call, R!gameVars, vars
    <2> QED
      BY <2>1
  <1>4. CASE AfterCall(w)
    <2>1. /\ UNCHANGED << gpc, configured, pool, pc >>
          /\ wpc[w] \in {"store", "callback", "finish", "idle"}
          /\ wpc' = [wpc EXCEPT ![w] = wpc'[w]]
          /\ wpc'[w] \in {"finish", "idle", "exited"}
      BY <1>4 DEF AfterCall, R!Store, R!Callback, R!Finish, R!Exit,
         R!gameVars, vars
    <2> QED
      BY <2>1
  <1> QED
    BY <1>1, <1>2, <1>3, <1>4 DEF WorkerStep

\* The calls of the game, and the end of the library.
LEMMA ServiceStep == IInv /\ ServiceInv /\ [ServiceNext]_serviceVars => ServiceInv'
  <1> SUFFICES ASSUME IInv, ServiceInv, [ServiceNext]_serviceVars PROVE ServiceInv'
    OBVIOUS
  <1> USE DEF ServiceInv, R!AllJoined
  <1>0. /\ pc \in [Thread -> {"idle", "want", "query", "connect", "push",
                              "check", "close"}]
        /\ Game \in Thread /\ Worker \subseteq Thread /\ Game \notin Worker
    BY DEF IInv, TypeOK, Thread
  <1>1. CASE NewCall
    <2>1. /\ UNCHANGED << pool, pc, wpc, configured >>
          /\ gpc = "idle" /\ gpc' # "gone"
      BY <1>1 DEF NewCall, vars, R!Register, R!Terminate,
         R!Destroy, R!Post, R!gameVars, R!threadVars
    <2> QED
      BY <2>1
  <1>2. CASE NewDatabaseCall
    <2>1. /\ configured /\ gpc = "idle" /\ UNCHANGED << wpc, gpc, configured >>
          /\ pc' = [pc EXCEPT ![Game] = pc'[Game]]
      BY <1>0, <1>2 DEF NewDatabaseCall, redexVars, StartInit,
         StartTerm, Want, Goes
    <2> QED
      BY <1>0, <2>1
  <1>3. CASE InDatabase \/ CheckAgain
    <2>1. /\ UNCHANGED << wpc, gpc, configured >>
          /\ \A w \in Worker : pc'[w] = pc[w]
      BY <1>0, <1>3 DEF InDatabase, CheckAgain, redexVars, InitThrows,
         PushNew, CheckDone, CheckMore, Close, EndTerm,
         Get, Return, Fail, Connect, Goes
    <2>2. configured
      <3>1. pc[Game] # "idle"
        BY <1>3 DEF InDatabase, InDatabaseCall, CheckAgain, CheckMore
      <3> QED
        BY <3>1
    <2>3. pc[Game] = "close" =>
             \/ pc'[Game] = "close"
             \/ pc'[Game] = "idle" /\ pool = << >> /\ pool' = pool
      BY <1>0, <1>3 DEF InDatabase, CheckAgain, InitThrows, PushNew,
         CheckDone, CheckMore, Close, EndTerm, Get,
         Return, Fail, Connect, Goes
    <2>4. pc[Game] # "idle"
      BY <1>3 DEF InDatabase, InDatabaseCall, CheckAgain, CheckMore
    <2> QED
      BY <2>1, <2>2, <2>3, <2>4
  <1>4. CASE Stopped
    BY <1>4 DEF Stopped, vars, R!Stopped, R!threadVars
  <1>5. CASE TerminateModules
    <2>1. /\ UNCHANGED << wpc, configured, pool >>
          /\ gpc' = "gone" => R!AllJoined
      BY <1>5 DEF TerminateModules, vars, StartTerm, R!Join,
         R!Unloaded, R!threadVars
    <2>2. /\ configured => pc' = [pc EXCEPT ![Game] = "close"]
          /\ ~configured => UNCHANGED pc
      BY <1>5 DEF TerminateModules, vars, StartTerm, Goes
    <2> QED
      BY <1>0, <2>1, <2>2
  <1>6. CASE UNCHANGED serviceVars
    BY <1>6 DEF serviceVars, redexVars, vars
  <1> QED
    BY <1>1, <1>2, <1>3, <1>4, <1>5, <1>6, ServiceWorker DEF ServiceNext, GameStep

\* After the unloading (redex.cpp:122-134) the server has no connection of this
\* process but those that failed queries kept.
THEOREM UnloadingCloses == ServiceSpec => []NothingLeftOpen
  <1>1. ServiceInit => ServiceInv
    BY DEF ServiceInit, Init, R!Init, Thread, ServiceInv
  <1>2. IInv /\ ServiceInv => NothingLeftOpen
    <2> SUFFICES ASSUME IInv, ServiceInv, gpc = "gone", pc[Game] = "idle"
                 PROVE  open \subseteq leaked
      BY DEF NothingLeftOpen
    <2>1. InPool = {}
      BY DEF ServiceInv, InPool
    <2>2. \A t \in Thread : pc[t] = "idle"
      BY DEF ServiceInv, R!AllJoined, Thread
    <2>3. InHand = {}
      BY <2>2 DEF IInv, PlaceInv, InHand, Holders
    <2> QED
      BY <2>1, <2>3 DEF IInv, Accounted
  <1> QED
    BY <1>1, <1>2, ServiceUsesPool, Inductive, ServiceStep, PTL DEF ServiceSpec

------------------------------------------------------------------------------
(* The waits of the game.                                                   *)

\* The game waits in one call at a time; while it waits for the workers the
\* idle work is given up, and with it and the last job gone the service has
\* stopped.  Threads are there from the start, and leave only then.
WaitInv ==
    /\ work => configured
    /\ \A w \in Worker : wpc[w] = "absent" <=> ~configured
    /\ \A w \in Worker : wpc[w] = "exited" => stopped
    /\ Waiting => ~work /\ pc[Game] = "idle"
    /\ gpc \in {"join", "unload"} => stopped
    /\ configured /\ ~work /\ jobs = << >> /\ (\A w \in Worker : ~R!Busy(w)) => stopped
    /\ queries \in [Thread -> Nat]

\* The workers bring the service to its end.
LEMMA WaitWorker ==
    ASSUME IInv, ServiceInv, WaitInv, NEW w \in Worker, WorkerStep(w)
    PROVE  WaitInv'
  <1> USE DEF WaitInv, Waiting
  <1>0. /\ wpc \in [Worker -> {"absent", "idle", "call", "store", "callback",
                               "finish", "exited"}]
        /\ pc \in [Thread -> {"idle", "want", "query", "connect", "push",
                              "check", "close"}]
        /\ Game \in Thread /\ w \in Thread /\ w # Game
    BY DEF IInv, TypeOK, ServiceInv, Thread
  <1>1. CASE Dispatch(w)
    <2>1. /\ UNCHANGED << configured, work, stopped, gpc, pc >>
          /\ queries' = [queries EXCEPT ![w] = MaxQueries]
          /\ wpc' = [wpc EXCEPT ![w] = "call"] /\ wpc[w] = "idle"
      BY <1>1 DEF Dispatch, Limit, R!Dispatch, R!gameVars, vars
    <2>2. R!Busy(w)'
      BY <1>0, <2>1 DEF R!Busy
    <2> QED
      BY <1>0, <2>1, <2>2, MaxQueriesAssumption
  <1>2. CASE JobQuery(w)
    <2>1. UNCHANGED << configured, work, stopped, gpc, jobs, wpc >>
      BY <1>2 DEF JobQuery, redexVars
    <2>2. pc'[Game] = pc[Game]
      BY <1>0, <1>2 DEF JobQuery, MakeQuery, Want, Get, Return, Fail, Goes
    <2>3. queries' \in [Thread -> Nat]
      BY <1>0, <1>2 DEF JobQuery, MakeQuery, Limit
    <2> QED
      BY <2>1, <2>2, <2>3 DEF R!Busy
  <1>3. CASE Call(w)
    <2>1. /\ UNCHANGED << configured, work, stopped, gpc, pc, jobs, queries >>
          /\ wpc' = [wpc EXCEPT ![w] = wpc'[w]] /\ wpc[w] = "call"
          /\ wpc'[w] \in {"store", "callback", "finish"}
      BY <1>0, <1>3 DEF Call, R!Call, R!gameVars, vars
    <2>2. R!Busy(w)'
      BY <2>1 DEF R!Busy
    <2> QED
      BY <1>0, <2>1, <2>2
  <1>4. CASE AfterCall(w)
    <2>1. UNCHANGED << configured, work, gpc, pc, jobs, queries >>
      BY <1>4 DEF AfterCall, R!Store, R!Callback, R!Finish, R!Exit,
         R!gameVars, vars
    <2>2. CASE R!Store(w) \/ R!Callback(w)
      <3>1. /\ stopped' = stopped /\ wpc[w] \in {"store", "callback"}
            /\ wpc' = [wpc EXCEPT ![w] = "finish"]
        BY <2>2 DEF R!Store, R!Callback
      <3>2. R!Busy(w)'
        BY <1>0, <3>1 DEF R!Busy
      <3> QED
        BY <1>0, <2>1, <3>1, <3>2
    <2>3. CASE R!Finish(w)
      <3>1. /\ wpc[w] = "finish" /\ wpc' = [wpc EXCEPT ![w] = "idle"]
            /\ stopped' = (stopped \/ (~work /\ R!Drained(Worker \ {w})))
        BY <2>3 DEF R!Finish
      <3>2. (\A v \in Worker : ~R!Busy(v)') => \A v \in Worker \ {w} : ~R!Busy(v)
        BY <1>0, <3>1 DEF R!Busy
      <3> QED
        BY <1>0, <2>1, <3>1, <3>2 DEF R!Drained
    <2>4. CASE R!Exit(w)
      <3>1. /\ stopped' = stopped /\ stopped /\ wpc[w] = "idle"
            /\ wpc' = [wpc EXCEPT ![w] = "exited"]
        BY <2>4 DEF R!Exit
      <3> QED
        BY <1>0, <2>1, <3>1
    <2> QED
      BY <1>4, <2>2, <2>3, <2>4 DEF AfterCall
  <1> QED
    BY <1>1, <1>2, <1>3, <1>4 DEF WorkerStep

\* The game gives up the idle work before it waits.
LEMMA WaitStep == IInv /\ ServiceInv /\ WaitInv /\ [ServiceNext]_serviceVars => WaitInv'
  <1> SUFFICES ASSUME IInv, ServiceInv, WaitInv, [ServiceNext]_serviceVars
               PROVE  WaitInv'
    OBVIOUS
  <1> USE DEF WaitInv, Waiting
  <1>0. /\ pc \in [Thread -> {"idle", "want", "query", "connect", "push",
                              "check", "close"}]
        /\ Game \in Thread
    BY DEF IInv, TypeOK, Thread
  <1>1. CASE NewCall
    <2>1. /\ UNCHANGED << pc, wpc, configured, queries >>
          /\ gpc = "idle" /\ pc[Game] = "idle"
      BY <1>1 DEF NewCall, InDatabaseCall, vars, R!Register, R!Terminate,
         R!Destroy, R!Post, R!gameVars, R!threadVars
    <2>2. CASE R!Register
      BY <2>1, <2>2 DEF R!Register, R!threadVars, R!gameVars, R!Busy
    <2>3. CASE R!Terminate
      <3>1. /\ work' = FALSE /\ jobs' = jobs /\ gpc' = "spin"
            /\ stopped' = (stopped \/ (work /\ R!Drained(Worker)))
        BY <2>3 DEF R!Terminate
      <3> QED
        BY <2>1, <3>1 DEF R!Drained, R!Busy
    <2>4. CASE R!Destroy
      BY <2>1, <2>4 DEF R!Destroy
    <2>5. ASSUME NEW i \in Id, NEW k \in {"async", "callback", "quiet"}, R!Post(k, i)
          PROVE  WaitInv'
      <3>1. /\ UNCHANGED << work, stopped, gpc >> /\ jobs' = Append(jobs, i)
        BY <2>5 DEF R!Post
      <3>2. jobs' # << >>
        BY <3>1
      <3> QED
        BY <2>1, <3>1, <3>2
    <2> QED
      BY <1>1, <2>2, <2>3, <2>4, <2>5 DEF NewCall
  <1>2. CASE NewDatabaseCall
    <2>1. /\ gpc = "idle" /\ UNCHANGED redexVars
          /\ queries' \in [Thread -> Nat]
      BY <1>0, <1>2, MaxQueriesAssumption DEF NewDatabaseCall, Limit
    <2> QED
      BY <2>1 DEF redexVars, R!Busy
  <1>3. CASE InDatabase \/ CheckAgain
    <2>1. /\ UNCHANGED redexVars /\ queries' \in [Thread -> Nat]
          /\ pc[Game] # "idle"
      BY <1>0, <1>3 DEF InDatabase, InDatabaseCall, CheckAgain, CheckMore, Limit
    <2> QED
      BY <2>1 DEF redexVars, R!Busy
  <1>4. CASE Stopped
    <2>1. /\ UNCHANGED << configured, work, jobs, stopped, wpc, pc, queries >>
          /\ stopped /\ gpc = "spin" /\ gpc' = "join"
      BY <1>4 DEF Stopped, vars, R!Stopped, R!threadVars
    <2> QED
      BY <2>1 DEF R!Busy
  <1>5. CASE TerminateModules
    <2>1. /\ UNCHANGED << configured, work, jobs, stopped, wpc, queries >>
          /\ gpc' \in {"idle", "gone"}
      BY <1>5 DEF TerminateModules, R!Join, R!Unloaded, R!threadVars
    <2> QED
      BY <2>1 DEF R!Busy
  <1>6. CASE UNCHANGED serviceVars
    BY <1>6 DEF serviceVars, redexVars, vars, R!Busy
  <1> QED
    BY <1>1, <1>2, <1>3, <1>4, <1>5, <1>6, WaitWorker DEF ServiceNext, GameStep

\* All of it holds in every state of the service.
LEMMA ServiceInductive == ServiceSpec => [](IInv /\ ServiceInv /\ WaitInv)
  <1>1. ServiceInit => ServiceInv /\ WaitInv
    BY DEF ServiceInit, Init, R!Init, Thread, ServiceInv, WaitInv, Waiting
  <1> QED
    BY <1>1, ServiceUsesPool, Inductive, ServiceStep, WaitStep, PTL DEF ServiceSpec

\* With an empty pool and nobody at a query, all connections are lost.
LEMMA NoneLive ==
    ASSUME IInv, pool = << >>, \A t \in Thread : pc[t] \notin {"query", "push"}
    PROVE  Live = {}
  <1>1. InPool = {} /\ InHand = {}
    BY DEF IInv, PlaceInv, InPool, InHand, Holders
  <1> QED
    BY <1>1 DEF IInv, Accounted, Live

\* The waits of termall, of the unloading and of initdb (redex.cpp:122-128,
\* 146-157, mysql.cpp:488) never lock the game and the workers against each
\* other, for any number of either: only lost connections can.
THEOREM NobodyWaitsInACircle == ServiceSpec => []NobodyStuck
  <1>1. IInv /\ ServiceInv /\ WaitInv => NobodyStuck
    <2> SUFFICES ASSUME IInv, ServiceInv, WaitInv, configured, ~GameCanGoOn,
                        \A w \in Worker : ~WorkerCanGoOn(w)
                 PROVE  Starved
      BY DEF NobodyStuck
    <2>0. /\ Game \in Thread /\ Worker \subseteq Thread
          /\ \A w \in Worker : pc[w] \in {"idle", "want", "query"}
      BY DEF IInv, PlaceInv, Thread
    <2>1. \A w \in Worker :
             /\ wpc[w] \in {"idle", "call", "exited"}
             /\ wpc[w] = "idle" => ~stopped /\ jobs = << >>
             /\ wpc[w] = "call" => pc[w] = "want" /\ pool = << >>
             /\ wpc[w] = "exited" => stopped
      BY DEF ServiceInv, WaitInv, WorkerCanGoOn
    <2>2. \A w \in Worker : pc[w] # "query"
      BY <2>0, <2>1 DEF ServiceInv
    <2>3. CASE Waiting
      <3>1. pc[Game] = "idle" /\ ~work
        BY <2>3 DEF WaitInv
      <3>2. CASE \E w \in Worker : wpc[w] = "call"
        <4>1. PICK w \in Worker : wpc[w] = "call"
          BY <3>2
        <4>2. pool = << >> /\ pc[w] = "want" /\ w \in Thread
          BY <2>0, <2>1, <4>1
        <4>3. \A t \in Thread : pc[t] \notin {"query", "push"}
          BY <2>0, <2>2, <3>1 DEF Thread
        <4> QED
          BY <4>2, <4>3, NoneLive DEF Starved
      <3>3. CASE \A w \in Worker : wpc[w] # "call"
        <4>1. \A w \in Worker : ~R!Busy(w)
          BY <2>1, <3>3 DEF R!Busy
        <4>2. stopped
          <5>1. PICK w \in Worker : TRUE
            OBVIOUS
          <5>2. CASE wpc[w] = "idle"
            BY <2>1, <3>1, <4>1, <5>2 DEF WaitInv
          <5>3. CASE wpc[w] = "exited"
            BY <2>1, <5>3
          <5> QED
            BY <2>1, <3>3, <5>2, <5>3
        <4>3. R!AllJoined
          BY <2>1, <3>3, <4>2 DEF R!AllJoined
        <4> QED
          BY <3>1, <4>2, <4>3 DEF GameCanGoOn
      <3> QED
        BY <3>2, <3>3
    <2>4. CASE ~Waiting
      <3>1. pc[Game] = "want" /\ pool = << >>
        BY <2>4 DEF GameCanGoOn, Waiting
      <3>2. \A t \in Thread : pc[t] \notin {"query", "push"}
        BY <2>0, <2>2, <3>1 DEF Thread
      <3> QED
        BY <2>0, <3>1, <3>2, NoneLive DEF Starved
    <2> QED
      BY <2>3, <2>4
  <1> QED
    BY <1>1, ServiceInductive, PTL

\* A worker's step takes a job, or brings the worker's own job nearer its end.
LEMMA WorkerUsesUp ==
    ASSUME IInv, ServiceInv, WaitInv, NEW w \in Worker, WorkerStep(w)
    PROVE  \/ jobs # << >> /\ jobs' = Tail(jobs)
           \/ /\ jobs' = jobs /\ StepsLeft(w)' < StepsLeft(w)
              /\ \A v \in Worker \ {w} : StepsLeft(v)' = StepsLeft(v)
  <1>0. /\ wpc \in [Worker -> {"absent", "idle", "call", "store", "callback",
                               "finish", "exited"}]
        /\ pc[w] \in {"idle", "want", "query"} /\ queries \in [Thread -> Nat]
        /\ DOMAIN pc = Thread /\ Worker \subseteq Thread /\ w \in Thread
        /\ w # Game
    BY DEF IInv, TypeOK, PlaceInv, ServiceInv, WaitInv, Thread
  <1>1. CASE Dispatch(w)
    BY <1>1 DEF Dispatch, R!Dispatch
  <1>2. CASE JobQuery(w)
    <2>1. UNCHANGED << jobs, wpc >>
      BY <1>2 DEF JobQuery, redexVars
    <2>2. \A v \in Thread \ {w} : pc'[v] = pc[v] /\ queries'[v] = queries[v]
      BY <1>0, <1>2 DEF JobQuery, MakeQuery, Limit, Want, Get, Return, Fail, Goes
    <2>3. \/ /\ pc[w] = "idle" /\ pc'[w] = "want"
             /\ queries[w] > 0 /\ queries'[w] = queries[w] - 1
          \/ pc[w] = "want" /\ pc'[w] = "query" /\ queries'[w] = queries[w]
          \/ pc[w] = "query" /\ pc'[w] = "idle" /\ queries'[w] \in {0, queries[w]}
      BY <1>0, <1>2 DEF JobQuery, MakeQuery, Limit, Want, Get, Return, Fail, Goes
    <2>4. queries[w] \in Nat /\ JobLeft[wpc[w]] \in Nat
      BY <1>0 DEF JobLeft
    <2>5. 3 * queries'[w] + QueryLeft[pc'[w]] < 3 * queries[w] + QueryLeft[pc[w]]
      BY <2>3, <2>4 DEF QueryLeft
    <2>6. 3 * queries'[w] + QueryLeft[pc'[w]] \in Nat /\ 3 * queries[w] + QueryLeft[pc[w]] \in Nat
      BY <2>3, <2>4 DEF QueryLeft
    <2>7. StepsLeft(w)' < StepsLeft(w)
      BY <2>1, <2>3, <2>4, <2>5, <2>6 DEF StepsLeft, QueryLeft
    <2>8. \A v \in Worker \ {w} : StepsLeft(v)' = StepsLeft(v)
      BY <1>0, <2>1, <2>2 DEF StepsLeft
    <2> QED
      BY <2>1, <2>7, <2>8
  <1>3. CASE Call(w) \/ AfterCall(w)
    <2>1. UNCHANGED << jobs, pc, queries >> /\ \A v \in Worker \ {w} : wpc'[v] = wpc[v]
      BY <1>0, <1>3 DEF Call, AfterCall, R!Call, R!Store, R!Callback, R!Finish,
         R!Exit, R!gameVars, vars
    <2>2. \/ wpc[w] = "call" /\ wpc'[w] \in {"store", "callback", "finish"}
          \/ wpc[w] \in {"store", "callback"} /\ wpc'[w] = "finish"
          \/ wpc[w] = "finish" /\ wpc'[w] = "idle"
          \/ wpc[w] = "idle" /\ wpc'[w] = "exited"
      BY <1>0, <1>3 DEF Call, AfterCall, R!Call, R!Store, R!Callback, R!Finish, R!Exit
    <2>3. /\ JobLeft[wpc[w]] \in Nat /\ JobLeft[wpc'[w]] \in Nat
          /\ JobLeft[wpc'[w]] < JobLeft[wpc[w]]
      BY <2>2 DEF JobLeft
    <2>4. queries[w] \in Nat /\ QueryLeft[pc[w]] \in Nat
      BY <1>0 DEF QueryLeft
    <2>5. StepsLeft(w)' < StepsLeft(w)
      BY <2>1, <2>3, <2>4 DEF StepsLeft, JobLeft, QueryLeft
    <2>6. \A v \in Worker \ {w} : StepsLeft(v)' = StepsLeft(v)
      BY <2>1 DEF StepsLeft
    <2> QED
      BY <2>1, <2>5, <2>6
  <1> QED
    BY <1>1, <1>2, <1>3 DEF WorkerStep

\* termall and the unloading wait for a bounded number of steps only: the game
\* is the only one to post a job, and it waits (redex.cpp:122-128, 146-157).
THEOREM WaitsAreFinite == ServiceSpec => WaitUsesUp
  <1> DEFINE Uses ==
        \/ jobs # << >> /\ jobs' = Tail(jobs)
        \/ /\ jobs' = jobs
           /\ \E w \in Worker : /\ StepsLeft(w)' < StepsLeft(w)
                               /\ \A v \in Worker \ {w} : StepsLeft(v)' = StepsLeft(v)
        \/ gpc = "spin" /\ gpc' = "join" /\ UNCHANGED << jobs, wpc, queries, pc >>
  <1>1. ASSUME IInv, ServiceInv, WaitInv, [ServiceNext]_serviceVars, Waiting, Waiting'
        PROVE  Uses \/ UNCHANGED serviceVars
    <2>0. pc[Game] = "idle" /\ gpc # "idle" /\ gpc' \notin {"idle", "gone"}
      BY <1>1 DEF WaitInv, Waiting
    <2>1. CASE NewCall \/ NewDatabaseCall
      BY <2>0, <2>1 DEF NewCall, NewDatabaseCall, R!Register, R!Terminate,
         R!Destroy, R!Post
    <2>2. CASE InDatabase \/ CheckAgain
      BY <2>0, <2>2 DEF InDatabase, InDatabaseCall, CheckAgain, CheckMore
    <2>3. CASE Stopped
      BY <2>3 DEF Stopped, R!Stopped, R!threadVars, vars
    <2>4. CASE TerminateModules
      BY <2>0, <2>4 DEF TerminateModules, R!Join, R!Unloaded
    <2>5. ASSUME NEW w \in Worker, WorkerStep(w) PROVE Uses
      BY <1>1, <2>5, WorkerUsesUp
    <2> QED
      BY <1>1, <2>1, <2>2, <2>3, <2>4, <2>5 DEF ServiceNext, GameStep
  <1> QED
    BY <1>1, ServiceInductive, PTL DEF ServiceSpec, WaitUsesUp

\* A call that is posted waits for workers who go on, each of them: as long as
\* nobody has stopped the service and there is a connection for every thread
\* (redex.cpp:228-286, mysql.cpp:488).  With WorkerUsesUp this is what Answered
\* has of safety.
THEOREM PostedWaitsForTheBusy ==
    ServiceSpec => [](configured /\ ~stopped /\ jobs # << >>
                        /\ Cardinality(Live) >= Cardinality(Thread) =>
                            \A w \in Worker : WorkerCanGoOn(w))
  <1>1. ASSUME ServiceInv, WaitInv, configured, ~stopped, jobs # << >>,
               \A t \in Thread : pc[t] = "want" => pool # << >>
        PROVE  \A w \in Worker : WorkerCanGoOn(w)
    BY <1>1 DEF ServiceInv, WaitInv, WorkerCanGoOn, Thread
  <1> QED
    BY <1>1, ServiceInductive, ServiceUsesPool, EnoughForAll, PTL
==============================================================================
