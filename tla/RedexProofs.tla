----------------------------- MODULE RedexProofs -----------------------------
(***************************************************************************)
(* The inductive invariant of Redex and what follows from it: the          *)
(* iterator of a receiving call stays valid, a ticket is in one stage at a *)
(* time, and Redex implements Mailbox; then what becomes of the jobs, and  *)
(* that every character of a result is in one place.  Last, that the       *)
(* dispatcher at work with the database module (Service) is this one.      *)
(***************************************************************************)
EXTENDS Redex, FiniteSetTheorems, TLAPS

Posted == {"async", "callback", "quiet"}

\* Queued and running jobs are posted calls; a message object belongs to an
\* identifier that was given out.
JobInv ==
    /\ \A k \in 1..Len(jobs) : class[jobs[k]] \in Posted
    /\ \A w \in Worker : Busy(w) => class[wjob[w]] \in Posted
    /\ \A i \in DOMAIN msgmap : class[i] # "unused"

\* What a call in progress knows about its locals.
CallInv ==
    /\ gpc \in {"use", "erase", "return"} => cap \in Caps
    /\ gpc \in {"use", "erase"} => op \in {"rcvmsg", "rcvasmsg"}
    /\ gpc = "return" => reply.kind \in {"piece", "text"}

IInv == TypeOK /\ JobInv /\ CallInv /\ OneStage /\ IteratorValid

USE IdAssumption, SizeAssumption, CapAssumption

------------------------------------------------------------------------------
(* The cut of an answer into pieces (redex.cpp:349-352).                    *)

\* Cutting n characters at every c of them gives as many pieces as cover
\* them, and no piece more.
LEMMA ChunkCountBounds ==
    ASSUME NEW n \in Nat \ {0}, NEW c \in Nat \ {0}
    PROVE  /\ ChunkCount(n, c) \in Nat \ {0}
           /\ n <= ChunkCount(n, c) * c
           /\ (ChunkCount(n, c) - 1) * c < n
  <1> DEFINE d == (n + c - 1) \div c
             r == (n + c - 1) % c
  <1>1. /\ d \in Int /\ r \in 0..(c - 1)
        /\ n + c - 1 = c * d + r
    OBVIOUS
  <1>2. c * d = d * c /\ (d - 1) * c = d * c - c
    BY <1>1
  <1>3. n <= d * c /\ (d - 1) * c < n
    BY <1>1, <1>2
  <1>4. d > 0
    BY <1>1, <1>3
  <1> QED
    BY <1>1, <1>3, <1>4 DEF ChunkCount

\* The pieces of what follows the head of p are pieces, and tile it.
LEMMA ChunksTile ==
    ASSUME NEW p \in Piece, NEW c \in Nat \ {0}, NEW m \in 0..c,
           Length(p) > c
    PROVE  /\ Chunks(p, m, c) \in Seq(Piece)
           /\ Box!Tiles(p, [p EXCEPT !.hi = p.lo + m - 1], Chunks(p, m, c))
  <1> DEFINE n == Length(p) - m
             N == ChunkCount(n, c)
             q == Chunks(p, m, c)
             head == [p EXCEPT !.hi = p.lo + m - 1]
  <1>0. p.lo \in Nat \ {0} /\ p.hi \in Nat /\ p.of \in Id \cup {NoId}
    BY DEF Piece
  <1>1. n \in Nat \ {0}
    BY <1>0 DEF Length
  <1>2. N \in Nat \ {0} /\ n <= N * c /\ (N - 1) * c < n
    BY <1>1, ChunkCountBounds
  <1>3. n = p.hi + 1 - p.lo - m
    BY <1>0 DEF Length
  <1>4. /\ DOMAIN q = 1..N
        /\ \A k \in 1..N :
              q[k] = [of |-> p.of, lo |-> p.lo + m + (k - 1) * c,
                      hi |-> Least(p.lo + m + k * c - 1, p.hi)]
        /\ q = [k \in 1..N |-> q[k]]
    BY DEF Chunks
  <1>5. head.of = p.of /\ head.lo = p.lo /\ head.hi = p.lo + m - 1
    BY <1>0 DEF Piece
  <1> HIDE DEF n, N, q, head
  <1>6. ASSUME NEW k \in 1..N
        PROVE  /\ k * c \in Nat /\ (k - 1) * c \in Nat
               /\ k * c = (k - 1) * c + c
               /\ (k - 1) * c < n
    <2>1. k * c \in Nat /\ (k - 1) * c \in Nat /\ k * c = (k - 1) * c + c
      BY <1>2
    <2>2. (k - 1) * c <= (N - 1) * c
      BY <1>2
    <2> QED
      BY <2>1, <2>2, <1>1, <1>2
  <1>7. ASSUME NEW k \in 1..N
        PROVE  /\ q[k].of = p.of
               /\ q[k].lo = p.lo + m + (k - 1) * c
               /\ q[k].hi = Least(p.lo + m + k * c - 1, p.hi)
    BY <1>4
  <1>8. ASSUME NEW k \in 1..N PROVE q[k] \in Piece
    <2>1. k * c \in Nat /\ (k - 1) * c \in Nat /\ k * c >= c
      BY <1>6
    <2>2. /\ p.lo + m + (k - 1) * c \in Nat \ {0}
          /\ p.lo + m + k * c - 1 \in Nat
      BY <1>0, <2>1
    <2>3. Least(p.lo + m + k * c - 1, p.hi) \in Nat
      BY <1>0, <2>2 DEF Least
    <2> QED
      BY <1>0, <1>4, <2>2, <2>3 DEF Piece
  <1>9. q \in Seq(Piece) /\ Len(q) = N
    <2>1. q \in [1..N -> Piece]
      BY <1>4, <1>8
    <2>2. N \in Nat
      BY <1>2
    <2> QED
      BY <2>1, <2>2
  <1>10. ASSUME NEW k \in 1..N
         PROVE q[k].lo = IF k = 1 THEN head.hi + 1 ELSE q[k - 1].hi + 1
    <2>1. CASE k = 1
      <3>1. (k - 1) * c = 0
        BY <2>1
      <3> QED
        BY <2>1, <3>1, <1>0, <1>5, <1>7
    <2>2. CASE k # 1
      <3>1. k - 1 \in 1..N /\ k \in Nat
        BY <2>2, <1>2
      <3>2. q[k - 1].hi = Least(p.lo + m + (k - 1) * c - 1, p.hi)
        BY <3>1, <1>7
      <3>3. p.lo + m + (k - 1) * c - 1 <= p.hi
        BY <1>0, <1>1, <1>3, <1>6
      <3>4. q[k - 1].hi = p.lo + m + (k - 1) * c - 1
        BY <3>2, <3>3 DEF Least
      <3> QED
        BY <3>4, <1>0, <1>6, <1>7, <2>2
    <2> QED
      BY <2>1, <2>2
  <1>11. q # << >> /\ q[N].hi = p.hi
    <2>1. N * c \in Nat /\ p.hi <= p.lo + m + N * c - 1
      BY <1>0, <1>1, <1>2, <1>3
    <2>2. q[N].hi = Least(p.lo + m + N * c - 1, p.hi)
      BY <1>2, <1>7
    <2>3. q[N].hi = p.hi
      BY <1>0, <2>1, <2>2 DEF Least
    <2> QED
      BY <2>3, <1>9, <1>2
  <1>12. Box!Tiles(p, head, q)
    BY <1>5, <1>7, <1>9, <1>10, <1>11 DEF Box!Tiles
  <1> QED
    BY <1>9, <1>12 DEF q, head

------------------------------------------------------------------------------
(* The store and the messages in it.                                        *)

StoreType(b) == /\ DOMAIN b \subseteq Id
                /\ \A j \in DOMAIN b : b[j] \in Seq(Piece)

\* Storing and deleting message objects keeps the store well-typed.
LEMMA StoreTypes ==
    ASSUME NEW b, StoreType(b), NEW i \in Id, NEW q \in Seq(Piece)
    PROVE  StoreType(With(b, i, q)) /\ StoreType(Without(b, i))
  <1> DEFINE c == With(b, i, q)
             d == Without(b, i)
  <1>1. DOMAIN c = DOMAIN b \cup {i} /\ c[i] = q
    BY DEF With
  <1>2. \A j \in DOMAIN b \ {i} : c[j] = b[j]
    BY DEF With
  <1>3. DOMAIN d = DOMAIN b \ {i}
    BY DEF Without
  <1>4. \A j \in DOMAIN b \ {i} : d[j] = b[j]
    BY DEF Without
  <1> HIDE DEF c, d
  <1>5. StoreType(c) /\ StoreType(d)
    BY <1>1, <1>2, <1>3, <1>4 DEF StoreType
  <1> QED
    BY <1>5 DEF c, d

\* What rcvasmsg returns for an empty queue is a piece of no character.
LEMMA EmptyIsPiece == Empty \in Piece /\ Length(Empty) = 0
  BY DEF Empty, Piece, Length

\* Receiving a piece keeps the record of received characters well-typed.
LEMMA ReceiveType ==
    ASSUME got \in [Id -> SUBSET Nat], NEW p \in Piece
    PROVE  Receive(p) \in [Id -> SUBSET Nat]
  <1>1. Chars(p) \subseteq Nat
    BY DEF Chars, Piece
  <1> QED
    BY <1>1 DEF Receive

\* Giving characters up keeps the record of lost characters well-typed.
LEMMA LoseType ==
    ASSUME lost \in [Id -> SUBSET Nat], NEW i, NEW s \in SUBSET Nat
    PROVE  Lose(i, s) \in [Id -> SUBSET Nat]
  BY DEF Lose

\* A whole result is a piece (redex.cpp:281, 222).
LEMMA WholeIsPiece ==
    ASSUME NEW i \in Id \cup {NoId}, NEW n \in Nat
    PROVE  Whole(i, n) \in Piece
  BY DEF Whole, Piece

\* The head that multipartMSGGenerator returns is a piece.
LEMMA HeadIsPiece ==
    ASSUME NEW p \in Piece, NEW m \in Nat
    PROVE  [p EXCEPT !.hi = p.lo + m - 1] \in Piece
  BY DEF Piece

------------------------------------------------------------------------------
(* The initial state.                                                       *)

\* A freshly loaded library satisfies the invariant.
LEMMA InitIInv == Init => IInv
  <1> SUFFICES ASSUME Init PROVE IInv
    OBVIOUS
  <1>1. TypeOK
    <2>1. reply \in [kind : ReplyKind, id : Id \cup {NoId}, piece : Piece]
      BY EmptyIsPiece DEF Init, Reply, ReplyKind
    <2>2. wpc \in [Worker -> {"absent", "idle", "call", "store", "callback",
                             "finish", "exited"}]
      BY DEF Init
    <2>3. /\ configured \in BOOLEAN /\ registered \in BOOLEAN
          /\ work \in BOOLEAN /\ stopped \in BOOLEAN
      BY DEF Init
    <2>4. /\ DOMAIN msgmap \subseteq Id
          /\ \A i \in DOMAIN msgmap : msgmap[i] \in Seq(Piece)
      BY DEF Init
    <2>5. /\ class \in [Id -> {"unused", "async", "callback", "quiet", "sync",
                               "multipart"}]
          /\ made \in [Id -> Nat]
          /\ got \in [Id -> SUBSET Nat] /\ lost \in [Id -> SUBSET Nat]
      BY DEF Init
    <2> QED
      BY <2>1, <2>2, <2>3, <2>4, <2>5, EmptyIsPiece DEF Init, TypeOK
  <1>2. JobInv /\ CallInv /\ OneStage /\ IteratorValid
    BY DEF Init, JobInv, CallInv, OneStage, QueuedOnce, RunOnce,
         QueuedNotStored, RunNotQueuedOrStored, IteratorValid, Busy
  <1> QED
    BY <1>1, <1>2 DEF IInv

------------------------------------------------------------------------------
(* Type correctness: one step per action.                                   *)

\* Every step of every thread keeps the types.
LEMMA TypeStep == IInv /\ [Next]_vars => TypeOK'
  <1> SUFFICES ASSUME IInv, [Next]_vars PROVE TypeOK'
    OBVIOUS
  <1> USE DEF TypeOK
  <1>0. TypeOK /\ CallInv /\ IteratorValid
    BY DEF IInv
  <1>1. ASSUME NEW w \in Worker, Dispatch(w) PROVE TypeOK'
    <2>1. Head(jobs) \in Id /\ Tail(jobs) \in Seq(Id)
      BY <1>0, <1>1 DEF Dispatch
    <2> QED
      BY <1>0, <1>1, <2>1 DEF Dispatch, gameVars, history
  <1>2. ASSUME NEW w \in Worker, NEW n \in Sizes, Call(w, n) PROVE TypeOK'
    <2>1. n \in Nat /\ 1..n \subseteq Nat
      OBVIOUS
    <2>2. lost' \in [Id -> SUBSET Nat]
      BY <1>0, <1>2, <2>1, LoseType DEF Call
    <2>3. wpc' \in [Worker -> {"absent", "idle", "call", "store", "callback",
                              "finish", "exited"}]
      BY <1>0, <1>2 DEF Call
    <2>4. made' \in [Id -> Nat]
      BY <1>0, <1>2, <2>1 DEF Call
    <2>5. UNCHANGED << configured, registered, jobs, work, stopped, wjob,
                       msgmap, gameVars, class, got >>
      BY <1>2 DEF Call
    <2> QED
      BY <1>0, <2>2, <2>3, <2>4, <2>5 DEF gameVars
  <1>3. ASSUME NEW w \in Worker, Store(w) PROVE TypeOK'
    <2> DEFINE i == wjob[w]
    <2>1. i \in Id
      BY <1>3 DEF IInv, OneStage, QueuedOnce, RunOnce,
         QueuedNotStored, RunNotQueuedOrStored, Store, Busy
    <2>2. Whole(i, made[i]) \in Piece
      BY <1>0, <2>1, WholeIsPiece
    <2>3. << Whole(i, made[i]) >> \in Seq(Piece)
      BY <2>2
    <2>4. /\ DOMAIN msgmap' \subseteq Id
          /\ \A j \in DOMAIN msgmap' : msgmap'[j] \in Seq(Piece)
      BY <1>0, <1>3, <2>1, <2>3, StoreTypes DEF Store, StoreType
    <2>5. /\ wpc' = [wpc EXCEPT ![w] = "finish"]
          /\ UNCHANGED << configured, registered, jobs, work, stopped, wjob,
                          gameVars, history >>
      BY <1>3 DEF Store
    <2> QED
      BY <1>0, <2>4, <2>5 DEF gameVars, history
  <1>4. ASSUME NEW w \in Worker, Callback(w) PROVE TypeOK'
    <2>1. wjob[w] \in Id
      BY <1>4 DEF IInv, OneStage, QueuedOnce, RunOnce,
         QueuedNotStored, RunNotQueuedOrStored, Callback, Busy
    <2>2. Whole(wjob[w], made[wjob[w]]) \in Piece
          /\ 1..made[wjob[w]] \subseteq Nat
      BY <1>0, <2>1, WholeIsPiece
    <2>3. got' \in [Id -> SUBSET Nat] /\ lost' \in [Id -> SUBSET Nat]
      <3>1. CASE registered
        BY <1>0, <1>4, <2>2, <3>1, ReceiveType DEF Callback
      <3>2. CASE ~registered
        <4>1. 1..made[wjob[w]] \in SUBSET Nat
          BY <2>2
        <4>2. Lose(wjob[w], 1..made[wjob[w]]) \in [Id -> SUBSET Nat]
          BY <1>0, <4>1, LoseType
        <4> QED
          BY <1>0, <1>4, <3>2, <4>2 DEF Callback
      <3> QED
        BY <3>1, <3>2
    <2> QED
      BY <1>0, <1>4, <2>3 DEF Callback, gameVars
  <1>5. ASSUME NEW w \in Worker, Finish(w) PROVE TypeOK'
    BY <1>0, <1>5 DEF Finish, Drained, gameVars, history
  <1>6. ASSUME NEW w \in Worker, Exit(w) PROVE TypeOK'
    BY <1>0, <1>6 DEF Exit, gameVars, history
  <1>7. CASE Register
    BY <1>0, <1>7 DEF Register, threadVars, gameVars, history
  <1>8. CASE Throw
    BY <1>0, <1>8, EmptyIsPiece
       DEF Throw, Reply, ReplyKind, threadVars, history
  <1>9. ASSUME NEW k \in {"async", "callback", "quiet"}, NEW i \in Id,
               Post(k, i)
        PROVE  TypeOK'
    <2>1. jobs' \in Seq(Id)
      BY <1>0, <1>9 DEF Post
    <2>2. reply' \in [kind : ReplyKind, id : Id \cup {NoId}, piece : Piece]
      BY <1>9, EmptyIsPiece DEF Post, Reply, ReplyKind
    <2> QED
      BY <1>0, <1>9, <2>1, <2>2 DEF Post
  <1>10. ASSUME NEW i \in Id, Chkmsg(i) PROVE TypeOK'
    <2>1. reply' \in [kind : ReplyKind, id : Id \cup {NoId}, piece : Piece]
      BY <1>10, EmptyIsPiece DEF Chkmsg, Reply, ReplyKind
    <2> QED
      BY <1>0, <1>10, <2>1 DEF Chkmsg, threadVars, history
  <1>11. ASSUME NEW i \in Id, NEW n \in Sizes, NEW c \in Caps, Sync(i, n, c)
         PROVE  TypeOK'
    <2>1. n \in Nat
      OBVIOUS
    <2>2. reply' \in [kind : ReplyKind, id : Id \cup {NoId}, piece : Piece]
      BY <1>11, <2>1, WholeIsPiece DEF Sync, Reply, ReplyKind
    <2> QED
      BY <1>0, <1>11, <2>1, <2>2 DEF Sync, threadVars
  <1>12. ASSUME NEW o \in {"rcvmsg", "rcvasmsg"}, NEW i \in Id, NEW c \in Caps,
                Find(o, i, c)
         PROVE  TypeOK'
    <2>1. reply' \in [kind : ReplyKind, id : Id \cup {NoId}, piece : Piece]
      BY <1>0, <1>12, EmptyIsPiece DEF Find, Reply, ReplyKind
    <2> QED
      BY <1>0, <1>12, <2>1 DEF Find, threadVars, history
  <1>13. CASE Copy
    <2>1. msgmap[iter] \in Seq(Piece)
      BY <1>0, <1>13 DEF Copy, IteratorValid
    <2>2. hand' \in Piece
      BY <1>13, <2>1, EmptyIsPiece DEF Copy
    <2> QED
      BY <1>0, <1>13, <2>2 DEF Copy, threadVars, history
  <1>14. CASE Pop
    <2>1. iter \in DOMAIN msgmap /\ msgmap[iter] \in Seq(Piece)
      BY <1>0, <1>14 DEF Pop, IteratorValid
    <2>2. Head(msgmap[iter]) \in Piece /\ Tail(msgmap[iter]) \in Seq(Piece)
      BY <1>14, <2>1 DEF Pop
    <2>3. reply' \in [kind : ReplyKind, id : Id \cup {NoId}, piece : Piece]
      BY <1>0, <1>14, <2>2 DEF Pop, Reply, ReplyKind
    <2>4. /\ DOMAIN msgmap' \subseteq Id
          /\ \A j \in DOMAIN msgmap' : msgmap'[j] \in Seq(Piece)
      BY <1>0, <1>14, <2>1, <2>2 DEF Pop
    <2> QED
      BY <1>0, <1>14, <2>3, <2>4 DEF Pop, threadVars, history
  <1>15. CASE Exhausted
    BY <1>0, <1>15 DEF Exhausted, threadVars, history
  <1>16. CASE Erase
    <2>1. reply' \in [kind : ReplyKind, id : Id \cup {NoId}, piece : Piece]
      BY <1>0, <1>16, EmptyIsPiece DEF Erase, Reply, ReplyKind
    <2>2. iter \in DOMAIN msgmap /\ msgmap[iter] \in Seq(Piece)
      BY <1>0, <1>16 DEF Erase, IteratorValid
    <2>3. ASSUME NEW j \in Id PROVE LeftIn(msgmap[iter], j) \subseteq Nat
      <3>1. \A k \in 1..Len(msgmap[iter]) : Chars(msgmap[iter][k]) \subseteq Nat
        <4>1. ASSUME NEW p \in Piece PROVE Chars(p) \subseteq Nat
          BY DEF Chars, Piece
        <4>2. \A k \in 1..Len(msgmap[iter]) : msgmap[iter][k] \in Piece
          BY <2>2
        <4> QED
          BY <4>1, <4>2
      <3> QED
        BY <2>2, <3>1 DEF LeftIn
    <2>4. lost' \in [Id -> SUBSET Nat]
      BY <1>0, <1>16, <2>3 DEF Erase
    <2>5. /\ DOMAIN msgmap' \subseteq Id
          /\ \A j \in DOMAIN msgmap' : msgmap'[j] \in Seq(Piece)
      BY <1>0, <1>16, <2>2, StoreTypes DEF Erase, StoreType
    <2> QED
      BY <1>0, <1>16, <2>1, <2>4, <2>5, EmptyIsPiece DEF Erase, threadVars
  <1>17. CASE Return
    <2>1. got' \in [Id -> SUBSET Nat]
      BY <1>0, <1>17, ReceiveType DEF Return
    <2> QED
      BY <1>0, <1>17, <2>1 DEF Return, threadVars
  <1>18. ASSUME NEW i \in Id, NEW m \in 0..(cap - Overhead), Split(i, m)
         PROVE  TypeOK'
    <2> DEFINE p == reply.piece
               head == [p EXCEPT !.hi = p.lo + m - 1]
    <2>1. p \in Piece /\ cap \in Nat \ {0} /\ m \in 0..cap /\ Length(p) > cap
      BY <1>0, <1>18 DEF Split, CallInv
    <2>2. Chunks(p, m, cap) \in Seq(Piece)
      BY <2>1, ChunksTile
    <2>3. head \in Piece
      BY <2>1, HeadIsPiece
    <2> HIDE DEF p
    <2>4. msgmap' = With(msgmap, i, Chunks(p, m, cap))
          /\ reply' = Reply("multipart", i, head) /\ got' = Receive(head)
      BY <1>18 DEF Split, p
    <2> HIDE DEF head
    <2>5. got' \in [Id -> SUBSET Nat]
      BY <1>0, <2>3, <2>4, ReceiveType
    <2>6. reply' \in [kind : ReplyKind, id : Id \cup {NoId}, piece : Piece]
      BY <2>3, <2>4 DEF Reply, ReplyKind
    <2>7. /\ DOMAIN msgmap' \subseteq Id
          /\ \A j \in DOMAIN msgmap' : msgmap'[j] \in Seq(Piece)
      BY <1>0, <2>2, <2>4, StoreTypes DEF StoreType
    <2> QED
      BY <1>0, <1>18, <2>5, <2>6, <2>7 DEF Split, threadVars
  <1>19. CASE Terminate
    BY <1>0, <1>19 DEF Terminate, Drained, history
  <1>20. CASE Stopped
    BY <1>0, <1>20 DEF Stopped, threadVars, history
  <1>21. CASE Join
    BY <1>0, <1>21, EmptyIsPiece DEF Join, Reply, ReplyKind, threadVars, history
  <1>22. CASE Destroy
    BY <1>0, <1>22 DEF Destroy, history
  <1>23. CASE Unloaded
    BY <1>0, <1>23 DEF Unloaded, threadVars, history
  <1>24. CASE UNCHANGED vars
    BY <1>0, <1>24 DEF vars, threadVars, gameVars, history
  <1> QED
    BY <1>1, <1>2, <1>3, <1>4, <1>5, <1>6, <1>7, <1>8, <1>9, <1>10, <1>11,
       <1>12, <1>13, <1>14, <1>15, <1>16, <1>17, <1>18, <1>19, <1>20, <1>21,
       <1>22, <1>23, <1>24 DEF Next, NewCall, InCall, WorkerStep

------------------------------------------------------------------------------
(* The invariants of the store and of the call in progress.                 *)

\* A step of a worker leaves the locals of the game thread alone, and every
\* object the store already holds.
LEMMA WorkerLeavesGame ==
    ASSUME IInv, NEW w \in Worker, WorkerStep(w)
    PROVE  /\ UNCHANGED gameVars
           /\ DOMAIN msgmap \subseteq DOMAIN msgmap'
           /\ \A i \in DOMAIN msgmap : msgmap'[i] = msgmap[i]
  <1>1. UNCHANGED gameVars
    BY DEF WorkerStep, Dispatch, Call, Store, Callback, Finish, Exit
  <1>2. CASE Store(w)
    <2>1. CASE wjob[w] \in DOMAIN msgmap
      BY <1>1, <1>2, <2>1 DEF Store
    <2>2. CASE wjob[w] \notin DOMAIN msgmap
      <3>1. msgmap' = With(msgmap, wjob[w], << Whole(wjob[w], made[wjob[w]]) >>)
        BY <1>2, <2>2 DEF Store
      <3> QED
        BY <1>1, <2>2, <3>1 DEF With
    <2> QED
      BY <2>1, <2>2
  <1>3. CASE ~Store(w)
    <2>1. msgmap' = msgmap
      BY <1>3 DEF WorkerStep, Dispatch, Call, Callback, Finish, Exit
    <2> QED
      BY <1>1, <2>1
  <1> QED
    BY <1>2, <1>3

\* A receiving call keeps what it knows about its locals, whatever the
\* workers do meanwhile.
LEMMA CallStep == IInv /\ [Next]_vars => CallInv'
  <1> SUFFICES ASSUME IInv, [Next]_vars PROVE CallInv'
    OBVIOUS
  <1> USE DEF CallInv
  <1>0. CallInv
    BY DEF IInv
  <1>1. ASSUME NEW w \in Worker, WorkerStep(w) PROVE CallInv'
    BY <1>0, <1>1, WorkerLeavesGame DEF gameVars
  <1>2. CASE Register \/ Throw \/ Terminate \/ Destroy
    BY <1>0, <1>2 DEF Register, Throw, Terminate, Destroy, gameVars
  <1>3. ASSUME NEW i \in Id, NEW k \in {"async", "callback", "quiet"}, Post(k, i)
        PROVE  CallInv'
    BY <1>0, <1>3 DEF Post
  <1>4. ASSUME NEW i \in Id, Chkmsg(i) PROVE CallInv'
    BY <1>0, <1>4 DEF Chkmsg
  <1>5. ASSUME NEW i \in Id, NEW n \in Sizes, NEW c \in Caps, Sync(i, n, c)
        PROVE  CallInv'
    BY <1>0, <1>5 DEF Sync, Reply
  <1>6. ASSUME NEW o \in {"rcvmsg", "rcvasmsg"}, NEW i \in Id, NEW c \in Caps,
               Find(o, i, c)
        PROVE  CallInv'
    BY <1>0, <1>6 DEF Find, Reply
  <1>7. CASE Copy \/ Exhausted
    BY <1>0, <1>7 DEF Copy, Exhausted
  <1>8. CASE Pop
    BY <1>0, <1>8 DEF Pop, Reply
  <1>9. CASE Erase
    BY <1>0, <1>9 DEF Erase, Reply
  <1>10. CASE Return \/ Stopped \/ Join \/ Unloaded
    BY <1>0, <1>10 DEF Return, Stopped, Join, Unloaded
  <1>11. ASSUME NEW i \in Id, NEW m \in 0..(cap - Overhead), Split(i, m)
         PROVE  CallInv'
    BY <1>11 DEF Split
  <1>12. CASE UNCHANGED vars
    BY <1>0, <1>12 DEF vars, gameVars
  <1> QED
    BY <1>1, <1>2, <1>3, <1>4, <1>5, <1>6, <1>7, <1>8, <1>9, <1>10, <1>11,
       <1>12 DEF Next, NewCall, InCall

\* No step invalidates the iterator of a receiving call: the workers only
\* insert, and the game thread erases only the object it found itself.
LEMMA IteratorStep == IInv /\ [Next]_vars => IteratorValid'
  <1> SUFFICES ASSUME IInv, [Next]_vars PROVE IteratorValid'
    OBVIOUS
  <1> USE DEF IteratorValid
  <1>0. IteratorValid /\ CallInv
    BY DEF IInv
  <1>1. ASSUME NEW w \in Worker, WorkerStep(w) PROVE IteratorValid'
    BY <1>0, <1>1, WorkerLeavesGame DEF gameVars
  <1>2. CASE Register \/ Throw \/ Terminate \/ Destroy
    BY <1>0, <1>2 DEF Register, Throw, Terminate, Destroy, gameVars
  <1>3. ASSUME NEW i \in Id, NEW k \in {"async", "callback", "quiet"}, Post(k, i)
        PROVE  IteratorValid'
    BY <1>0, <1>3 DEF Post
  <1>4. ASSUME NEW i \in Id, Chkmsg(i) PROVE IteratorValid'
    BY <1>0, <1>4 DEF Chkmsg
  <1>5. ASSUME NEW i \in Id, NEW n \in Sizes, NEW c \in Caps, Sync(i, n, c)
        PROVE  IteratorValid'
    BY <1>0, <1>5 DEF Sync
  <1>6. ASSUME NEW o \in {"rcvmsg", "rcvasmsg"}, NEW i \in Id, NEW c \in Caps,
               Find(o, i, c)
        PROVE  IteratorValid'
    BY <1>0, <1>6 DEF Find
  <1>7. CASE Copy
    BY <1>0, <1>7 DEF Copy
  <1>8. CASE Exhausted
    BY <1>0, <1>8 DEF Exhausted
  <1>9. CASE Pop \/ Erase \/ Return \/ Stopped \/ Join \/ Unloaded
    BY <1>0, <1>9 DEF Pop, Erase, Return, Stopped, Join, Unloaded
  <1>10. ASSUME NEW i \in Id, NEW m \in 0..(cap - Overhead), Split(i, m)
         PROVE  IteratorValid'
    BY <1>10 DEF Split
  <1>11. CASE UNCHANGED vars
    BY <1>0, <1>11 DEF vars, gameVars
  <1> QED
    BY <1>1, <1>2, <1>3, <1>4, <1>5, <1>6, <1>7, <1>8, <1>9, <1>10, <1>11
       DEF Next, NewCall, InCall

------------------------------------------------------------------------------
(* A ticket is in one stage at a time.                                      *)

StageInv == JobInv /\ OneStage

\* Whoever keeps jobs, workers and classes, and adds no message object,
\* keeps the stages.
LEMMA StageFrame ==
    ASSUME TypeOK, StageInv, UNCHANGED << jobs, wpc, wjob, class >>,
           DOMAIN msgmap' \subseteq DOMAIN msgmap
    PROVE  StageInv'
  BY DEF StageInv, JobInv, OneStage, QueuedOnce, RunOnce,
         QueuedNotStored, RunNotQueuedOrStored, Busy

\* A worker that takes the first job moves its ticket from the queue to
\* itself.
LEMMA DispatchStage ==
    ASSUME TypeOK, StageInv, NEW w \in Worker, Dispatch(w) PROVE StageInv'
  <1> USE DEF TypeOK
  <1>1. /\ jobs # << >> /\ jobs \in Seq(Id) /\ Len(jobs) \in Nat \ {0}
        /\ jobs' = Tail(jobs) /\ ~Busy(w)
        /\ wjob' = [wjob EXCEPT ![w] = jobs[1]]
        /\ wpc' = [wpc EXCEPT ![w] = "call"]
        /\ UNCHANGED << class, msgmap >>
    BY DEF Dispatch, Busy, history
  <1>2. /\ Len(jobs') = Len(jobs) - 1
        /\ \A k \in 1..Len(jobs') : k + 1 \in 1..Len(jobs) /\ jobs'[k] = jobs[k + 1]
    BY <1>1
  <1>3. /\ 1 \in 1..Len(jobs) /\ jobs[1] \in Id
        /\ \A k \in 1..Len(jobs') : jobs'[k] # jobs[1]
        /\ jobs[1] \notin DOMAIN msgmap
        /\ \A v \in Worker : Busy(v) => wjob[v] # jobs[1]
    BY <1>1, <1>2 DEF StageInv, OneStage, QueuedOnce, RunOnce,
         QueuedNotStored, RunNotQueuedOrStored
  <1>4. /\ Busy(w)' /\ wjob'[w] = jobs[1]
        /\ \A v \in Worker \ {w} : (Busy(v)' <=> Busy(v)) /\ wjob'[v] = wjob[v]
                                   /\ wpc'[v] = wpc[v]
    BY <1>1 DEF Busy
  <1>5. JobInv'
    <2>1. \A k \in 1..Len(jobs') : class'[jobs'[k]] \in Posted
      BY <1>1, <1>2 DEF StageInv, JobInv
    <2>2. \A v \in Worker : Busy(v)' => class'[wjob'[v]] \in Posted
      BY <1>1, <1>3, <1>4 DEF StageInv, JobInv
    <2>3. \A i \in DOMAIN msgmap' : class'[i] # "unused"
      BY <1>1 DEF StageInv, JobInv
    <2> QED
      BY <2>1, <2>2, <2>3 DEF JobInv
  <1>6. OneStage'
    <2>1. QueuedOnce'
      <3> SUFFICES ASSUME NEW k \in 1..Len(jobs'), NEW l \in 1..Len(jobs'),
                          jobs'[k] = jobs'[l]
                   PROVE  k = l
        BY DEF QueuedOnce
      <3>1. k + 1 = l + 1
        BY <1>2 DEF StageInv, OneStage, QueuedOnce, RunOnce,
         QueuedNotStored, RunNotQueuedOrStored
      <3> QED
        BY <3>1
    <2>2. RunOnce'
      BY <1>3, <1>4 DEF StageInv, OneStage, QueuedOnce, RunOnce,
         QueuedNotStored, RunNotQueuedOrStored
    <2>3. RunNotQueuedOrStored'
      <3> SUFFICES ASSUME NEW v \in Worker, Busy(v)'
                   PROVE  /\ wjob'[v] \in Id
                          /\ \A k \in 1..Len(jobs') : jobs'[k] # wjob'[v]
                          /\ wpc'[v] # "finish" => wjob'[v] \notin DOMAIN msgmap'
        BY DEF RunNotQueuedOrStored
      <3>1. CASE v = w
        BY <3>1, <1>1, <1>3, <1>4
      <3>2. CASE v # w
        BY <3>2, <1>1, <1>2, <1>4 DEF StageInv, OneStage, QueuedOnce, RunOnce,
         QueuedNotStored, RunNotQueuedOrStored
      <3> QED
        BY <3>1, <3>2
    <2>4. QueuedNotStored'
      BY <1>1, <1>2 DEF StageInv, OneStage, QueuedOnce, RunOnce,
         QueuedNotStored, RunNotQueuedOrStored
    <2> QED
      BY <2>1, <2>2, <2>3, <2>4 DEF OneStage
  <1> QED
    BY <1>5, <1>6 DEF StageInv

\* No worker takes a job it did not have, or goes back to an earlier stage.
LEMMA BusyFrame ==
    ASSUME TypeOK, StageInv, UNCHANGED << jobs, class, msgmap >>,
           \A v \in Worker :
              Busy(v)' => /\ Busy(v) /\ wjob'[v] = wjob[v]
                          /\ wpc'[v] # "finish" => wpc[v] # "finish"
    PROVE  StageInv'
  <1>1. JobInv'
    BY DEF StageInv, JobInv
  <1>2. RunOnce'
    BY DEF StageInv, OneStage, QueuedOnce, RunOnce,
         QueuedNotStored, RunNotQueuedOrStored
  <1>3. RunNotQueuedOrStored'
    BY DEF StageInv, OneStage, QueuedOnce, RunOnce,
         QueuedNotStored, RunNotQueuedOrStored
  <1>5. QueuedOnce' /\ QueuedNotStored'
    BY DEF StageInv, OneStage, QueuedOnce, QueuedNotStored
  <1>4. OneStage'
    BY <1>2, <1>3, <1>5 DEF StageInv, OneStage
  <1> QED
    BY <1>1, <1>4 DEF StageInv

\* The other steps of a busy worker: it keeps its job, or lets go of it.
LEMMA WorkerStage ==
    ASSUME TypeOK, StageInv, NEW w \in Worker, WorkerStep(w), ~Dispatch(w)
    PROVE  StageInv'
  <1> USE DEF TypeOK
  <1>1. ASSUME NEW n \in Sizes, Call(w, n) PROVE StageInv'
    <2>1. /\ wpc[w] = "call" /\ wpc'[w] \in {"store", "callback", "finish"}
          /\ \A v \in Worker \ {w} : wpc'[v] = wpc[v]
          /\ UNCHANGED << jobs, wjob, class, msgmap >>
      BY <1>1 DEF Call
    <2>2. \A v \in Worker : /\ Busy(v)' <=> Busy(v)
                            /\ wpc'[v] # "finish" => wpc[v] # "finish"
      BY <2>1 DEF Busy
    <2> QED
      BY <2>1, <2>2, BusyFrame
  <1>2. CASE Store(w)
    <2>1. /\ wpc[w] = "store" /\ wpc'[w] = "finish" /\ Busy(w)
          /\ \A v \in Worker \ {w} : wpc'[v] = wpc[v]
          /\ UNCHANGED << jobs, wjob, class >>
      BY <1>2 DEF Store, history, Busy
    <2>2. wjob[w] \in Id /\ class[wjob[w]] \in Posted
      BY <2>1 DEF StageInv, JobInv, OneStage, QueuedOnce, RunOnce,
         QueuedNotStored, RunNotQueuedOrStored
    <2>3. DOMAIN msgmap' = DOMAIN msgmap \cup {wjob[w]}
      <3>1. wjob[w] \notin DOMAIN msgmap
        BY <2>1 DEF StageInv, OneStage, QueuedOnce, RunOnce,
         QueuedNotStored, RunNotQueuedOrStored
      <3> QED
        BY <1>2, <3>1 DEF Store, With
    <2>4. JobInv'
      <3>1. class[wjob[w]] # "unused"
        BY <2>2 DEF Posted
      <3> QED
        BY <2>1, <2>3, <3>1 DEF StageInv, JobInv, Busy
    <2>5. OneStage'
      BY <2>1, <2>2, <2>3 DEF StageInv, OneStage, QueuedOnce, RunOnce,
         QueuedNotStored, RunNotQueuedOrStored, Busy
    <2> QED
      BY <2>4, <2>5 DEF StageInv
  <1>3. CASE Callback(w)
    <2>1. /\ wpc[w] = "callback" /\ wpc'[w] = "finish"
          /\ \A v \in Worker \ {w} : wpc'[v] = wpc[v]
          /\ UNCHANGED << jobs, wjob, class, msgmap >>
      BY <1>3 DEF Callback
    <2>2. \A v \in Worker : /\ Busy(v)' <=> Busy(v)
                            /\ wpc'[v] # "finish" => wpc[v] # "finish"
      BY <2>1 DEF Busy
    <2> QED
      BY <2>1, <2>2, BusyFrame
  <1>4. CASE Finish(w) \/ Exit(w)
    <2>1. /\ wpc'[w] \in {"idle", "exited"}
          /\ \A v \in Worker \ {w} : wpc'[v] = wpc[v] /\ wjob'[v] = wjob[v]
          /\ UNCHANGED << jobs, class, msgmap >>
      BY <1>4 DEF Finish, Exit, history
    <2>2. \A v \in Worker : /\ Busy(v)' => Busy(v) /\ wjob'[v] = wjob[v]
                            /\ Busy(v)' => (wpc'[v] # "finish" => wpc[v] # "finish")
      BY <2>1 DEF Busy
    <2> QED
      BY <2>1, <2>2, BusyFrame
  <1> QED
    BY <1>1, <1>2, <1>3, <1>4 DEF WorkerStep

\* Giving out a fresh identifier for something that is no posted call.
LEMMA FreshStage ==
    ASSUME TypeOK, StageInv, NEW i \in Id, Fresh(i), NEW k \in {"sync", "multipart"},
           class' = [class EXCEPT ![i] = k],
           UNCHANGED << jobs, wpc, wjob >>,
           DOMAIN msgmap' \subseteq DOMAIN msgmap \cup {i}
    PROVE  StageInv'
  <1> USE DEF TypeOK
  <1>1. /\ class'[i] = k /\ class[i] = "unused"
        /\ \A j \in Id \ {i} : class'[j] = class[j]
    BY DEF Fresh
  <1>2. /\ \A n \in 1..Len(jobs) : jobs[n] \in Id /\ jobs[n] # i
        /\ \A w \in Worker : Busy(w) => wjob[w] # i /\ wjob[w] \in Id
    <2>1. \A n \in 1..Len(jobs) : jobs[n] \in Id /\ class[jobs[n]] \in Posted
      BY DEF StageInv, JobInv
    <2>2. \A w \in Worker : Busy(w) => class[wjob[w]] \in Posted /\ wjob[w] \in Id
      BY DEF StageInv, JobInv, OneStage, QueuedOnce, RunOnce,
         QueuedNotStored, RunNotQueuedOrStored
    <2> QED
      BY <1>1, <2>1, <2>2 DEF Posted
  <1>3. JobInv'
    BY <1>1, <1>2 DEF StageInv, JobInv, Busy
  <1>4. OneStage'
    BY <1>1, <1>2 DEF StageInv, OneStage, QueuedOnce, RunOnce,
         QueuedNotStored, RunNotQueuedOrStored, Busy
  <1> QED
    BY <1>3, <1>4 DEF StageInv

\* A posted call has a fresh ticket, which is in no stage yet.
LEMMA PostStage ==
    ASSUME TypeOK, StageInv, NEW i \in Id, NEW k \in Posted, Post(k, i)
    PROVE  StageInv'
  <1> USE DEF TypeOK
  <1>1. /\ class'[i] = k /\ class[i] = "unused"
        /\ \A j \in Id \ {i} : class'[j] = class[j]
        /\ UNCHANGED << wpc, wjob, msgmap >>
    BY DEF Post, Fresh
  <1>2. /\ Len(jobs) \in Nat /\ Len(jobs') = Len(jobs) + 1
        /\ jobs'[Len(jobs) + 1] = i
        /\ \A n \in 1..Len(jobs) : jobs'[n] = jobs[n]
    BY DEF Post
  <1>3. /\ \A n \in 1..Len(jobs) : jobs[n] \in Id /\ jobs[n] # i
        /\ \A w \in Worker : Busy(w) => wjob[w] # i /\ wjob[w] \in Id
        /\ i \notin DOMAIN msgmap
    <2>1. \A n \in 1..Len(jobs) : jobs[n] \in Id /\ class[jobs[n]] \in Posted
      BY DEF StageInv, JobInv
    <2>2. \A w \in Worker : Busy(w) => class[wjob[w]] \in Posted /\ wjob[w] \in Id
      BY DEF StageInv, JobInv, OneStage, QueuedOnce, RunOnce,
         QueuedNotStored, RunNotQueuedOrStored
    <2>3. \A j \in DOMAIN msgmap : class[j] # "unused"
      BY DEF StageInv, JobInv
    <2> QED
      BY <1>1, <2>1, <2>2, <2>3 DEF Posted
  <1>4. \A n \in 1..Len(jobs') : n \in 1..Len(jobs) \/ n = Len(jobs) + 1
    BY <1>2
  <1>5. JobInv'
    <2>1. \A n \in 1..Len(jobs') : class'[jobs'[n]] \in Posted
      BY <1>1, <1>2, <1>3, <1>4 DEF StageInv, JobInv
    <2>2. \A w \in Worker : Busy(w)' => class'[wjob'[w]] \in Posted
      BY <1>1, <1>3 DEF StageInv, JobInv, Busy
    <2>3. \A j \in DOMAIN msgmap' : class'[j] # "unused"
      BY <1>1, <1>3 DEF StageInv, JobInv
    <2> QED
      BY <2>1, <2>2, <2>3 DEF JobInv
  <1>6. OneStage'
    <2>1. QueuedOnce'
      <3> SUFFICES ASSUME NEW a \in 1..Len(jobs'), NEW b \in 1..Len(jobs'),
                          jobs'[a] = jobs'[b]
                   PROVE  a = b
        BY DEF QueuedOnce
      <3>1. CASE a \in 1..Len(jobs) /\ b \in 1..Len(jobs)
        BY <1>2, <3>1 DEF StageInv, OneStage, QueuedOnce
      <3>2. CASE ~(a \in 1..Len(jobs) /\ b \in 1..Len(jobs))
        BY <1>2, <1>3, <1>4, <3>2
      <3> QED
        BY <3>1, <3>2
    <2>2. RunOnce'
      BY <1>1 DEF StageInv, OneStage, QueuedOnce, RunOnce,
         QueuedNotStored, RunNotQueuedOrStored, Busy
    <2>3. RunNotQueuedOrStored'
      BY <1>1, <1>2, <1>3, <1>4 DEF StageInv, OneStage, QueuedOnce, RunOnce,
         QueuedNotStored, RunNotQueuedOrStored, Busy
    <2>4. QueuedNotStored'
      BY <1>1, <1>2, <1>3, <1>4 DEF StageInv, OneStage, QueuedOnce, RunOnce,
         QueuedNotStored, RunNotQueuedOrStored
    <2> QED
      BY <2>1, <2>2, <2>3, <2>4 DEF OneStage
  <1> QED
    BY <1>5, <1>6 DEF StageInv

\* No step puts a ticket into two stages.
LEMMA StageStep == IInv /\ [Next]_vars => StageInv'
  <1> SUFFICES ASSUME IInv, [Next]_vars PROVE StageInv'
    OBVIOUS
  <1>0. TypeOK /\ StageInv
    BY DEF IInv, StageInv
  <1>1. ASSUME NEW w \in Worker, WorkerStep(w) PROVE StageInv'
    BY <1>0, <1>1, DispatchStage, WorkerStage
  <1>2. ASSUME NEW i \in Id, NEW k \in Posted, Post(k, i) PROVE StageInv'
    BY <1>0, <1>2, PostStage
  <1>3. ASSUME NEW i \in Id, NEW n \in Sizes, NEW c \in Caps, Sync(i, n, c)
        PROVE  StageInv'
    BY <1>0, <1>3, FreshStage DEF Sync, threadVars
  <1>4. ASSUME NEW i \in Id, NEW m \in 0..(cap - Overhead), Split(i, m)
        PROVE  StageInv'
    <2>1. DOMAIN msgmap' = DOMAIN msgmap \cup {i}
      BY <1>4 DEF Split, With
    <2> QED
      BY <1>0, <1>4, <2>1, FreshStage DEF Split, threadVars
  <1>5. CASE Register \/ Throw \/ Terminate \/ Destroy
    BY <1>0, <1>5, StageFrame
       DEF Register, Throw, Terminate, Destroy, threadVars, history
  <1>6. ASSUME NEW i \in Id, Chkmsg(i) PROVE StageInv'
    BY <1>0, <1>6, StageFrame DEF Chkmsg, threadVars, history
  <1>7. ASSUME NEW o, NEW i \in Id, NEW c \in Caps, Find(o, i, c)
        PROVE  StageInv'
    BY <1>0, <1>7, StageFrame DEF Find, threadVars, history
  <1>8. CASE Copy \/ Exhausted \/ Return
    BY <1>0, <1>8, StageFrame DEF Copy, Exhausted, Return, threadVars, history
  <1>9. CASE Pop
    BY <1>0, <1>9, StageFrame DEF Pop, threadVars, history
  <1>10. CASE Erase
    BY <1>0, <1>10, StageFrame DEF Erase, Without, threadVars
  <1>11. CASE Stopped \/ Join \/ Unloaded
    BY <1>0, <1>11, StageFrame DEF Stopped, Join, Unloaded, threadVars, history
  <1>12. CASE UNCHANGED vars
    BY <1>0, <1>12, StageFrame DEF vars, threadVars, history
  <1> QED
    BY <1>1, <1>2, <1>3, <1>4, <1>5, <1>6, <1>7, <1>8, <1>9, <1>10, <1>11,
       <1>12 DEF Next, NewCall, InCall, Posted

------------------------------------------------------------------------------
(* The inductive invariant, and the invariants of the runs.                 *)

\* The invariant holds in every state.
LEMMA Inductive == Spec => []IInv
  <1>1. IInv /\ [Next]_vars => IInv'
    BY TypeStep, CallStep, IteratorStep, StageStep DEF IInv, StageInv
  <1> QED
    BY InitIInv, <1>1, PTL DEF Spec

\* Type correctness of the dispatcher, for any number of threads,
\* identifiers, result lengths and buffer sizes (redex.cpp:164-462).
THEOREM TypeCorrect == Spec => []TypeOK
  <1>1. IInv => TypeOK
    BY DEF IInv
  <1> QED
    BY Inductive, <1>1, PTL

\* The iterator that rcvmsg and rcvasmsg use after they unlocked msgmutex
\* always points at its object (redex.cpp:372-391, 402-425).
THEOREM IteratorsStayValid == Spec => []IteratorValid
  <1>1. IInv => IteratorValid
    BY DEF IInv
  <1> QED
    BY Inductive, <1>1, PTL

\* A posted call is queued once, run once and stored once
\* (redex.cpp:228-286), however the threads interleave.
THEOREM TicketsInOneStage == Spec => []OneStage
  <1>1. IInv => OneStage
    BY DEF IInv
  <1> QED
    BY Inductive, <1>1, PTL

------------------------------------------------------------------------------
(* Redex implements Mailbox.                                                *)

\* An empty msgmap is an empty mailbox.
LEMMA InitBox == Init => Box!Init
  BY DEF Init, Box!Init, Reply

\* Each step of the dispatcher is one operation of the mailbox, or none.
LEMMA StepBox == IInv /\ [Next]_vars => [Box!Next]_(Box!vars)
  <1> SUFFICES ASSUME IInv, [Next]_vars PROVE [Box!Next]_(Box!vars)
    OBVIOUS
  <1> USE DEF Box!Next, Box!vars
  <1>0. TypeOK /\ CallInv /\ IteratorValid /\ OneStage
    BY DEF IInv
  <1>1. ASSUME NEW w \in Worker, Store(w) PROVE Box!Next
    <2> DEFINE i == wjob[w]
    <2>1. i \in Id /\ i \notin DOMAIN msgmap
      BY <1>0, <1>1 DEF Store, OneStage, RunNotQueuedOrStored, Busy
    <2>2. msgmap' = With(msgmap, i, << Whole(i, made[i]) >>) /\ reply' = reply
      BY <1>1, <2>1 DEF Store, gameVars
    <2> HIDE DEF i
    <2>3. /\ DOMAIN msgmap' = DOMAIN msgmap \cup {i}
          /\ msgmap'[i] = << Whole(i, made[i]) >>
      BY <2>2 DEF With
    <2>4. Box!Put(i)
      BY <2>1, <2>2, <2>3 DEF Box!Put, With, Box!With, Whole
    <2> QED
      BY <2>1, <2>4
  <1>2. CASE Pop
    <2>1. iter \in DOMAIN msgmap /\ iter \in Id
      BY <1>0, <1>2 DEF Pop, IteratorValid, TypeOK
    <2>2. Box!Fetch(iter)
      BY <1>2, <2>1 DEF Pop, Box!Fetch, Reply, Box!Reply
    <2> QED
      BY <2>1, <2>2
  <1>3. CASE Erase
    <2>1. iter \in DOMAIN msgmap /\ iter \in Id
      BY <1>0, <1>3 DEF Erase, IteratorValid, TypeOK
    <2>2. CASE op = "rcvasmsg"
      <3>1. Box!Take(iter)
        BY <1>0, <1>3, <2>1, <2>2
           DEF Erase, IteratorValid, Box!Take, Reply, Box!Reply, Without, Box!Without
      <3> QED
        BY <2>1, <3>1
    <2>3. CASE op # "rcvasmsg"
      <3>1. Box!Finish(iter)
        BY <1>0, <1>3, <2>1, <2>3
           DEF Erase, IteratorValid, Box!Finish, Reply, Box!Reply, Without, Box!Without
      <3> QED
        BY <2>1, <3>1
    <2> QED
      BY <2>2, <2>3
  <1>4. ASSUME NEW i \in Id, NEW m \in 0..(cap - Overhead), Split(i, m)
        PROVE  Box!Next
    <2> DEFINE p == reply.piece
               head == [p EXCEPT !.hi = p.lo + m - 1]
    <2>1. /\ p \in Piece /\ cap \in Nat \ {0} /\ m \in 0..cap
          /\ Length(p) > cap /\ reply.kind \in {"piece", "text"}
      BY <1>0, <1>4 DEF Split, CallInv, TypeOK
    <2>2. Box!Tiles(p, head, Chunks(p, m, cap))
      BY <2>1, ChunksTile
    <2>3. i \notin DOMAIN msgmap
      BY <1>4 DEF IInv, JobInv, Split, Fresh
    <2>4. /\ msgmap' = With(msgmap, i, Chunks(p, m, cap))
          /\ reply' = Reply("multipart", i, head)
      BY <1>4 DEF Split
    <2> HIDE DEF p, head
    <2>5. /\ DOMAIN msgmap' = DOMAIN msgmap \cup {i}
          /\ msgmap'[i] = Chunks(p, m, cap)
          /\ msgmap' = Box!With(msgmap, i, msgmap'[i])
      BY <2>4 DEF With, Box!With
    <2>6. reply'.kind = "multipart" /\ reply'.id = i /\ reply'.piece = head
      BY <2>4 DEF Reply
    <2>7. Box!Overflow(i)
      BY <2>1, <2>2, <2>3, <2>5, <2>6 DEF Box!Overflow, p
    <2> QED
      BY <2>7
  <1>5. ASSUME NEW i \in Id, Chkmsg(i) PROVE Box!Next
    <2>1. Box!Look(i)
      BY <1>5 DEF Chkmsg, Box!Look, Reply
    <2> QED
      BY <2>1
  <1>6. ASSUME NEW o, NEW i \in Id, NEW c \in Caps, Find(o, i, c)
        PROVE  [Box!Next]_(Box!vars)
    <2>1. CASE i \in DOMAIN msgmap
      BY <1>6, <2>1 DEF Find
    <2>2. CASE i \notin DOMAIN msgmap
      <3>1. Box!Look(i)
        BY <1>6, <2>2 DEF Find, Box!Look, Reply
      <3> QED
        BY <3>1
    <2> QED
      BY <2>1, <2>2
  <1>7. ASSUME NEW k, NEW i \in Id, Post(k, i) PROVE Box!Next
    <2>1. Box!Say
      BY <1>7 DEF Post, Box!Say, Box!Plain, Reply
    <2> QED
      BY <2>1
  <1>8. ASSUME NEW i \in Id, NEW n, NEW c, Sync(i, n, c) PROVE Box!Next
    <2>1. Box!Say
      BY <1>8 DEF Sync, Box!Say, Box!Plain, Reply
    <2> QED
      BY <2>1
  <1>9. CASE Throw \/ Join
    <2>1. Box!Say
      BY <1>9 DEF Throw, Join, Box!Say, Box!Plain, Reply
    <2> QED
      BY <2>1
  <1>10. CASE \/ Register \/ Terminate \/ Destroy \/ Copy \/ Exhausted \/ Return
              \/ Stopped \/ Unloaded
    BY <1>10 DEF Register, Terminate, Destroy, Copy, Exhausted, Return, Stopped,
                 Unloaded, gameVars
  <1>11. ASSUME NEW w \in Worker, WorkerStep(w), ~Store(w)
         PROVE  UNCHANGED << msgmap, reply >>
    BY <1>11 DEF WorkerStep, Dispatch, Call, Callback, Finish, Exit, gameVars
  <1>12. CASE UNCHANGED vars
    BY <1>12 DEF vars, gameVars
  <1> QED
    BY <1>1, <1>2, <1>3, <1>4, <1>5, <1>6, <1>7, <1>8, <1>9, <1>10, <1>11,
       <1>12 DEF Next, NewCall, InCall

\* The receiving calls, each made of a locked find, an unlocked use of the
\* iterator and a locked erase (redex.cpp:367-428), take effect at one
\* instant, and a split answer tiles what it was cut from (redex.cpp:317-359).
THEOREM ImplementsMailbox == Spec => Atomic
  <1>1. Init => Box!Init
    BY InitBox
  <1> QED
    BY Inductive, <1>1, StepBox, PTL DEF Spec, Atomic, Box!Spec

------------------------------------------------------------------------------
(* What becomes of the jobs and of their results.                           *)

\* The threads exist with a config file only, and leave run() only when the
\* io_service has stopped.
LifeInv ==
    /\ work => configured
    /\ \A w \in Worker : wpc[w] = "absent" <=> ~configured
    /\ \A w \in Worker : wpc[w] = "exited" => stopped

\* The protocol of a call decides which way its result takes: results that
\* were not split are one piece.
WayInv ==
    /\ \A w \in Worker : /\ wpc[w] = "store" => class[wjob[w]] = "async"
                         /\ wpc[w] = "callback" => class[wjob[w]] = "callback"
    /\ \A t \in DOMAIN msgmap :
          /\ class[t] \in {"async", "multipart"}
          /\ class[t] = "async" => Len(msgmap[t]) <= 1

\* A call that was posted is queued or running, or it has its result; one
\* that is queued or running has none yet.
Waiting(i) == \E k \in 1..Len(jobs) : jobs[k] = i
Running(i) == \E w \in Worker : wpc[w] = "call" /\ wjob[w] = i
HasResult(i) == made[i] # 0
ResultInv ==
    /\ \A i \in Id : class[i] \in Posted =>
          HasResult(i) \/ Waiting(i) \/ Running(i)
    /\ \A i \in Id : Fresh(i) \/ Waiting(i) \/ Running(i) => ~HasResult(i)
    /\ \A w \in Worker : wpc[w] \in {"store", "callback"} => HasResult(wjob[w])

FateInv == LifeInv /\ WayInv /\ ResultInv

\* Threads come and go with the io_service only (redex.cpp:42-54, 143-162).
LEMMA LifeStep == IInv /\ LifeInv /\ [Next]_vars => LifeInv'
  <1> SUFFICES ASSUME TypeOK, LifeInv, [Next]_vars PROVE LifeInv'
    BY DEF IInv
  <1> USE DEF LifeInv
  <1>1. ASSUME NEW w \in Worker, WorkerStep(w) PROVE LifeInv'
    <2>1. UNCHANGED << configured, work >>
      BY <1>1 DEF WorkerStep, Dispatch, Call, Store, Callback, Finish, Exit
    <2>2. stopped => stopped'
      BY <1>1 DEF WorkerStep, Dispatch, Call, Store, Callback, Finish, Exit
    <2>3. /\ \A v \in Worker \ {w} : wpc'[v] = wpc[v]
          /\ wpc[w] # "absent" /\ wpc'[w] # "absent"
          /\ wpc'[w] = "exited" => stopped
      BY <1>1 DEF WorkerStep, Dispatch, Call, Store, Callback, Finish, Exit, TypeOK
    <2> QED
      BY <2>1, <2>2, <2>3
  <1>2. CASE \/ UNCHANGED << configured, work, stopped, wpc >>
             \/ Terminate \/ Destroy
    <2>1. /\ UNCHANGED << configured, wpc >>
          /\ work' => work
          /\ stopped => stopped'
      BY <1>2 DEF Terminate, Destroy, TypeOK
    <2> QED
      BY <2>1
  <1>3. CASE Register \/ Throw \/ \E i \in Id : Chkmsg(i)
    BY <1>2, <1>3 DEF Register, Throw, Chkmsg, threadVars
  <1>4. ASSUME NEW i \in Id, NEW k, NEW o, NEW n, NEW c,
               Post(k, i) \/ Sync(i, n, c) \/ Find(o, i, c)
        PROVE  LifeInv'
    BY <1>2, <1>4 DEF Post, Sync, Find, threadVars
  <1>5. CASE InCall
    BY <1>2, <1>5 DEF InCall, Copy, Pop, Exhausted, Erase, Return, Split,
                      Stopped, Join, Unloaded, threadVars
  <1>6. CASE UNCHANGED vars
    BY <1>2, <1>6 DEF vars, threadVars
  <1> QED
    BY <1>1, <1>2, <1>3, <1>4, <1>5, <1>6 DEF Next, NewCall

\* Objects of the store that a step leaves, shortens or drops, under the same
\* workers and classes.
LEMMA WayFrame ==
    ASSUME TypeOK, OneStage, WayInv, DOMAIN msgmap' \subseteq DOMAIN msgmap,
           \A t \in DOMAIN msgmap' :
              Len(msgmap[t]) <= 1 => Len(msgmap'[t]) <= 1,
           \A i \in Id : class'[i] = class[i] \/ Fresh(i),
           \A i \in DOMAIN msgmap : class[i] # "unused",
           \A w \in Worker : wpc'[w] \in {"store", "callback"} =>
              /\ wpc'[w] = wpc[w] /\ wjob'[w] = wjob[w]
    PROVE  WayInv'
  <1>1. \A w \in Worker : Busy(w) => wjob[w] \in Id
    BY DEF OneStage, RunNotQueuedOrStored
  <1>2. ASSUME NEW w \in Worker
        PROVE  /\ wpc'[w] = "store" => class'[wjob'[w]] = "async"
               /\ wpc'[w] = "callback" => class'[wjob'[w]] = "callback"
    BY <1>1 DEF WayInv, Busy, Fresh
  <1>3. ASSUME NEW t \in DOMAIN msgmap'
        PROVE  /\ class'[t] \in {"async", "multipart"}
               /\ class'[t] = "async" => Len(msgmap'[t]) <= 1
    <2>1. t \in DOMAIN msgmap /\ t \in Id
      BY DEF TypeOK
    <2>2. class'[t] = class[t]
      BY <2>1 DEF Fresh
    <2> QED
      BY <2>1, <2>2 DEF WayInv
  <1> QED
    BY <1>2, <1>3 DEF WayInv

\* Each result takes the way of its protocol (redex.cpp:228-286, 349-356).
LEMMA WayStep == IInv /\ WayInv /\ [Next]_vars => WayInv'
  <1> SUFFICES ASSUME TypeOK, JobInv, OneStage, WayInv, IteratorValid,
                      [Next]_vars
               PROVE  WayInv'
    BY DEF IInv
  <1>0. /\ \A i \in DOMAIN msgmap : class[i] # "unused" /\ i \in Id
        /\ class \in [Id -> {"unused", "async", "callback", "quiet", "sync",
                             "multipart"}]
        /\ wpc \in [Worker -> {"absent", "idle", "call", "store", "callback",
                           "finish", "exited"}]
    BY DEF JobInv, TypeOK
  <1>1. ASSUME NEW w \in Worker, NEW n \in Sizes, Call(w, n) PROVE WayInv'
    <2>1. /\ UNCHANGED << wjob, class, msgmap >>
          /\ \A v \in Worker \ {w} : wpc'[v] = wpc[v]
          /\ wpc'[w] = "store" => class[wjob[w]] = "async"
          /\ wpc'[w] = "callback" => class[wjob[w]] = "callback"
      BY <1>0, <1>1 DEF Call
    <2> QED
      BY <2>1 DEF WayInv
  <1>2. ASSUME NEW w \in Worker, Store(w) PROVE WayInv'
    <2> DEFINE i == wjob[w]
    <2>1. i \in Id /\ i \notin DOMAIN msgmap /\ class[i] = "async"
      BY <1>2 DEF Store, OneStage, RunNotQueuedOrStored, Busy, WayInv
    <2>2. /\ msgmap' = With(msgmap, i, << Whole(i, made[i]) >>)
          /\ UNCHANGED << wjob, class >>
          /\ wpc'[w] = "finish" /\ \A v \in Worker \ {w} : wpc'[v] = wpc[v]
      BY <1>0, <1>2, <2>1 DEF Store, history
    <2>3. /\ DOMAIN msgmap' = DOMAIN msgmap \cup {i}
          /\ Len(msgmap'[i]) = 1
          /\ \A t \in DOMAIN msgmap : msgmap'[t] = msgmap[t]
      BY <2>1, <2>2 DEF With
    <2>4. \A v \in Worker \ {w} : wpc'[v] = wpc[v] /\ wjob'[v] = wjob[v]
      BY <2>2
    <2>5. \A t \in DOMAIN msgmap' :
             /\ class'[t] \in {"async", "multipart"}
             /\ class'[t] = "async" => Len(msgmap'[t]) <= 1
      <3>1. class' = class
        BY <2>2
      <3> HIDE DEF i
      <3>2. class'[i] = "async" /\ Len(msgmap'[i]) <= 1
        BY <2>1, <2>3, <3>1
      <3>3. ASSUME NEW t \in DOMAIN msgmap
            PROVE  /\ class'[t] \in {"async", "multipart"}
                   /\ class'[t] = "async" => Len(msgmap'[t]) <= 1
        BY <2>3, <3>1 DEF WayInv
      <3> QED
        BY <2>3, <3>2, <3>3
    <2> QED
      BY <2>2, <2>4, <2>5 DEF WayInv
  <1>3. ASSUME NEW w \in Worker,
               Dispatch(w) \/ Callback(w) \/ Finish(w) \/ Exit(w)
        PROVE  WayInv'
    <2>1. /\ UNCHANGED << class, msgmap >>
          /\ wpc'[w] \notin {"store", "callback"}
          /\ \A v \in Worker \ {w} : wpc'[v] = wpc[v] /\ wjob'[v] = wjob[v]
      BY <1>0, <1>3 DEF Dispatch, Callback, Finish, Exit, history, TypeOK
    <2> QED
      BY <1>0, <2>1, WayFrame
  <1>4. ASSUME UNCHANGED << wpc, wjob, msgmap >>,
               \A i \in Id : class'[i] = class[i] \/ Fresh(i)
        PROVE  WayInv'
    BY <1>0, <1>4, WayFrame
  <1>5. ASSUME NEW i \in Id, NEW k, NEW o, NEW n, NEW c,
               Post(k, i) \/ Sync(i, n, c) \/ Find(o, i, c) \/ Chkmsg(i)
        PROVE  WayInv'
    <2>1. UNCHANGED << wpc, wjob, msgmap >>
      BY <1>5 DEF Post, Sync, Find, Chkmsg, threadVars
    <2>2. \A j \in Id : class'[j] = class[j] \/ Fresh(j)
      BY <1>0, <1>5 DEF Post, Sync, Find, Chkmsg, history
    <2> QED
      BY <1>4, <2>1, <2>2
  <1>6. CASE \/ Register \/ Throw \/ Terminate \/ Destroy \/ Copy \/ Exhausted
             \/ Return \/ Stopped \/ Join \/ Unloaded \/ UNCHANGED vars
    <2>1. UNCHANGED << wpc, wjob, msgmap, class >>
      BY <1>6 DEF Register, Throw, Terminate, Destroy, Copy, Exhausted, Return,
                  Stopped, Join, Unloaded, vars, threadVars, history
    <2> QED
      BY <1>4, <2>1
  <1>7. CASE Pop
    <2>1. /\ UNCHANGED << wpc, wjob, class >> /\ iter \in DOMAIN msgmap
          /\ msgmap' = [msgmap EXCEPT ![iter] = Tail(msgmap[iter])]
          /\ msgmap[iter] \in Seq(Piece) /\ msgmap[iter] # << >>
      BY <1>7 DEF Pop, threadVars, history, IteratorValid, TypeOK
    <2>2. /\ DOMAIN msgmap' = DOMAIN msgmap
          /\ \A t \in DOMAIN msgmap \ {iter} : msgmap'[t] = msgmap[t]
          /\ Len(msgmap[iter]) <= 1 => Len(msgmap'[iter]) <= 1
      BY <2>1
    <2> QED
      BY <1>0, <2>1, <2>2, WayFrame
  <1>8. CASE Erase
    <2>1. /\ UNCHANGED << wpc, wjob, class >>
          /\ DOMAIN msgmap' \subseteq DOMAIN msgmap
          /\ \A t \in DOMAIN msgmap' : msgmap'[t] = msgmap[t]
      BY <1>8 DEF Erase, Without, threadVars
    <2> QED
      BY <1>0, <2>1, WayFrame
  <1>9. ASSUME NEW i \in Id, NEW m \in 0..(cap - Overhead), Split(i, m)
        PROVE  WayInv'
    <2>1. /\ UNCHANGED << wpc, wjob >> /\ Fresh(i)
          /\ class' = [class EXCEPT ![i] = "multipart"]
          /\ DOMAIN msgmap' = DOMAIN msgmap \cup {i}
          /\ \A t \in DOMAIN msgmap \ {i} : msgmap'[t] = msgmap[t]
      BY <1>9 DEF Split, With, threadVars
    <2>2. \A w \in Worker : Busy(w) => wjob[w] # i
      BY <2>1 DEF JobInv, Posted, Fresh
    <2> QED
      BY <1>0, <2>1, <2>2 DEF WayInv, Busy, Fresh
  <1> QED
    BY <1>1, <1>2, <1>3, <1>5, <1>6, <1>7, <1>8, <1>9
       DEF Next, NewCall, InCall, WorkerStep

\* Steps that make no result, and let no call start or stop waiting for one.
LEMMA ResultFrame ==
    ASSUME ResultInv, UNCHANGED << made, class >>,
           \A i \in Id : Waiting(i)' \/ Running(i)' <=> Waiting(i) \/ Running(i),
           \A w \in Worker : wpc'[w] \in {"store", "callback"} =>
              wpc[w] \in {"store", "callback"} /\ wjob'[w] = wjob[w]
    PROVE  ResultInv'
  <1>1. \A i \in Id : /\ HasResult(i)' <=> HasResult(i)
                      /\ Fresh(i)' <=> Fresh(i)
                      /\ class'[i] = class[i]
    BY DEF HasResult, Fresh
  <1>2. \A i \in Id : class'[i] \in Posted =>
           HasResult(i)' \/ Waiting(i)' \/ Running(i)'
    BY <1>1 DEF ResultInv
  <1>3. \A i \in Id : Fresh(i)' \/ Waiting(i)' \/ Running(i)' => ~HasResult(i)'
    BY <1>1 DEF ResultInv
  <1>4. \A w \in Worker : wpc'[w] \in {"store", "callback"} => made'[wjob'[w]] # 0
    BY DEF ResultInv, HasResult
  <1>5. \A w \in Worker : wpc'[w] \in {"store", "callback"} => HasResult(wjob[w])'
    BY <1>4 DEF HasResult
  <1> QED
    BY <1>2, <1>3, <1>5 DEF ResultInv

\* A worker that takes the first job: it waits no more and runs.
LEMMA DispatchResult ==
    ASSUME TypeOK, ResultInv, NEW w \in Worker, Dispatch(w)
    PROVE  ResultInv'
  <1>1. /\ jobs # << >> /\ jobs \in Seq(Id) /\ Len(jobs) \in Nat \ {0}
        /\ jobs' = Tail(jobs) /\ wpc[w] = "idle"
        /\ wjob'[w] = jobs[1] /\ wpc'[w] = "call"
        /\ \A v \in Worker \ {w} : wpc'[v] = wpc[v] /\ wjob'[v] = wjob[v]
        /\ UNCHANGED << made, class >>
    BY DEF Dispatch, TypeOK, history
  <1>2. /\ Len(jobs') = Len(jobs) - 1
        /\ \A k \in 1..Len(jobs') : k + 1 \in 1..Len(jobs) /\ jobs'[k] = jobs[k + 1]
    BY <1>1
  <1>3. ASSUME NEW i \in Id
        PROVE  Waiting(i)' \/ Running(i)' <=> Waiting(i) \/ Running(i)
    <2>1. Running(i)' <=> Running(i) \/ jobs[1] = i
      BY <1>1 DEF Running
    <2>2. Waiting(i)' => Waiting(i)
      BY <1>2 DEF Waiting
    <2>3. ASSUME NEW k \in 1..Len(jobs), jobs[k] = i, k # 1 PROVE Waiting(i)'
      <3>1. k - 1 \in 1..Len(jobs') /\ jobs'[k - 1] = jobs[k]
        BY <1>1, <1>2, <2>3
      <3> QED
        BY <2>3, <3>1 DEF Waiting
    <2>4. Waiting(i) => Waiting(i)' \/ jobs[1] = i
      BY <2>3 DEF Waiting
    <2>5. jobs[1] = i => Waiting(i)
      BY <1>1 DEF Waiting
    <2> QED
      BY <2>1, <2>2, <2>4, <2>5
  <1>4. \A v \in Worker : wpc'[v] \in {"store", "callback"} =>
           wpc[v] \in {"store", "callback"} /\ wjob'[v] = wjob[v]
    BY <1>1
  <1> QED
    BY <1>1, <1>3, <1>4, ResultFrame

\* A function that returns, or throws, gives its call a result.
LEMMA CallResult ==
    ASSUME IInv, ResultInv, NEW w \in Worker, NEW n \in Sizes, Call(w, n)
    PROVE  ResultInv'
  <1>0. wpc[w] = "call" /\ wjob[w] \in Id
    BY DEF Call, IInv, OneStage, RunNotQueuedOrStored, Busy
  <1> PICK i \in Id : i = wjob[w]
    BY <1>0
  <1>1. /\ wpc[w] = "call" /\ i \in Id /\ class[i] \in Posted
        /\ \A k \in 1..Len(jobs) : jobs[k] # i
        /\ \A v \in Worker \ {w} : Busy(v) => wjob[v] # i /\ wjob[v] \in Id
    BY DEF Call, IInv, OneStage, RunNotQueuedOrStored, RunOnce, JobInv, Busy
  <1>2. /\ made'[i] = n /\ n # 0
        /\ \A j \in Id \ {i} : made'[j] = made[j]
        /\ UNCHANGED << jobs, wjob, class >>
        /\ wpc'[w] \in {"store", "callback", "finish"}
        /\ \A v \in Worker \ {w} : wpc'[v] = wpc[v]
    BY <1>1 DEF Call, IInv, TypeOK
  <1>3. \A j \in Id : /\ Waiting(j)' <=> Waiting(j)
                      /\ Fresh(j)' <=> Fresh(j)
                      /\ Running(j)' => Running(j)
    BY <1>2 DEF Waiting, Fresh, Running
  <1>4. \A j \in Id \ {i} : /\ HasResult(j)' <=> HasResult(j)
                            /\ Running(j) => Running(j)'
    BY <1>2 DEF HasResult, Running
  <1>5. ~Fresh(i)' /\ ~Waiting(i)' /\ ~Running(i)' /\ HasResult(i)'
    BY <1>1, <1>2 DEF Fresh, Posted, Waiting, Running, HasResult, Busy
  <1>6. \A j \in Id : class'[j] \in Posted =>
           HasResult(j)' \/ Waiting(j)' \/ Running(j)'
    BY <1>2, <1>3, <1>4, <1>5 DEF ResultInv
  <1>7. \A j \in Id : Fresh(j)' \/ Waiting(j)' \/ Running(j)' => ~HasResult(j)'
    BY <1>3, <1>4, <1>5 DEF ResultInv
  <1>8. ASSUME NEW v \in Worker, wpc'[v] \in {"store", "callback"}
        PROVE  made'[wjob'[v]] # 0
    <2>1. CASE v = w
      BY <1>2, <2>1
    <2>2. CASE v # w
      <3>1. Busy(v) /\ wpc[v] \in {"store", "callback"}
        BY <1>2, <1>8, <2>2 DEF Busy
      <3>2. made[wjob[v]] # 0
        BY <3>1 DEF ResultInv, HasResult
      <3> QED
        BY <1>1, <1>2, <2>2, <3>1, <3>2
    <2> QED
      BY <2>1, <2>2
  <1> QED
    BY <1>6, <1>7, <1>8 DEF ResultInv, HasResult

\* A fresh identifier becomes a waiting call, the name of an answer with a
\* result of its own, or that of a rest that is cut off.
LEMMA FreshResult ==
    ASSUME IInv, ResultInv, NEW i \in Id, Fresh(i), NEW k,
           class' = [class EXCEPT ![i] = k], UNCHANGED << wpc, wjob >>,
           \/ k \in Posted /\ jobs' = Append(jobs, i) /\ made' = made
           \/ k = "multipart" /\ jobs' = jobs /\ made' = made
           \/ k = "sync" /\ jobs' = jobs /\ \E n : made' = [made EXCEPT ![i] = n]
    PROVE  ResultInv'
  <1>1. /\ class'[i] = k /\ k # "unused" /\ ~Fresh(i)'
        /\ \A j \in Id \ {i} : class'[j] = class[j] /\ made'[j] = made[j]
        /\ jobs \in Seq(Id) /\ Len(jobs) \in Nat
    BY DEF IInv, TypeOK, Posted, Fresh
  <1>2. \A w \in Worker : Busy(w) => wjob[w] \in Id \ {i}
    BY DEF IInv, JobInv, OneStage, RunNotQueuedOrStored, Posted, Fresh
  <1>3. ~Waiting(i) /\ ~Running(i) /\ ~HasResult(i)
    BY <1>2 DEF IInv, JobInv, Posted, Fresh, Waiting, Running, Busy, ResultInv
  <1>4. \A j \in Id : Running(j)' <=> Running(j)
    BY DEF Running
  <1>5. /\ \A j \in Id \ {i} : Waiting(j)' <=> Waiting(j)
        /\ Waiting(i)' <=> k \in Posted
    <2>1. CASE jobs' = jobs /\ k \notin Posted
      BY <1>3, <2>1 DEF Waiting
    <2>2. CASE jobs' = Append(jobs, i) /\ k \in Posted
      <3>1. /\ Len(jobs') = Len(jobs) + 1 /\ jobs'[Len(jobs) + 1] = i
            /\ \A l \in 1..Len(jobs) : jobs'[l] = jobs[l]
        BY <1>1, <2>2
      <3>2. \A l \in 1..Len(jobs') : l \in 1..Len(jobs) \/ l = Len(jobs) + 1
        BY <1>1, <3>1
      <3>3. \A l \in 1..Len(jobs) : l \in 1..Len(jobs')
        BY <1>1, <3>1
      <3>4. Len(jobs) + 1 \in 1..Len(jobs')
        BY <1>1, <3>1
      <3> QED
        BY <2>2, <3>1, <3>2, <3>3, <3>4 DEF Waiting
    <2> QED
      BY <2>1, <2>2 DEF Posted
  <1>6. /\ k \in Posted => ~HasResult(i)'
        /\ \A j \in Id \ {i} : /\ HasResult(j)' <=> HasResult(j)
                               /\ Fresh(j)' <=> Fresh(j)
    BY <1>1, <1>3 DEF HasResult, Fresh, Posted
  <1>7. \A j \in Id : class'[j] \in Posted =>
           HasResult(j)' \/ Waiting(j)' \/ Running(j)'
    BY <1>1, <1>4, <1>5, <1>6 DEF ResultInv
  <1>8. \A j \in Id : Fresh(j)' \/ Waiting(j)' \/ Running(j)' => ~HasResult(j)'
    BY <1>1, <1>3, <1>4, <1>5, <1>6 DEF ResultInv
  <1>9. \A w \in Worker : wpc'[w] \in {"store", "callback"} => made'[wjob'[w]] # 0
    BY <1>1, <1>2 DEF ResultInv, HasResult, Busy
  <1> QED
    BY <1>7, <1>8, <1>9 DEF ResultInv, HasResult

\* Every call that was posted waits, runs, or has its result
\* (redex.cpp:228-286).
LEMMA ResultStep == IInv /\ ResultInv /\ [Next]_vars => ResultInv'
  <1> SUFFICES ASSUME IInv, ResultInv, [Next]_vars PROVE ResultInv'
    OBVIOUS
  <1>0. TypeOK
    BY DEF IInv
  <1>1. ASSUME NEW w \in Worker, Store(w) \/ Callback(w) \/ Finish(w) \/ Exit(w)
        PROVE  ResultInv'
    <2>1. /\ UNCHANGED << made, class, jobs >>
          /\ wpc[w] # "call" /\ wpc'[w] \notin {"call", "store", "callback"}
          /\ \A v \in Worker \ {w} : wpc'[v] = wpc[v] /\ wjob'[v] = wjob[v]
      BY <1>0, <1>1 DEF Store, Callback, Finish, Exit, history, TypeOK
    <2>2. \A i \in Id : (Waiting(i)' <=> Waiting(i)) /\ (Running(i)' <=> Running(i))
      BY <2>1 DEF Waiting, Running
    <2> QED
      BY <2>1, <2>2, ResultFrame
  <1>2. ASSUME UNCHANGED << made, class, jobs, wpc, wjob >> PROVE ResultInv'
    BY <1>2, ResultFrame DEF Waiting, Running
  <1>3. CASE \/ Register \/ Throw \/ Terminate \/ Destroy \/ Copy \/ Exhausted
             \/ Pop \/ Erase \/ Return \/ Stopped \/ Join \/ Unloaded
             \/ UNCHANGED vars
    BY <1>2, <1>3 DEF Register, Throw, Terminate, Destroy, Copy, Exhausted, Pop,
                      Erase, Return, Stopped, Join, Unloaded, vars, threadVars,
                      history
  <1>4. ASSUME NEW i \in Id, NEW o, NEW c, Chkmsg(i) \/ Find(o, i, c)
        PROVE  ResultInv'
    BY <1>2, <1>4 DEF Chkmsg, Find, threadVars, history
  <1>5. ASSUME NEW i \in Id, NEW k \in Posted, Post(k, i) PROVE ResultInv'
    BY <1>5, FreshResult DEF Post
  <1>6. ASSUME NEW i \in Id, NEW n \in Sizes, NEW c \in Caps, Sync(i, n, c)
        PROVE  ResultInv'
    BY <1>6, FreshResult DEF Sync, threadVars
  <1>7. ASSUME NEW i \in Id, NEW m \in 0..(cap - Overhead), Split(i, m)
        PROVE  ResultInv'
    BY <1>7, FreshResult DEF Split, threadVars
  <1> QED
    BY <1>0, <1>1, <1>3, <1>4, <1>5, <1>6, <1>7, DispatchResult, CallResult
       DEF Next, NewCall, InCall, WorkerStep, Posted

\* What becomes of the jobs, in every state.
LEMMA Fates == Spec => []FateInv
  <1>1. Init => FateInv
    BY DEF Init, FateInv, LifeInv, WayInv, ResultInv, Posted, HasResult, Waiting,
           Running
  <1>2. IInv /\ FateInv /\ [Next]_vars => FateInv'
    BY LifeStep, WayStep, ResultStep DEF FateInv
  <1> QED
    BY Inductive, <1>1, <1>2, PTL DEF Spec

\* The io_service stops by itself only when the last job is done.
LEMMA StopsWhenDrained ==
    ASSUME [Next]_vars, ~stopped, stopped', gpc' # "unload"
    PROVE  \/ \E w \in Worker : Finish(w) /\ Drained(Worker \ {w})
           \/ Terminate /\ work /\ Drained(Worker)
  <1>1. ASSUME NEW w \in Worker, WorkerStep(w)
        PROVE  Finish(w) /\ Drained(Worker \ {w})
    BY <1>1 DEF WorkerStep, Dispatch, Call, Store, Callback, Finish, Exit
  <1>2. CASE Register \/ Throw \/ Terminate \/ Destroy
    BY <1>2 DEF Register, Throw, Terminate, Destroy, threadVars
  <1>3. ASSUME NEW i, NEW k, NEW o, NEW n, NEW c,
               Post(k, i) \/ Sync(i, n, c) \/ Find(o, i, c) \/ Chkmsg(i)
        PROVE  FALSE
    BY <1>3 DEF Post, Sync, Find, Chkmsg, threadVars
  <1>4. ~InCall
    BY DEF InCall, Copy, Pop, Exhausted, Erase, Return, Split, Stopped, Join,
           Unloaded, threadVars
  <1>5. vars' # vars
    BY DEF vars, threadVars
  <1> QED
    BY <1>1, <1>2, <1>3, <1>4, <1>5 DEF Next, NewCall

\* When the wait of terminate() ends, every call that was posted was executed
\* and no thread is still at work.
LEMMA WaitEnds ==
    ASSUME IInv, FateInv, [Next]_vars, ~stopped, stopped', gpc' # "unload"
    PROVE  /\ \A i \in Id : class[i] \in {"async", "callback", "quiet"} => made[i] # 0
           /\ \A w \in Worker : wpc'[w] = "idle"
  <1>0. /\ wpc \in [Worker -> {"absent", "idle", "call", "store", "callback",
                               "finish", "exited"}]
        /\ jobs \in Seq(Id)
    BY DEF IInv, TypeOK
  <1>1. /\ jobs = << >>
        /\ \A v \in Worker : /\ wpc[v] # "call"
                             /\ wpc'[v] \in {"absent", "idle", "exited"}
                             /\ wpc'[v] = wpc[v] \/ wpc'[v] = "idle"
        /\ configured
    <2>1. ASSUME NEW w \in Worker, Finish(w), Drained(Worker \ {w})
          PROVE  /\ jobs = << >>
                 /\ \A v \in Worker : /\ wpc[v] # "call"
                                      /\ wpc'[v] \in {"absent", "idle", "exited"}
                                      /\ wpc'[v] = wpc[v] \/ wpc'[v] = "idle"
                 /\ configured
      BY <1>0, <2>1 DEF Finish, Drained, Busy, FateInv, LifeInv
    <2>2. CASE Terminate /\ work /\ Drained(Worker)
      BY <1>0, <2>2 DEF Terminate, Drained, Busy, FateInv, LifeInv
    <2> QED
      BY <2>1, <2>2, StopsWhenDrained
  <1>2. ASSUME NEW i \in Id, class[i] \in Posted PROVE made[i] # 0
    <2>1. ~Waiting(i) /\ ~Running(i)
      BY <1>0, <1>1 DEF Waiting, Running
    <2> QED
      BY <1>2, <2>1 DEF FateInv, ResultInv, HasResult
  <1>3. \A w \in Worker : wpc'[w] = "idle"
    BY <1>1 DEF FateInv, LifeInv
  <1> QED
    BY <1>2, <1>3 DEF Posted

\* terminate() does "wait until all jobs are finished" (redex.cpp:143-162),
\* for any number of threads and jobs, whenever the jobs were posted.
THEOREM WaitCoversJobs == Spec => JobsFinished
  <1>1. ASSUME IInv, FateInv, [Next]_vars
        PROVE  [~stopped /\ stopped' /\ gpc' # "unload" =>
                 /\ \A i \in Id :
                       class[i] \in {"async", "callback", "quiet"} => made[i] # 0
                 /\ \A w \in Worker : wpc'[w] = "idle"]_vars
    BY <1>1, WaitEnds
  <1> QED
    BY <1>1, Inductive, Fates, PTL DEF Spec, JobsFinished

\* A step that gives characters up.
LEMMA WhoLoses ==
    ASSUME IInv, FateInv, [Next]_vars, NEW i \in Id, lost'[i] # lost[i]
    PROVE  \/ class[i] \in {"quiet", "callback"}
           \/ gpc = "erase" /\ op = "rcvasmsg" /\ class[iter] = "multipart"
  <1>0. lost \in [Id -> SUBSET Nat]
    BY DEF IInv, TypeOK
  <1>1. ASSUME NEW w \in Worker, WorkerStep(w)
        PROVE  class[i] \in {"quiet", "callback"}
    <2>1. Callback(w) \/ \E n \in Sizes : Call(w, n)
      BY <1>1 DEF WorkerStep, Dispatch, Store, Finish, Exit, history
    <2>2. ASSUME NEW n \in Sizes, Call(w, n) PROVE class[i] = "quiet"
      BY <1>0, <2>2 DEF Call, Lose
    <2>3. CASE Callback(w)
      <3>1. i = wjob[w]
        BY <1>0, <2>3 DEF Callback, Lose
      <3>2. class[wjob[w]] = "callback"
        BY <2>3 DEF Callback, FateInv, WayInv
      <3> QED
        BY <3>1, <3>2
    <2> QED
      BY <2>1, <2>2, <2>3
  <1>2. CASE Erase
    <2> DEFINE q == msgmap[iter]
    <2>1. /\ gpc = "erase" /\ iter \in DOMAIN msgmap /\ iter \in Id
          /\ q \in Seq(Piece) /\ Len(q) \in Nat
      BY <1>2 DEF Erase, IInv, IteratorValid, TypeOK
    <2>2. lost'[i] = lost[i] \cup LeftIn(q, i)
      BY <1>2 DEF Erase
    <2>3. LeftIn(q, i) # {}
      BY <2>2
    <2> HIDE DEF q
    <2>4. (IF op = "rcvasmsg" THEN 2 ELSE 1)..Len(q) # {}
      BY <2>3 DEF LeftIn
    <2>5. op = "rcvasmsg"
      <3>1. op # "rcvasmsg" => q = << >>
        BY <2>1 DEF IInv, IteratorValid, q
      <3> QED
        BY <2>4, <3>1
    <2>6. ~(Len(q) <= 1)
      BY <2>1, <2>4, <2>5
    <2>7. class[iter] = "multipart"
      BY <2>1, <2>6 DEF FateInv, WayInv, q
    <2> QED
      BY <2>1, <2>5, <2>7
  <1>3. CASE \/ Register \/ Throw \/ Terminate \/ Destroy \/ Copy \/ Exhausted
             \/ Pop \/ Return \/ Stopped \/ Join \/ Unloaded \/ UNCHANGED vars
    BY <1>3 DEF Register, Throw, Terminate, Destroy, Copy, Exhausted, Pop,
                Return, Stopped, Join, Unloaded, vars, history
  <1>4. ASSUME NEW j, NEW k, NEW o, NEW n, NEW c, NEW m,
               Post(k, j) \/ Sync(j, n, c) \/ Find(o, j, c) \/ Chkmsg(j)
                   \/ Split(j, m)
        PROVE  FALSE
    BY <1>4 DEF Post, Sync, Find, Chkmsg, Split, history
  <1> QED
    BY <1>1, <1>2, <1>3, <1>4 DEF Next, NewCall, InCall

\* Results are given up by quiet calls, by callbacks that are not registered,
\* and by rcvasmsg on a message that was split (redex.cpp:383-390), and in no
\* other way.
THEOREM NothingElseLoses == Spec => OnlyMisuseLoses
  <1>1. ASSUME IInv, FateInv, [Next]_vars
        PROVE  [\A i \in Id : lost'[i] # lost[i] =>
                 \/ class[i] \in {"quiet", "callback"}
                 \/ gpc = "erase" /\ op = "rcvasmsg" /\ class[iter] = "multipart"]_vars
    BY <1>1, WhoLoses
  <1> QED
    BY <1>1, Inductive, Fates, PTL DEF Spec, OnlyMisuseLoses

------------------------------------------------------------------------------
(* Every character of a result is in one place.                             *)

\* The n-th character of the content i: received, given up, in the answer
\* that is being returned, or in a piece of a message object.
Carries(p, i, n) == p.of = i /\ n \in Chars(p)
Returning(i, n) == gpc = "return" /\ Carries(reply.piece, i, n)
InPiece(t, k, i, n) == Carries(msgmap[t][k], i, n)
InStore(i, n) == \E t \in DOMAIN msgmap : \E k \in 1..Len(msgmap[t]) :
                    InPiece(t, k, i, n)
Once(i, n) ==
    /\ n \in got[i] \/ n \in lost[i] \/ Returning(i, n) \/ InStore(i, n)
    /\ ~(n \in got[i] /\ n \in lost[i])
    /\ Returning(i, n) => n \notin got[i] /\ n \notin lost[i] /\ ~InStore(i, n)
    /\ InStore(i, n) => n \notin got[i] /\ n \notin lost[i]
    /\ \A t, u \in DOMAIN msgmap :
          \A k \in 1..Len(msgmap[t]) : \A l \in 1..Len(msgmap[u]) :
             InPiece(t, k, i, n) /\ InPiece(u, l, i, n) => t = u /\ k = l

\* A worker has the result of i, and nobody else has seen anything of it.
AtWorker(w, i) == wpc[w] \in {"store", "callback"} /\ wjob[w] = i
Unseen(i) ==
    /\ got[i] = {} /\ lost[i] = {}
    /\ gpc = "return" => reply.piece.of # i
    /\ \A t \in DOMAIN msgmap : \A k \in 1..Len(msgmap[t]) : msgmap[t][k].of # i

Spread(i) ==
    \/ /\ Unseen(i)
       /\ ~HasResult(i) \/ \E w \in Worker : AtWorker(w, i)
    \/ /\ HasResult(i) /\ \A w \in Worker : ~AtWorker(w, i)
       /\ \A n \in 1..made[i] : Once(i, n)
SpreadInv == \A i \in Id : Spread(i)

\* Whole division, as the cut of an answer uses it.
LEMMA DivFacts ==
    ASSUME NEW a \in Nat, NEW c \in Nat \ {0}
    PROVE  a \div c \in Nat /\ (a \div c) * c <= a /\ a < (a \div c) * c + c
  <1> DEFINE d == a \div c
             r == a % c
  <1>1. d \in Int /\ r \in 0..(c - 1) /\ a = c * d + r
    OBVIOUS
  <1>2. c * d = d * c
    BY <1>1
  <1>3. d >= 0
    BY <1>1
  <1> QED
    BY <1>1, <1>2, <1>3

\* Cutting after the first m characters, and then at every c: each character
\* of the piece is in the head or in one of the chunks.
LEMMA ChunksCover ==
    ASSUME NEW p \in Piece, NEW c \in Nat \ {0}, NEW m \in 0..c,
           Length(p) > c, NEW i, NEW n \in Nat
    PROVE  LET head == [p EXCEPT !.hi = p.lo + m - 1]
               q == Chunks(p, m, c)
           IN
           /\ Carries(p, i, n) <=> \/ Carries(head, i, n)
                                   \/ \E k \in 1..Len(q) : Carries(q[k], i, n)
           /\ \A k \in 1..Len(q) : ~(Carries(head, i, n) /\ Carries(q[k], i, n))
           /\ \A k, l \in 1..Len(q) :
                 Carries(q[k], i, n) /\ Carries(q[l], i, n) => k = l
  <1> DEFINE s == Length(p) - m
             N == ChunkCount(s, c)
             q == Chunks(p, m, c)
             head == [p EXCEPT !.hi = p.lo + m - 1]
             d == n - p.lo - m
  <1>0. p.lo \in Nat \ {0} /\ p.hi \in Nat /\ p.of \in Id \cup {NoId}
    BY DEF Piece
  <1>1. s \in Nat \ {0} /\ s = p.hi + 1 - p.lo - m
    BY <1>0 DEF Length
  <1>2. N \in Nat \ {0} /\ s <= N * c
    BY <1>1, ChunkCountBounds
  <1>3. /\ Len(q) = N
        /\ \A k \in 1..N :
              q[k] = [of |-> p.of, lo |-> p.lo + m + (k - 1) * c,
                      hi |-> Least(p.lo + m + k * c - 1, p.hi)]
    BY <1>2 DEF Chunks
  <1>4. head.of = p.of /\ head.lo = p.lo /\ head.hi = p.lo + m - 1
    BY <1>0 DEF Piece
  <1>5. /\ Carries(p, i, n) <=> p.of = i /\ p.lo <= n /\ n <= p.hi
        /\ Carries(head, i, n) <=> p.of = i /\ p.lo <= n /\ d < 0
    BY <1>0, <1>4 DEF Carries, Chars
  <1> HIDE DEF s, N, q, head
  <1>6. ASSUME NEW k \in 1..N
        PROVE  /\ k * c \in Nat /\ (k - 1) * c \in Nat
               /\ Carries(q[k], i, n) <=>
                     p.of = i /\ (k - 1) * c <= d /\ d < k * c /\ n <= p.hi
    <2>1. k * c \in Nat /\ (k - 1) * c \in Nat
      BY <1>2
    <2>2. /\ q[k].of = p.of /\ q[k].lo = p.lo + m + (k - 1) * c
          /\ q[k].hi = Least(p.lo + m + k * c - 1, p.hi)
      BY <1>3
    <2>3. n <= Least(p.lo + m + k * c - 1, p.hi)
             <=> n <= p.lo + m + k * c - 1 /\ n <= p.hi
      BY <1>0, <2>1 DEF Least
    <2>4. Least(p.lo + m + k * c - 1, p.hi) \in Int
      BY <1>0, <2>1 DEF Least
    <2>5. Carries(q[k], i, n) <=>
             /\ p.of = i /\ p.lo + m + (k - 1) * c <= n
             /\ n <= Least(p.lo + m + k * c - 1, p.hi)
      BY <1>0, <2>1, <2>2, <2>4 DEF Carries, Chars
    <2> QED
      BY <1>0, <2>1, <2>3, <2>5
  <1>7. ASSUME NEW k \in 1..N, NEW l \in 1..N, k < l
        PROVE  k * c <= (l - 1) * c
    BY <1>2, <1>7
  <1>8. ASSUME NEW k \in 1..N, NEW l \in 1..N,
               Carries(q[k], i, n), Carries(q[l], i, n)
        PROVE  k = l
    <2>1. /\ (k - 1) * c <= d /\ d < k * c /\ (l - 1) * c <= d /\ d < l * c
          /\ k * c \in Nat /\ (k - 1) * c \in Nat /\ l * c \in Nat
          /\ (l - 1) * c \in Nat
      BY <1>6, <1>8
    <2>2. ~(k < l)
      BY <1>0, <1>7, <2>1
    <2>3. ~(l < k)
      BY <1>0, <1>7, <2>1
    <2> QED
      BY <2>2, <2>3
  <1>9. ASSUME NEW k \in 1..N, Carries(q[k], i, n)
        PROVE  Carries(p, i, n) /\ ~Carries(head, i, n)
    BY <1>0, <1>5, <1>6, <1>9
  <1>10. ASSUME Carries(head, i, n) PROVE Carries(p, i, n)
    BY <1>0, <1>1, <1>5, <1>10
  <1>11. ASSUME Carries(p, i, n), ~Carries(head, i, n)
         PROVE  \E k \in 1..N : Carries(q[k], i, n)
    <2> DEFINE k == d \div c + 1
    <2>1. d \in Nat /\ d < s
      BY <1>0, <1>1, <1>5, <1>11
    <2> HIDE DEF d
    <2>2. d \div c \in Nat /\ (d \div c) * c <= d /\ d < (d \div c) * c + c
      BY <2>1, DivFacts
    <2>3. k \in Nat \ {0} /\ (k - 1) * c <= d /\ d < k * c
      <3>1. k - 1 = d \div c /\ k * c = (d \div c) * c + c
        BY <2>2
      <3> QED
        BY <2>2, <3>1
    <2> HIDE DEF k
    <2>4. k <= N
      <3> SUFFICES ASSUME N < k PROVE FALSE
        BY <1>2, <2>3
      <3>1. N <= k - 1 /\ k - 1 \in Nat
        BY <1>2, <2>3
      <3>2. N * c <= (k - 1) * c
        BY <1>2, <3>1
      <3> QED
        BY <1>1, <1>2, <2>1, <2>3, <3>1, <3>2
    <2>5. k \in 1..N
      BY <1>2, <2>3, <2>4
    <2>6. Carries(q[k], i, n)
      BY <1>5, <1>6, <1>11, <2>3, <2>5
    <2> QED
      BY <2>5, <2>6
  <1> QED
    BY <1>3, <1>8, <1>9, <1>10, <1>11 DEF q, head

\* The pieces of the content i in the store, and in the answer that is being
\* returned, are where they were.
PiecesKept(i) ==
    /\ \A t \in DOMAIN msgmap : \A k \in 1..Len(msgmap[t]) :
          msgmap[t][k].of = i =>
             /\ t \in DOMAIN msgmap' /\ k \in 1..Len(msgmap'[t])
             /\ msgmap'[t][k] = msgmap[t][k]
    /\ \A t \in DOMAIN msgmap' : \A k \in 1..Len(msgmap'[t]) :
          msgmap'[t][k].of = i =>
             /\ t \in DOMAIN msgmap /\ k \in 1..Len(msgmap[t])
             /\ msgmap[t][k] = msgmap'[t][k]
AnswerKept(i) ==
    /\ gpc = "return" /\ reply.piece.of = i =>
          gpc' = "return" /\ reply'.piece = reply.piece
    /\ gpc' = "return" /\ reply'.piece.of = i =>
          gpc = "return" /\ reply'.piece = reply.piece

\* A step that touches nothing of i leaves its characters where they are.
LEMMA SpreadFrame ==
    ASSUME NEW i \in Id, Spread(i),
           made'[i] = made[i], got'[i] = got[i], lost'[i] = lost[i],
           \A w \in Worker : AtWorker(w, i)' <=> AtWorker(w, i),
           PiecesKept(i), AnswerKept(i)
    PROVE  Spread(i)'
  <1>1. HasResult(i)' <=> HasResult(i)
    BY DEF HasResult
  <1>2. Unseen(i) => Unseen(i)'
    BY DEF Unseen, PiecesKept, AnswerKept
  <1>3. ASSUME NEW n, Once(i, n) PROVE Once(i, n)'
    <2>1. Returning(i, n)' <=> Returning(i, n)
      BY DEF Returning, Carries, AnswerKept
    <2>2. \A t \in DOMAIN msgmap' : \A k \in 1..Len(msgmap'[t]) :
             InPiece(t, k, i, n)' =>
                /\ t \in DOMAIN msgmap /\ k \in 1..Len(msgmap[t])
                /\ InPiece(t, k, i, n)
      BY DEF InPiece, Carries, PiecesKept
    <2>3. \A t \in DOMAIN msgmap : \A k \in 1..Len(msgmap[t]) :
             InPiece(t, k, i, n) =>
                /\ t \in DOMAIN msgmap' /\ k \in 1..Len(msgmap'[t])
                /\ InPiece(t, k, i, n)'
      BY DEF InPiece, Carries, PiecesKept
    <2>4. InStore(i, n)' <=> InStore(i, n)
      BY <2>2, <2>3 DEF InStore
    <2>5. \A t, u \in DOMAIN msgmap' :
             \A k \in 1..Len(msgmap'[t]) : \A l \in 1..Len(msgmap'[u]) :
                InPiece(t, k, i, n)' /\ InPiece(u, l, i, n)' => t = u /\ k = l
      BY <1>3, <2>2 DEF Once
    <2> QED
      BY <1>3, <2>1, <2>4, <2>5 DEF Once
  <1> QED
    BY <1>1, <1>2, <1>3 DEF Spread

\* What SpreadFrame asks of the store, when a step leaves it as it is.
LEMMA SameStore == msgmap' = msgmap => \A i \in Id : PiecesKept(i)
  BY DEF PiecesKept

\* Workers that go from one stage to the next where the result is not theirs.
LEMMA SpreadQuiet ==
    ASSUME SpreadInv, UNCHANGED << made, got, lost, msgmap >>,
           \A w \in Worker : wpc'[w] \in {"store", "callback"}
                                <=> wpc[w] \in {"store", "callback"},
           \A w \in Worker : wpc[w] \in {"store", "callback"} => wjob'[w] = wjob[w],
           \/ gpc # "return" /\ gpc' # "return"
           \/ UNCHANGED << gpc, reply >>
    PROVE  SpreadInv'
  <1>1. ASSUME NEW i \in Id PROVE Spread(i)'
    <2>1. \A w \in Worker : AtWorker(w, i)' <=> AtWorker(w, i)
      BY DEF AtWorker
    <2>2. PiecesKept(i) /\ AnswerKept(i)
      BY SameStore DEF AnswerKept
    <2> QED
      BY <2>1, <2>2, SpreadFrame DEF SpreadInv
  <1> QED
    BY <1>1 DEF SpreadInv

\* A job that has its result, or is about to get it, has no other worker.
LEMMA OneWorkerEach ==
    ASSUME IInv, NEW w \in Worker, Busy(w)
    PROVE  /\ wjob[w] \in Id /\ class[wjob[w]] \in Posted
           /\ \A v \in Worker \ {w} : Busy(v) => wjob[v] # wjob[w]
  BY DEF IInv, OneStage, RunOnce, RunNotQueuedOrStored, JobInv

\* The function returns: a quiet call's result is given up at once, the others
\* stay with the worker.
LEMMA CallSpread ==
    ASSUME IInv, FateInv, SpreadInv, NEW w \in Worker, NEW n \in Sizes, Call(w, n)
    PROVE  SpreadInv'
  <1>0. Busy(w) /\ wpc[w] = "call" /\ TypeOK
    BY DEF Call, Busy, IInv
  <1> PICK i \in Id : i = wjob[w]
    BY <1>0, OneWorkerEach
  <1>1. /\ class[i] \in Posted
        /\ \A v \in Worker \ {w} : Busy(v) => wjob[v] # i
    BY <1>0, OneWorkerEach
  <1>2. /\ UNCHANGED << wjob, msgmap, got, gpc, reply, class >>
        /\ made'[i] = n /\ n \in Nat \ {0}
        /\ \A j \in Id \ {i} : made'[j] = made[j] /\ lost'[j] = lost[j]
        /\ \A v \in Worker \ {w} : wpc'[v] = wpc[v]
    BY <1>0 DEF Call, TypeOK, Lose, gameVars
  <1>3. ~HasResult(i)
    BY <1>0 DEF FateInv, ResultInv, Running
  <1>4. Unseen(i)
    BY <1>3 DEF SpreadInv, Spread
  <1>5. ASSUME NEW j \in Id \ {i} PROVE Spread(j)'
    <2>1. \A v \in Worker : AtWorker(v, j)' <=> AtWorker(v, j)
      BY <1>0, <1>2 DEF AtWorker
    <2>2. PiecesKept(j) /\ AnswerKept(j)
      BY <1>2, SameStore DEF AnswerKept
    <2> QED
      BY <1>2, <2>1, <2>2, SpreadFrame DEF SpreadInv
  <1>6. CASE class[i] = "quiet"
    <2>1. /\ lost'[i] = 1..n /\ wpc'[w] = "finish"
      BY <1>0, <1>4, <1>6 DEF Call, Lose, TypeOK, Unseen
    <2>2. \A v \in Worker : ~AtWorker(v, i)'
      BY <1>1, <1>2, <2>1 DEF AtWorker, Busy
    <2>3. ASSUME NEW x \in 1..n PROVE Once(i, x)'
      <3>1. ~Returning(i, x)' /\ ~InStore(i, x)'
        BY <1>2, <1>4 DEF Unseen, Returning, InStore, InPiece, Carries
      <3>2. x \in lost'[i] /\ x \notin got'[i]
        BY <1>2, <1>4, <2>1, <2>3 DEF Unseen
      <3>3. \A t \in DOMAIN msgmap' : \A k \in 1..Len(msgmap'[t]) :
               ~InPiece(t, k, i, x)'
        BY <3>1 DEF InStore
      <3> QED
        BY <3>1, <3>2, <3>3 DEF Once
    <2> QED
      BY <1>2, <1>5, <2>2, <2>3 DEF SpreadInv, Spread, HasResult
  <1>7. CASE class[i] \in {"async", "callback"}
    <2>1. lost' = lost /\ wpc'[w] \in {"store", "callback"}
      BY <1>0, <1>7 DEF Call, TypeOK
    <2>2. Unseen(i)'
      BY <1>2, <1>4, <2>1 DEF Unseen
    <2>3. AtWorker(w, i)'
      BY <1>2, <2>1 DEF AtWorker
    <2> QED
      BY <1>5, <2>2, <2>3 DEF SpreadInv, Spread
  <1> QED
    BY <1>1, <1>6, <1>7 DEF Posted

\* The result goes from the worker into the store, or to the callback.
LEMMA DeliverSpread ==
    ASSUME IInv, FateInv, SpreadInv, NEW w \in Worker, Store(w) \/ Callback(w)
    PROVE  SpreadInv'
  <1>0. Busy(w) /\ wpc[w] \in {"store", "callback"} /\ TypeOK
    BY DEF Store, Callback, Busy, IInv
  <1> PICK i \in Id : i = wjob[w]
    BY <1>0, OneWorkerEach
  <1>1. /\ i # NoId /\ \A v \in Worker \ {w} : Busy(v) => wjob[v] # i
    BY <1>0, OneWorkerEach
  <1>2. /\ UNCHANGED << wjob, gpc, reply, made >>
        /\ wpc'[w] = "finish"
        /\ \A v \in Worker \ {w} : wpc'[v] = wpc[v]
    BY <1>0 DEF Store, Callback, TypeOK, gameVars, history
  <1>3. AtWorker(w, i) /\ HasResult(i) /\ made[i] \in Nat
    BY <1>0 DEF AtWorker, FateInv, ResultInv, TypeOK
  <1>4. Unseen(i)
    BY <1>3 DEF SpreadInv, Spread
  <1>5. HasResult(i)' /\ \A v \in Worker : ~AtWorker(v, i)'
    BY <1>1, <1>2, <1>3 DEF HasResult, AtWorker, Busy
  <1>6. \A j \in Id \ {i} : AnswerKept(j)
           /\ \A v \in Worker : AtWorker(v, j)' <=> AtWorker(v, j)
    BY <1>2 DEF AnswerKept, AtWorker
  <1>7. \A x : ~Returning(i, x)'
    BY <1>2, <1>4 DEF Unseen, Returning, Carries
  <1>8. CASE Store(w)
    <2>1. i \notin DOMAIN msgmap
      BY <1>0, <1>8 DEF IInv, OneStage, RunNotQueuedOrStored, Store
    <2>2. /\ DOMAIN msgmap' = DOMAIN msgmap \cup {i}
          /\ msgmap'[i] = << Whole(i, made[i]) >>
          /\ \A t \in DOMAIN msgmap : msgmap'[t] = msgmap[t]
          /\ UNCHANGED << got, lost >>
      BY <1>8, <2>1 DEF Store, With, history
    <2>3. /\ Len(msgmap'[i]) = 1 /\ msgmap'[i][1] = Whole(i, made[i])
          /\ msgmap'[i][1].of = i
      BY <2>2 DEF Whole
    <2>4. ASSUME NEW j \in Id \ {i} PROVE Spread(j)'
      <3>1. PiecesKept(j)
        BY <2>1, <2>2, <2>3 DEF PiecesKept
      <3> QED
        BY <1>2, <1>6, <2>2, <3>1, SpreadFrame DEF SpreadInv
    <2>5. ASSUME NEW x \in 1..made[i] PROVE Once(i, x)'
      <3>1. \A t \in DOMAIN msgmap' : \A k \in 1..Len(msgmap'[t]) :
               InPiece(t, k, i, x)' => t = i /\ k = 1
        BY <1>4, <2>2, <2>3 DEF InPiece, Carries, Unseen
      <3>2. 1 \in 1..Len(msgmap'[i]) /\ InPiece(i, 1, i, x)'
        BY <2>3 DEF InPiece, Carries, Chars, Whole
      <3>3. InStore(i, x)'
        BY <2>2, <3>2 DEF InStore
      <3>4. x \notin got'[i] /\ x \notin lost'[i]
        BY <1>4, <2>2 DEF Unseen
      <3> QED
        BY <1>7, <3>1, <3>3, <3>4 DEF Once
    <2> QED
      BY <1>2, <1>5, <2>4, <2>5 DEF SpreadInv, Spread
  <1>9. CASE Callback(w)
    <2>1. /\ msgmap' = msgmap
          /\ \A j \in Id \ {i} : got'[j] = got[j] /\ lost'[j] = lost[j]
          /\ \/ got'[i] = 1..made[i] /\ lost'[i] = {}
             \/ lost'[i] = 1..made[i] /\ got'[i] = {}
      <3>1. /\ Whole(i, made[i]).of = i /\ Chars(Whole(i, made[i])) = 1..made[i]
            /\ got[i] = {} /\ lost[i] = {} /\ msgmap' = msgmap
            /\ got \in [Id -> SUBSET Nat] /\ lost \in [Id -> SUBSET Nat]
        BY <1>0, <1>4, <1>9 DEF Callback, Whole, Chars, Unseen, TypeOK
      <3>2. CASE registered
        <4>1. lost' = lost /\ got' = [got EXCEPT ![i] = @ \cup 1..made[i]]
          BY <1>1, <1>9, <3>1, <3>2 DEF Callback, Receive
        <4> QED
          BY <3>1, <4>1
      <3>3. CASE ~registered
        <4>1. got' = got /\ lost' = [lost EXCEPT ![i] = @ \cup 1..made[i]]
          BY <1>9, <3>3 DEF Callback, Lose
        <4> QED
          BY <3>1, <4>1
      <3> QED
        BY <3>2, <3>3
    <2>2. ASSUME NEW j \in Id \ {i} PROVE Spread(j)'
      BY <1>2, <1>6, <2>1, SameStore, SpreadFrame DEF SpreadInv
    <2>3. ASSUME NEW x \in 1..made[i] PROVE Once(i, x)'
      <3>1. \A t \in DOMAIN msgmap' : \A k \in 1..Len(msgmap'[t]) :
               ~InPiece(t, k, i, x)'
        BY <1>4, <2>1 DEF InPiece, Carries, Unseen
      <3>2. ~InStore(i, x)'
        BY <3>1 DEF InStore
      <3> QED
        BY <1>7, <2>1, <3>1, <3>2 DEF Once
    <2> QED
      BY <1>2, <1>5, <2>2, <2>3 DEF SpreadInv, Spread
  <1> QED
    BY <1>8, <1>9

\* A step of the game thread that moves characters of i.
LEMMA SpreadMoves ==
    ASSUME NEW i \in Id, Spread(i), made'[i] = made[i],
           UNCHANGED << wpc, wjob >>, Unseen(i) => Unseen(i)',
           \A n \in 1..made[i] : Once(i, n) => Once(i, n)'
    PROVE  Spread(i)'
  <1>1. \A w \in Worker : AtWorker(w, i)' <=> AtWorker(w, i)
    BY DEF AtWorker
  <1>2. HasResult(i)' <=> HasResult(i)
    BY DEF HasResult
  <1> QED
    BY <1>1, <1>2 DEF Spread

\* The result of a synchronous call is in the answer (redex.cpp:210-226).
LEMMA SyncSpread ==
    ASSUME IInv, FateInv, SpreadInv, NEW i \in Id, NEW n \in Sizes, NEW c \in Caps,
           Sync(i, n, c)
    PROVE  SpreadInv'
  <1>1. /\ UNCHANGED << wpc, wjob, msgmap, got, lost >>
        /\ made'[i] = n /\ n \in Nat \ {0}
        /\ \A j \in Id \ {i} : made'[j] = made[j]
        /\ gpc = "idle" /\ gpc' = "return" /\ reply'.piece = Whole(i, n)
        /\ class[i] = "unused"
    BY DEF Sync, threadVars, Reply, IInv, TypeOK, Fresh
  <1>2. Unseen(i)
    <2>1. ~HasResult(i)
      BY <1>1 DEF FateInv, ResultInv, Fresh
    <2> QED
      BY <2>1 DEF SpreadInv, Spread
  <1>3. \A v \in Worker : ~AtWorker(v, i)'
    <2>1. \A v \in Worker : Busy(v) => wjob[v] # i
      BY <1>1, OneWorkerEach DEF Posted
    <2> QED
      BY <1>1, <2>1 DEF AtWorker, Busy
  <1>4. ASSUME NEW j \in Id \ {i} PROVE Spread(j)'
    <2>1. PiecesKept(j) /\ AnswerKept(j)
      BY <1>1, SameStore DEF AnswerKept, Whole
    <2>2. \A v \in Worker : AtWorker(v, j)' <=> AtWorker(v, j)
      BY <1>1 DEF AtWorker
    <2> QED
      BY <1>1, <2>1, <2>2, SpreadFrame DEF SpreadInv
  <1>5. ASSUME NEW x \in 1..n PROVE Once(i, x)'
    <2>1. \A t \in DOMAIN msgmap' : \A k \in 1..Len(msgmap'[t]) :
             ~InPiece(t, k, i, x)'
      BY <1>1, <1>2 DEF InPiece, Carries, Unseen
    <2>2. ~InStore(i, x)'
      BY <2>1 DEF InStore
    <2>3. x \notin got'[i] /\ x \notin lost'[i]
      BY <1>1, <1>2 DEF Unseen
    <2>4. Returning(i, x)'
      BY <1>1 DEF Returning, Carries, Chars, Whole
    <2> QED
      BY <2>1, <2>2, <2>3, <2>4 DEF Once
  <1> QED
    BY <1>1, <1>3, <1>4, <1>5 DEF SpreadInv, Spread, HasResult

\* rcvmsg takes the first piece out of the object into the answer
\* (redex.cpp:404-425).
LEMMA PopSpread ==
    ASSUME IInv, SpreadInv, Pop
    PROVE  SpreadInv'
  <1> DEFINE q == msgmap[iter]
  <1>1. /\ UNCHANGED << wpc, wjob, made, got, lost >>
        /\ gpc = "use" /\ gpc' = "return"
        /\ iter \in DOMAIN msgmap /\ q \in Seq(Piece) /\ q # << >>
        /\ reply'.piece = q[1]
        /\ msgmap' = [msgmap EXCEPT ![iter] = Tail(q)]
    BY DEF Pop, threadVars, history, Reply, IInv, IteratorValid, TypeOK
  <1> PICK t0 \in DOMAIN msgmap : t0 = iter
    BY <1>1
  <1>2. /\ Len(q) \in Nat \ {0} /\ DOMAIN msgmap' = DOMAIN msgmap
        /\ \A t \in DOMAIN msgmap \ {t0} : msgmap'[t] = msgmap[t]
        /\ Len(msgmap'[t0]) = Len(q) - 1
        /\ \A k \in 1..Len(msgmap'[t0]) : /\ k + 1 \in 1..Len(msgmap[t0])
                                          /\ msgmap'[t0][k] = msgmap[t0][k + 1]
        /\ q = msgmap[t0] /\ reply'.piece = msgmap[t0][1]
        /\ 1 \in 1..Len(msgmap[t0])
    BY <1>1
  <1>3. \A k \in 1..Len(msgmap[t0]) :
           k = 1 \/ (k - 1 \in 1..Len(msgmap'[t0])
                     /\ msgmap'[t0][k - 1] = msgmap[t0][k])
    BY <1>2
  <1> HIDE DEF q
  <1>4. ASSUME NEW i \in Id PROVE Spread(i)'
    <2>1. Unseen(i) => Unseen(i)'
      BY <1>1, <1>2 DEF Unseen
    <2>2. ASSUME NEW n \in 1..made[i], Once(i, n) PROVE Once(i, n)'
      <3>1. ~Returning(i, n) /\ (Returning(i, n)' <=> InPiece(t0, 1, i, n))
        BY <1>1, <1>2 DEF Returning, InPiece
      <3>2. \A k \in 1..Len(msgmap'[t0]) :
               InPiece(t0, k, i, n)' <=> InPiece(t0, k + 1, i, n)
        BY <1>2 DEF InPiece
      <3>3. \A t \in DOMAIN msgmap \ {t0} : \A k \in 1..Len(msgmap[t]) :
               InPiece(t, k, i, n)' <=> InPiece(t, k, i, n)
        BY <1>2 DEF InPiece
      <3>4. InStore(i, n)' => InStore(i, n)
        BY <1>2, <3>2, <3>3 DEF InStore
      <3>5. InStore(i, n) => InStore(i, n)' \/ Returning(i, n)'
        <4> SUFFICES ASSUME NEW t \in DOMAIN msgmap, NEW k \in 1..Len(msgmap[t]),
                            InPiece(t, k, i, n), ~Returning(i, n)'
                     PROVE  InStore(i, n)'
          BY DEF InStore
        <4>1. CASE t = t0
          <5>1. k # 1
            BY <3>1, <4>1
          <5>2. k - 1 \in 1..Len(msgmap'[t0]) /\ InPiece(t0, k - 1, i, n)'
            BY <1>3, <4>1, <5>1 DEF InPiece
          <5> QED
            BY <1>2, <5>2 DEF InStore
        <4>2. CASE t # t0
          BY <1>2, <3>3, <4>2 DEF InStore
        <4> QED
          BY <4>1, <4>2
      <3>6. Returning(i, n)' => InStore(i, n) /\ ~InStore(i, n)'
        <4> SUFFICES ASSUME InPiece(t0, 1, i, n),
                            NEW t \in DOMAIN msgmap', NEW k \in 1..Len(msgmap'[t]),
                            InPiece(t, k, i, n)'
                     PROVE  FALSE
          BY <1>2, <3>1 DEF InStore
        <4>1. CASE t = t0
          <5>1. k + 1 \in 1..Len(msgmap[t0]) /\ InPiece(t0, k + 1, i, n)
            BY <1>2, <3>2, <4>1
          <5>2. k + 1 = 1
            BY <1>2, <2>2, <5>1 DEF Once
          <5> QED
            BY <5>2, <4>1
        <4>2. CASE t # t0
          <5>1. k \in 1..Len(msgmap[t]) /\ InPiece(t, k, i, n)
            BY <1>2, <3>3, <4>2
          <5> QED
            BY <1>2, <2>2, <4>2, <5>1 DEF Once
        <4> QED
          BY <4>1, <4>2
      <3>7. ASSUME NEW t \in DOMAIN msgmap', NEW u \in DOMAIN msgmap',
                   NEW k \in 1..Len(msgmap'[t]), NEW l \in 1..Len(msgmap'[u]),
                   InPiece(t, k, i, n)', InPiece(u, l, i, n)'
            PROVE  t = u /\ k = l
        <4>1. ASSUME NEW x \in DOMAIN msgmap', NEW j \in 1..Len(msgmap'[x]),
                     InPiece(x, j, i, n)'
              PROVE  LET m == IF x = t0 THEN j + 1 ELSE j IN
                     /\ x \in DOMAIN msgmap /\ m \in 1..Len(msgmap[x])
                     /\ InPiece(x, m, i, n)
          BY <1>2, <3>2, <3>3, <4>1
        <4> DEFINE a == IF t = t0 THEN k + 1 ELSE k
                   b == IF u = t0 THEN l + 1 ELSE l
        <4>2. /\ a \in 1..Len(msgmap[t]) /\ InPiece(t, a, i, n)
              /\ b \in 1..Len(msgmap[u]) /\ InPiece(u, b, i, n)
              /\ t \in DOMAIN msgmap /\ u \in DOMAIN msgmap
          BY <3>7, <4>1
        <4> HIDE DEF a, b
        <4>3. t = u /\ a = b
          BY <2>2, <4>2 DEF Once
        <4> QED
          BY <4>3 DEF a, b
      <3> QED
        BY <1>1, <2>2, <3>1, <3>4, <3>5, <3>6, <3>7 DEF Once
    <2> QED
      BY <1>1, <2>1, <2>2, SpreadMoves DEF SpreadInv
  <1> QED
    BY <1>4 DEF SpreadInv

\* rcvmsg deletes an object with nothing in it; rcvasmsg answers with the first
\* piece it copied, and the other pieces go with the object (redex.cpp:374-391).
LEMMA EraseSpread ==
    ASSUME IInv, SpreadInv, Erase
    PROVE  SpreadInv'
  <1>1. /\ UNCHANGED << wpc, wjob, made, got >>
        /\ gpc = "erase" /\ iter \in DOMAIN msgmap
        /\ op = "rcvasmsg" \/ msgmap[iter] = << >>
        /\ op = "rcvasmsg" => hand = IF msgmap[iter] # << >>
                                     THEN Head(msgmap[iter]) ELSE Empty
        /\ TypeOK
    BY DEF Erase, threadVars, IInv, IteratorValid, CallInv
  <1> PICK t0 \in DOMAIN msgmap : t0 = iter
    BY <1>1
  <1>2. /\ msgmap[t0] \in Seq(Piece) /\ Len(msgmap[t0]) \in Nat
        /\ DOMAIN msgmap' = DOMAIN msgmap \ {t0}
        /\ \A t \in DOMAIN msgmap' : msgmap'[t] = msgmap[t]
    BY <1>1 DEF Erase, Without, TypeOK
  <1>3. ASSUME NEW i \in Id, NEW n
        PROVE  n \in lost'[i] <=> \/ n \in lost[i]
                                  \/ \E k \in 1..Len(msgmap[t0]) :
                                        /\ op = "rcvasmsg" => k # 1
                                        /\ InPiece(t0, k, i, n)
    <2>1. lost'[i] = lost[i] \cup LeftIn(msgmap[t0], i)
      BY <1>1 DEF Erase
    <2>2. n \in LeftIn(msgmap[t0], i)
             <=> \E k \in (IF op = "rcvasmsg" THEN 2 ELSE 1)..Len(msgmap[t0]) :
                    InPiece(t0, k, i, n)
      BY DEF LeftIn, InPiece, Carries
    <2>3. \A k : k \in (IF op = "rcvasmsg" THEN 2 ELSE 1)..Len(msgmap[t0])
                    <=> /\ k \in 1..Len(msgmap[t0])
                        /\ op = "rcvasmsg" => k # 1
      BY <1>2
    <2> QED
      BY <2>1, <2>2, <2>3
  <1>4. CASE op # "rcvasmsg"
    <2>1. Len(msgmap[t0]) = 0 /\ gpc' = "idle"
      BY <1>1, <1>4 DEF Erase
    <2>2. ASSUME NEW i \in Id PROVE Spread(i)'
      <3>1. lost'[i] = lost[i]
        <4>1. \A n : n \in lost'[i] <=> n \in lost[i]
          BY <1>3, <2>1
        <4>2. lost'[i] \subseteq lost[i] /\ lost[i] \subseteq lost'[i]
          BY <4>1
        <4> QED
          BY <4>2
      <3>2. PiecesKept(i) /\ AnswerKept(i)
        BY <1>1, <1>2, <2>1 DEF PiecesKept, AnswerKept
      <3>3. \A w \in Worker : AtWorker(w, i)' <=> AtWorker(w, i)
        BY <1>1 DEF AtWorker
      <3> QED
        BY <1>1, <3>1, <3>2, <3>3, SpreadFrame DEF SpreadInv
    <2> QED
      BY <2>2 DEF SpreadInv
  <1>5. CASE op = "rcvasmsg"
    <2>1. gpc' = "return" /\ reply'.piece = hand
      BY <1>5 DEF Erase, Reply
    <2>2. ASSUME NEW i \in Id PROVE Spread(i)'
      <3>1. \A n : Returning(i, n)' <=> /\ 1 \in 1..Len(msgmap[t0])
                                        /\ InPiece(t0, 1, i, n)
        <4>1. CASE msgmap[t0] = << >>
          BY <1>1, <1>5, <2>1, <4>1 DEF Returning, Carries, Empty
        <4>2. CASE msgmap[t0] # << >>
          <5>1. hand = msgmap[t0][1] /\ 1 \in 1..Len(msgmap[t0])
            BY <1>1, <1>2, <1>5, <4>2
          <5> QED
            BY <2>1, <5>1 DEF Returning, InPiece
        <4> QED
          BY <4>1, <4>2
      <3>2. ASSUME Unseen(i) PROVE Unseen(i)'
        <4>1. lost'[i] = {}
          <5>1. \A n : n \notin lost'[i]
            BY <1>3, <3>2 DEF Unseen, InPiece, Carries
          <5> QED
            BY <5>1
        <4>2. reply'.piece.of # i
          <5>1. CASE msgmap[t0] = << >>
            BY <1>1, <1>5, <2>1, <5>1 DEF Empty
          <5>2. CASE msgmap[t0] # << >>
            <6>1. hand = msgmap[t0][1] /\ 1 \in 1..Len(msgmap[t0])
              BY <1>1, <1>2, <1>5, <5>2
            <6> QED
              BY <2>1, <3>2, <6>1 DEF Unseen
          <5> QED
            BY <5>1, <5>2
        <4> QED
          BY <1>1, <1>2, <3>2, <4>1, <4>2 DEF Unseen
      <3>3. ASSUME NEW n \in 1..made[i], Once(i, n) PROVE Once(i, n)'
        <4>1. ~Returning(i, n)
          BY <1>1 DEF Returning
        <4>2. \A t \in DOMAIN msgmap' : \A k \in 1..Len(msgmap'[t]) :
                 InPiece(t, k, i, n)' <=> InPiece(t, k, i, n)
          BY <1>2 DEF InPiece
        <4>3. InStore(i, n) <=> \/ InStore(i, n)'
                                \/ \E k \in 1..Len(msgmap[t0]) :
                                      InPiece(t0, k, i, n)
          BY <1>2, <4>2 DEF InStore
        <4>4. \A k \in 1..Len(msgmap[t0]) :
                 InPiece(t0, k, i, n) => ~InStore(i, n)'
          BY <1>2, <3>3, <4>2 DEF Once, InStore
        <4>5. \A t, u \in DOMAIN msgmap' :
                 \A k \in 1..Len(msgmap'[t]) : \A l \in 1..Len(msgmap'[u]) :
                    InPiece(t, k, i, n)' /\ InPiece(u, l, i, n)' => t = u /\ k = l
          BY <1>2, <3>3, <4>2 DEF Once
        <4>6. Returning(i, n)' => n \notin lost'[i] /\ InStore(i, n)
          BY <1>3, <1>5, <3>1, <3>3, <4>3 DEF Once
        <4>7. n \in lost'[i] => n \in lost[i] \/ InStore(i, n)
          BY <1>3, <4>3
        <4>8. InStore(i, n)' => n \notin lost'[i]
          BY <1>3, <3>3, <4>3, <4>4 DEF Once
        <4>9. InStore(i, n) =>
                 InStore(i, n)' \/ n \in lost'[i] \/ Returning(i, n)'
          BY <1>3, <1>5, <3>1, <4>3
        <4>10. Returning(i, n)' => ~InStore(i, n)'
          BY <3>1, <4>4
        <4>11. n \in lost[i] => n \in lost'[i]
          BY <1>3
        <4>12. got'[i] = got[i]
          BY <1>1
        <4> QED
          BY <3>3, <4>1, <4>3, <4>5, <4>6, <4>7, <4>8, <4>9, <4>10, <4>11, <4>12
             DEF Once
      <3> QED
        BY <1>1, <3>2, <3>3, SpreadMoves DEF SpreadInv
    <2> QED
      BY <2>2 DEF SpreadInv
  <1> QED
    BY <1>4, <1>5

\* The answer arrives whole in the game's buffer.
LEMMA ReturnSpread ==
    ASSUME IInv, SpreadInv, Return
    PROVE  SpreadInv'
  <1>1. /\ UNCHANGED << wpc, wjob, made, lost, msgmap >>
        /\ gpc = "return" /\ gpc' = "idle"
        /\ got' = Receive(reply.piece) /\ got \in [Id -> SUBSET Nat]
    BY DEF Return, threadVars, IInv, TypeOK
  <1>2. ASSUME NEW i \in Id PROVE Spread(i)'
    <2>1. \A n : n \in got'[i] <=> n \in got[i] \/ Carries(reply.piece, i, n)
      <3>1. CASE reply.piece.of = i
        BY <1>1, <3>1 DEF Receive, Carries
      <3>2. CASE reply.piece.of # i
        BY <1>1, <3>2 DEF Receive, Carries
      <3> QED
        BY <3>1, <3>2
    <2>2. ASSUME Unseen(i) PROVE Unseen(i)'
      <3>1. \A n : n \notin got'[i]
        BY <1>1, <2>1, <2>2 DEF Unseen, Carries
      <3>2. got'[i] = {}
        BY <3>1
      <3> QED
        BY <1>1, <2>2, <3>2 DEF Unseen
    <2>3. ASSUME NEW n \in 1..made[i], Once(i, n) PROVE Once(i, n)'
      <3>1. ~Returning(i, n)' /\ (Returning(i, n) <=> Carries(reply.piece, i, n))
        BY <1>1 DEF Returning
      <3>2. InStore(i, n)' <=> InStore(i, n)
        BY <1>1 DEF InStore, InPiece
      <3>3. \A t, u \in DOMAIN msgmap' :
               \A k \in 1..Len(msgmap'[t]) : \A l \in 1..Len(msgmap'[u]) :
                  InPiece(t, k, i, n)' /\ InPiece(u, l, i, n)' => t = u /\ k = l
        BY <1>1, <2>3 DEF Once, InPiece
      <3> QED
        BY <1>1, <2>1, <2>3, <3>1, <3>2, <3>3 DEF Once
    <2> QED
      BY <1>1, <2>2, <2>3, SpreadMoves DEF SpreadInv
  <1> QED
    BY <1>2 DEF SpreadInv

\* The head of a larger answer arrives, its other characters wait in the
\* store, each in one of the pieces of a new object (redex.cpp:321-365).
LEMMA SplitSpread ==
    ASSUME IInv, SpreadInv, NEW x \in Id, NEW m \in 0..(cap - Overhead),
           Split(x, m)
    PROVE  SpreadInv'
  <1> DEFINE p == reply.piece
             c == cap
             q == Chunks(p, m, c)
             head == [p EXCEPT !.hi = p.lo + m - 1]
  <1>1. /\ UNCHANGED << wpc, wjob, made, lost >>
        /\ gpc = "return" /\ gpc' = "idle"
        /\ got' = Receive(head) /\ got \in [Id -> SUBSET Nat]
        /\ p \in Piece /\ Length(p) > c /\ class[x] = "unused"
        /\ msgmap' = With(msgmap, x, q) /\ c \in Caps
    BY DEF Split, threadVars, IInv, TypeOK, CallInv, Fresh
  <1>2. c \in Nat \ {0} /\ m \in 0..c
    BY <1>1
  <1>3. /\ x \notin DOMAIN msgmap
        /\ DOMAIN msgmap' = DOMAIN msgmap \cup {x} /\ msgmap'[x] = q
        /\ \A t \in DOMAIN msgmap : msgmap'[t] = msgmap[t]
    BY <1>1 DEF IInv, JobInv, With
  <1>4. head.of = p.of
    BY <1>1 DEF Piece
  <1>5. \A k \in 1..Len(q) : q[k].of = p.of
    <2>1. Length(p) - m \in Nat \ {0}
      BY <1>1, <1>2 DEF Piece, Length
    <2>2. ChunkCount(Length(p) - m, c) \in Nat
      BY <1>2, <2>1, ChunkCountBounds
    <2> QED
      BY <2>2 DEF Chunks
  <1>6. ASSUME NEW i \in Id, NEW n \in Nat
        PROVE  /\ Carries(p, i, n) <=>
                     \/ Carries(head, i, n)
                     \/ \E k \in 1..Len(q) : Carries(q[k], i, n)
               /\ \A k \in 1..Len(q) : ~(Carries(head, i, n) /\ Carries(q[k], i, n))
               /\ \A k, l \in 1..Len(q) :
                     Carries(q[k], i, n) /\ Carries(q[l], i, n) => k = l
    <2> HIDE DEF p, c
    <2> QED
      BY <1>1, <1>2, ChunksCover
  <1>7. ASSUME NEW i \in Id
        PROVE  \A n : n \in got'[i] <=> n \in got[i] \/ Carries(head, i, n)
    <2> HIDE DEF head
    <2>1. CASE head.of = i
      BY <1>1, <2>1 DEF Receive, Carries
    <2>2. CASE head.of # i
      BY <1>1, <2>2 DEF Receive, Carries
    <2> QED
      BY <2>1, <2>2
  <1>8. \A i \in Id, n \in Nat : Returning(i, n) <=> Carries(p, i, n)
    BY <1>1 DEF Returning
  <1>9. \A i \in Id, n \in Nat : \A t \in DOMAIN msgmap :
           \A k \in 1..Len(msgmap[t]) : InPiece(t, k, i, n)' <=> InPiece(t, k, i, n)
    BY <1>3 DEF InPiece
  <1>10. \A i \in Id, n \in Nat : \A k \in 1..Len(q) :
            InPiece(x, k, i, n)' <=> Carries(q[k], i, n)
    BY <1>3 DEF InPiece
  <1>11. made \in [Id -> Nat]
    BY DEF IInv, TypeOK
  <1> HIDE DEF p, c, q, head
  <1>12. ASSUME NEW i \in Id PROVE Spread(i)'
    <2>1. ASSUME Unseen(i) PROVE Unseen(i)'
      <3>1. p.of # i
        BY <1>1, <2>1 DEF Unseen, p
      <3>2. \A n : n \notin got'[i]
        BY <1>4, <1>7, <2>1, <3>1 DEF Unseen, Carries
      <3>3. got'[i] = {}
        BY <3>2
      <3>4. \A t \in DOMAIN msgmap' : \A k \in 1..Len(msgmap'[t]) :
               msgmap'[t][k].of # i
        BY <1>3, <1>5, <2>1, <3>1 DEF Unseen
      <3> QED
        BY <1>1, <2>1, <3>3, <3>4 DEF Unseen
    <2>2. ASSUME NEW n \in 1..made[i], Once(i, n) PROVE Once(i, n)'
      <3>0. n \in Nat
        BY <1>11
      <3>1. ~Returning(i, n)'
        BY <1>1 DEF Returning
      <3>2. InStore(i, n)' <=> \/ InStore(i, n)
                               \/ \E k \in 1..Len(q) : Carries(q[k], i, n)
        BY <1>3, <1>9, <1>10, <3>0 DEF InStore
      <3>3. Carries(p, i, n) => ~InStore(i, n)
        BY <1>8, <2>2, <3>0 DEF Once
      <3>4. ASSUME NEW t \in DOMAIN msgmap', NEW u \in DOMAIN msgmap',
                   NEW k \in 1..Len(msgmap'[t]), NEW l \in 1..Len(msgmap'[u]),
                   InPiece(t, k, i, n)', InPiece(u, l, i, n)'
            PROVE  t = u /\ k = l
        <4>1. CASE t = x /\ u = x
          BY <1>3, <1>6, <1>10, <3>0, <3>4, <4>1
        <4>2. CASE t # x /\ u # x
          BY <1>3, <1>9, <2>2, <3>0, <3>4, <4>2 DEF Once
        <4>3. CASE t = x /\ u # x
          BY <1>3, <1>6, <1>9, <1>10, <3>0, <3>3, <3>4, <4>3 DEF InStore
        <4>4. CASE t # x /\ u = x
          BY <1>3, <1>6, <1>9, <1>10, <3>0, <3>3, <3>4, <4>4 DEF InStore
        <4> QED
          BY <4>1, <4>2, <4>3, <4>4
      <3>5. \A k \in 1..Len(q) : Carries(q[k], i, n) =>
               n \notin got'[i] /\ n \notin lost'[i]
        BY <1>1, <1>6, <1>7, <1>8, <2>2, <3>0 DEF Once
      <3>6. InStore(i, n) => n \notin got'[i] /\ n \notin lost'[i]
        BY <1>1, <1>6, <1>7, <2>2, <3>0, <3>3 DEF Once
      <3>7. ~(n \in got'[i] /\ n \in lost'[i])
        BY <1>1, <1>6, <1>7, <1>8, <2>2, <3>0 DEF Once
      <3>8. n \in got'[i] \/ n \in lost'[i] \/ InStore(i, n)'
        BY <1>1, <1>6, <1>7, <1>8, <2>2, <3>0, <3>2 DEF Once
      <3> QED
        BY <3>1, <3>2, <3>4, <3>5, <3>6, <3>7, <3>8 DEF Once
    <2> QED
      BY <1>1, <2>1, <2>2, SpreadMoves DEF SpreadInv
  <1> QED
    BY <1>12 DEF SpreadInv

\* Whatever the workers and the game do, the characters stay spread.
LEMMA SpreadStep == IInv /\ FateInv /\ SpreadInv /\ [Next]_vars => SpreadInv'
  <1> SUFFICES ASSUME IInv, FateInv, SpreadInv, [Next]_vars PROVE SpreadInv'
    OBVIOUS
  <1>0. wpc \in [Worker -> {"absent", "idle", "call", "store", "callback",
                            "finish", "exited"}]
        /\ wjob \in [Worker -> Id \cup {NoId}]
    BY DEF IInv, TypeOK
  <1>1. ASSUME NEW w \in Worker, WorkerStep(w) PROVE SpreadInv'
    <2>1. ASSUME NEW n \in Sizes, Call(w, n) PROVE SpreadInv'
      BY <2>1, CallSpread
    <2>2. CASE Store(w) \/ Callback(w)
      BY <2>2, DeliverSpread
    <2>3. CASE Dispatch(w)
      BY <1>0, <2>3, SpreadQuiet DEF Dispatch, gameVars, history
    <2>4. CASE Finish(w)
      BY <1>0, <2>4, SpreadQuiet DEF Finish, gameVars, history
    <2>5. CASE Exit(w)
      BY <1>0, <2>5, SpreadQuiet DEF Exit, gameVars, history
    <2> QED
      BY <1>1, <2>1, <2>2, <2>3, <2>4, <2>5 DEF WorkerStep
  <1>2. CASE Register \/ Throw \/ Terminate \/ Destroy \/ Copy \/ Exhausted
                \/ Stopped \/ Join \/ Unloaded
    BY <1>2, SpreadQuiet DEF Register, Throw, Terminate, Destroy, Copy, Exhausted,
       Stopped, Join, Unloaded, gameVars, threadVars, history
  <1>3. ASSUME NEW i \in Id, NEW k \in {"async", "callback", "quiet"}, Post(k, i)
        PROVE  SpreadInv'
    BY <1>3, SpreadQuiet DEF Post
  <1>4. ASSUME NEW i \in Id, Chkmsg(i) PROVE SpreadInv'
    BY <1>4, SpreadQuiet DEF Chkmsg, threadVars, history
  <1>5. ASSUME NEW i \in Id, NEW c \in Caps, NEW o \in {"rcvmsg", "rcvasmsg"},
               Find(o, i, c)
        PROVE  SpreadInv'
    BY <1>5, SpreadQuiet DEF Find, threadVars, history
  <1>6. ASSUME NEW i \in Id, NEW c \in Caps, NEW n \in Sizes, Sync(i, n, c)
        PROVE  SpreadInv'
    BY <1>6, SyncSpread
  <1>7. CASE Pop
    BY <1>7, PopSpread
  <1>8. CASE Erase
    BY <1>8, EraseSpread
  <1>9. CASE Return
    BY <1>9, ReturnSpread
  <1>10. ASSUME NEW i \in Id, NEW m \in 0..(cap - Overhead), Split(i, m)
         PROVE  SpreadInv'
    BY <1>10, SplitSpread
  <1>11. CASE UNCHANGED vars
    BY <1>11, SpreadQuiet DEF vars, gameVars, threadVars, history
  <1>12. CASE NewCall
    BY <1>2, <1>3, <1>4, <1>5, <1>6, <1>12 DEF NewCall
  <1>13. CASE InCall
    BY <1>2, <1>7, <1>8, <1>9, <1>10, <1>13 DEF InCall
  <1> QED
    BY <1>1, <1>11, <1>12, <1>13 DEF Next

\* From the start on: nothing has a result yet.
LEMMA Spreads == Spec => []SpreadInv
  <1>1. Init => SpreadInv
    BY DEF Init, SpreadInv, Spread, Unseen, HasResult
  <1> QED
    BY <1>1, Inductive, Fates, SpreadStep, PTL DEF Spec

\* What Places collects, one kind of place at a time.
LEMMA PlacesAre ==
    ASSUME NEW i, NEW n, NEW x
    PROVE  x \in Places(i, n) <=>
              \/ n \in got[i] /\ x = << "received" >>
              \/ n \in lost[i] /\ x = << "lost" >>
              \/ Returning(i, n) /\ x = << "returning" >>
              \/ \E w \in Worker : AtWorker(w, i) /\ x = << "worker", w >>
              \/ \E t \in DOMAIN msgmap : \E k \in 1..Len(msgmap[t]) :
                    InPiece(t, k, i, n) /\ x = << "stored", t, k >>
  <1> DEFINE If(b, y) == IF b THEN {y} ELSE {}
             S == {{<< "stored", t, k >> :
                       k \in {l \in 1..Len(msgmap[t]) : InPiece(t, l, i, n)}}
                   : t \in DOMAIN msgmap}
             W == {<< "worker", w >> :
                     w \in {v \in Worker : AtWorker(v, i)}}
  <1>1. Places(i, n) =
           If(n \in got[i], << "received" >>) \cup If(n \in lost[i], << "lost" >>)
              \cup If(Returning(i, n), << "returning" >>) \cup W \cup UNION S
    BY DEF Places, Returning, Carries, InPiece, AtWorker
  <1>2. x \in W <=> \E w \in Worker : AtWorker(w, i) /\ x = << "worker", w >>
    OBVIOUS
  <1>3. x \in UNION S <=>
           \E t \in DOMAIN msgmap : \E k \in 1..Len(msgmap[t]) :
              InPiece(t, k, i, n) /\ x = << "stored", t, k >>
    OBVIOUS
  <1> HIDE DEF S, W
  <1> QED
    BY <1>1, <1>2, <1>3

\* However a result is split, split again and fetched: every character of it is
\* in one place, with a worker, in one piece of one message object, in the
\* answer, received or given up (redex.cpp:228-425).
THEOREM EveryCharacterInOnePlace == Spec => []EveryCharacterOnce
  <1>1. ASSUME IInv, SpreadInv PROVE EveryCharacterOnce
    <2>1. \A y : Cardinality({y}) = 1
      BY FS_Singleton
    <2>2. ASSUME NEW i \in Id, NEW n \in 1..made[i]
          PROVE  Cardinality(Places(i, n)) = 1
      <3>0. made[i] \in Nat /\ HasResult(i)
        BY <1>1, <2>2 DEF IInv, TypeOK, HasResult
      <3>1. CASE Unseen(i) /\ \E w \in Worker : AtWorker(w, i)
        <4> PICK w \in Worker : AtWorker(w, i)
          BY <3>1
        <4>1. \A v \in Worker : AtWorker(v, i) <=> v = w
          BY <1>1 DEF IInv, OneStage, RunOnce, AtWorker, Busy
        <4>2. /\ n \notin got[i] /\ n \notin lost[i] /\ ~Returning(i, n)
              /\ \A t \in DOMAIN msgmap : \A k \in 1..Len(msgmap[t]) :
                    ~InPiece(t, k, i, n)
          BY <3>1 DEF Unseen, Returning, InPiece, Carries
        <4>3. Places(i, n) = {<< "worker", w >>}
          BY <4>1, <4>2, PlacesAre
        <4> QED
          BY <2>1, <4>3
      <3>2. CASE (\A w \in Worker : ~AtWorker(w, i)) /\ Once(i, n)
        <4>1. CASE InStore(i, n)
          <5> PICK t \in DOMAIN msgmap : \E k \in 1..Len(msgmap[t]) :
                     InPiece(t, k, i, n)
            BY <4>1 DEF InStore
          <5> PICK k \in 1..Len(msgmap[t]) : InPiece(t, k, i, n)
            OBVIOUS
          <5>1. /\ n \notin got[i] /\ n \notin lost[i] /\ ~Returning(i, n)
                /\ \A u \in DOMAIN msgmap : \A l \in 1..Len(msgmap[u]) :
                      InPiece(u, l, i, n) <=> u = t /\ l = k
            BY <3>2, <4>1 DEF Once
          <5>2. Places(i, n) = {<< "stored", t, k >>}
            BY <3>2, <5>1, PlacesAre
          <5> QED
            BY <2>1, <5>2
        <4>2. CASE ~InStore(i, n)
          <5>1. \A t \in DOMAIN msgmap : \A k \in 1..Len(msgmap[t]) :
                   ~InPiece(t, k, i, n)
            BY <4>2 DEF InStore
          <5>2. CASE Returning(i, n)
            <6>1. Places(i, n) = {<< "returning" >>}
              BY <3>2, <5>1, <5>2, PlacesAre DEF Once
            <6> QED
              BY <2>1, <6>1
          <5>3. CASE ~Returning(i, n) /\ n \in got[i]
            <6>1. Places(i, n) = {<< "received" >>}
              BY <3>2, <5>1, <5>3, PlacesAre DEF Once
            <6> QED
              BY <2>1, <6>1
          <5>4. CASE ~Returning(i, n) /\ n \in lost[i]
            <6>1. Places(i, n) = {<< "lost" >>}
              BY <3>2, <5>1, <5>4, PlacesAre DEF Once
            <6> QED
              BY <2>1, <6>1
          <5> QED
            BY <3>2, <4>2, <5>2, <5>3, <5>4 DEF Once
        <4> QED
          BY <4>1, <4>2
      <3> QED
        BY <1>1, <3>0, <3>1, <3>2 DEF SpreadInv, Spread
    <2> QED
      BY <2>2 DEF EveryCharacterOnce
  <1> QED
    BY <1>1, Inductive, Spreads, PTL

------------------------------------------------------------------------------
(* The dispatcher at work with the database module.                         *)

\* What Service adds to the dispatcher: the constants and state of ConnPool.
CONSTANTS Game, Conn, NoConn, MaxCapacity, MaxQueries
VARIABLES pool, capacity, poolinitialized, poolcleanup, building, built, pc,
          held, open, leaked, queries

S == INSTANCE Service

\* The workers inside Service are these workers.
LEMMA SameWorker ==
    ASSUME NEW w \in Worker
    PROVE  /\ S!R!Dispatch(w) => Dispatch(w)
           /\ S!R!Store(w) => Store(w)
           /\ S!R!Callback(w) => Callback(w)
           /\ S!R!Finish(w) => Finish(w)
           /\ S!R!Exit(w) => Exit(w)
           /\ \A n \in Sizes : S!R!Call(w, n) => Call(w, n)
  <1> USE DEF S!R!gameVars, S!R!history, gameVars, history
  <1>1. S!R!Dispatch(w) => Dispatch(w)
    BY DEF S!R!Dispatch, Dispatch
  <1>2. S!R!Store(w) => Store(w)
    BY DEF S!R!Store, S!R!With, S!R!Whole, Store, With, Whole
  <1>3. S!R!Callback(w) => Callback(w)
    BY DEF S!R!Callback, S!R!Receive, S!R!Chars, S!R!Lose, S!R!Whole,
       Callback, Receive, Chars, Lose, Whole
  <1>4. S!R!Finish(w) => Finish(w)
    BY DEF S!R!Finish, S!R!Drained, S!R!Busy, Finish, Drained, Busy
  <1>5. S!R!Exit(w) => Exit(w)
    BY DEF S!R!Exit, Exit
  <1>6. \A n \in Sizes : S!R!Call(w, n) => Call(w, n)
    BY DEF S!R!Call, S!R!Lose, Call, Lose
  <1> QED
    BY <1>1, <1>2, <1>3, <1>4, <1>5, <1>6

\* The game's calls inside Service are these calls.
LEMMA SameCalls ==
    /\ S!R!Register => Register
    /\ S!R!Terminate => Terminate
    /\ S!R!Destroy => Destroy
    /\ \A i \in Id, k \in {"async", "callback", "quiet"} :
          S!R!Post(k, i) => Post(k, i)
    /\ S!R!Stopped => Stopped
    /\ S!R!Join => Join
    /\ S!R!Unloaded => Unloaded
  <1> USE DEF S!R!gameVars, S!R!threadVars, S!R!history, S!R!Reply, S!R!Empty,
         gameVars, threadVars, history, Reply, Empty
  <1>1. /\ S!R!Register => Register
        /\ S!R!Destroy => Destroy
    BY DEF S!R!Register, S!R!Destroy, Register, Destroy
  <1>2. S!R!Terminate => Terminate
    BY DEF S!R!Terminate, S!R!Drained, S!R!Busy, Terminate, Drained, Busy
  <1>3. \A i \in Id, k \in {"async", "callback", "quiet"} :
           S!R!Post(k, i) => Post(k, i)
    BY DEF S!R!Post, S!R!Fresh, Post, Fresh
  <1>4. S!R!Stopped => Stopped
    BY DEF S!R!Stopped, Stopped
  <1>5. /\ S!R!Join => Join
        /\ S!R!Unloaded => Unloaded
    BY DEF S!R!Join, S!R!Unloaded, S!R!AllJoined, Join, Unloaded, AllJoined
  <1> QED
    BY <1>1, <1>2, <1>3, <1>4, <1>5

\* A step of the threads with their queries is a step of the dispatcher, or
\* leaves it alone.
LEMMA StepDispatches == [S!ServiceNext]_(S!serviceVars) => [Next]_vars
  <1> SUFFICES ASSUME [S!ServiceNext]_(S!serviceVars) PROVE Next \/ UNCHANGED S!redexVars
    BY DEF S!redexVars, vars, threadVars, gameVars, history
  <1>1. ASSUME NEW w \in Worker, S!WorkerStep(w)
        PROVE  Next \/ UNCHANGED S!redexVars
    <2>1. CASE S!Dispatch(w)
      BY <2>1, SameWorker DEF S!Dispatch, Next, WorkerStep
    <2>2. CASE S!JobQuery(w)
      BY <2>2 DEF S!JobQuery
    <2>3. CASE S!Call(w)
      BY <2>3, SameWorker DEF S!Call, Next, WorkerStep
    <2>4. CASE S!AfterCall(w)
      BY <2>4, SameWorker DEF S!AfterCall, Next, WorkerStep
    <2> QED
      BY <1>1, <2>1, <2>2, <2>3, <2>4 DEF S!WorkerStep
  <1>2. CASE S!NewCall
    BY <1>2, SameCalls DEF S!NewCall, Next, NewCall
  <1>3. CASE S!NewDatabaseCall
    BY <1>3 DEF S!NewDatabaseCall
  <1>4. CASE S!InDatabase \/ S!CheckAgain
    BY <1>4 DEF S!InDatabase, S!CheckAgain
  <1>5. CASE S!Stopped \/ S!TerminateModules
    BY <1>5, SameCalls DEF S!Stopped, S!TerminateModules, Next, InCall
  <1>6. CASE UNCHANGED S!serviceVars
    BY <1>6 DEF S!serviceVars
  <1> QED
    BY <1>1, <1>2, <1>3, <1>4, <1>5, <1>6 DEF S!ServiceNext, S!GameStep

\* Jobs that query, and a game that runs initdb between its calls, still make
\* a dispatcher as Redex says: its invariants hold at work.
THEOREM ServiceDispatches == S!ServiceSpec => Spec
  <1>1. S!ServiceInit => Init
    BY DEF S!ServiceInit, S!R!Init, S!R!Empty, S!R!Reply, Init, Empty, Reply
  <1> QED
    BY <1>1, StepDispatches, PTL DEF S!ServiceSpec, Spec
==============================================================================
