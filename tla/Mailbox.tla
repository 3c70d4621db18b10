------------------------------- MODULE Mailbox -------------------------------
(***************************************************************************)
(* What the message store of LibRedex promises to the one game thread that *)
(* empties it, however its calls are built from several critical sections: *)
(* every operation takes effect at one instant.                            *)
(*                                                                         *)
(*   box   : the message object of each identifier, a queue of pieces      *)
(*   reply : what the last operation of the game thread produced           *)
(*                                                                         *)
(* A piece is a run of consecutive characters of one content.              *)
(***************************************************************************)
EXTENDS Naturals, Sequences

CONSTANTS Id,       \* the identifiers (uuids)
          Empty     \* the empty string

VARIABLES box, reply

Reply(k, i, p) == [kind |-> k, id |-> i, piece |-> p]

\* The kinds of a reply that take nothing out of the store.
Plain == {"none", "ticket", "error", "text", "terminated"}

Length(p) == p.hi + 1 - p.lo

\* Removing or adding a message object.
Without(b, i) == [j \in DOMAIN b \ {i} |-> b[j]]
With(b, i, q) == [j \in DOMAIN b \cup {i} |-> IF j = i THEN q ELSE b[j]]

\* The queue q holds, in order and without a gap or an overlap, what
\* follows the piece first in the piece whole.
Tiles(whole, first, q) ==
    /\ first.of = whole.of /\ first.lo = whole.lo
    /\ \A k \in 1..Len(q) :
          /\ q[k].of = whole.of
          /\ q[k].lo = IF k = 1 THEN first.hi + 1 ELSE q[k - 1].hi + 1
    /\ q # << >>
    /\ q[Len(q)].hi = whole.hi

------------------------------------------------------------------------------
Init == /\ box = [i \in {} |-> << >>]
        /\ reply.kind = "none"

\* A worker answers ticket i, with the whole of i's own result.
Put(i) == /\ i \notin DOMAIN box
          /\ DOMAIN box' = DOMAIN box \cup {i}
          /\ box' = With(box, i, box'[i])
          /\ Len(box'[i]) = 1
          /\ box'[i][1].of = i /\ box'[i][1].lo = 1
          /\ UNCHANGED reply

\* rcvmsg: the next piece, in order, leaves the store.
Fetch(i) == /\ i \in DOMAIN box
            /\ box[i] # << >>
            /\ box' = [box EXCEPT ![i] = Tail(@)]
            /\ reply' = Reply("piece", i, Head(box[i]))

\* rcvmsg: the last piece was taken, the object goes.
Finish(i) == /\ i \in DOMAIN box
             /\ box[i] = << >>
             /\ box' = Without(box, i)
             /\ reply' = Reply("done", i, Empty)

\* rcvasmsg: the object goes and its first piece is the answer.
Take(i) == /\ i \in DOMAIN box
           /\ box' = Without(box, i)
           /\ reply' = Reply("piece", i,
                             IF box[i] = << >> THEN Empty ELSE Head(box[i]))

\* chkmsg, and the two receiving calls for an unknown identifier.
Look(i) == /\ reply'.kind = IF i \in DOMAIN box THEN "exists" ELSE "missing"
           /\ reply'.id = i
           /\ UNCHANGED box

\* An answer too large for the game's buffer: the head of it is the reply,
\* all the rest waits under a fresh identifier.
Overflow(i) ==
    /\ reply.kind \in {"piece", "text"}
    /\ i \notin DOMAIN box
    /\ reply'.kind = "multipart" /\ reply'.id = i
    /\ DOMAIN box' = DOMAIN box \cup {i}
    /\ box' = With(box, i, box'[i])
    /\ Tiles(reply.piece, reply'.piece, box'[i])

\* Anything else the extension says touches no message object.
Say == /\ reply'.kind \in Plain
       /\ UNCHANGED box

Next == \/ \E i \in Id : \/ Put(i) \/ Fetch(i) \/ Finish(i) \/ Take(i)
                         \/ Look(i) \/ Overflow(i)
        \/ Say

vars == << box, reply >>
Spec == Init /\ [][Next]_vars
==============================================================================
