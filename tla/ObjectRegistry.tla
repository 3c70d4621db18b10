----------------------------- MODULE ObjectRegistry -----------------------------
(***************************************************************************)
(* What the table world_has_objects promises of an object in a world: it   *)
(* enters alive, it dies in all worlds at once, and where it died it does  *)
(* not come back, but for an object whose links are all given up first.    *)
(* ObjectStore implements this.                                            *)
(***************************************************************************)
EXTENDS FiniteSets

CONSTANTS World, Object

VARIABLE status     \* << world, object >> -> "none", "live" or "dead"

Places(o) == {s \in World : status[<< s, o >>] # "none"}

Init == status = [r \in World \X Object |-> "none"]

\* createObject, createObjectWorldLink
Enter(s, o) ==
    /\ status[<< s, o >>] = "none"
    /\ status' = [status EXCEPT ![<< s, o >>] = "live"]

\* killObject
Die(o) ==
    status' = [r \in World \X Object |->
        IF r[2] = o /\ status[r] = "live" THEN "dead" ELSE status[r]]

\* updateObjectWorldLink: only an object with one place can be moved.
Move(s, t, o) ==
    /\ Places(o) = {s}
    /\ status' = [status EXCEPT ![<< s, o >>] = "none",
                                ![<< t, o >>] = status[<< s, o >>]]

\* deleteObjectWorldLink
Leave(o) ==
    status' = [r \in World \X Object |-> IF r[2] = o THEN "none" ELSE status[r]]

Next == \E o \in Object :
            \/ Die(o) \/ Leave(o)
            \/ \E s, t \in World : Enter(s, o) \/ Move(s, t, o)

Spec == Init /\ [][Next]_status
==============================================================================
