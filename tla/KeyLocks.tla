------------------------------ MODULE KeyLocks ------------------------------
(***************************************************************************)
(* What the scheduler promises about keys, whatever it does to get there:  *)
(* a key is free or has one owner, it is taken only while it is free, and  *)
(* it is given back before anybody else takes it.                          *)
(***************************************************************************)
CONSTANTS
    Key, Owner,   \* Free is not an Owner, System is one
    Free, System,
    ConfigOwned   \* the keys that belong to System at the start

VARIABLE owner

TypeOK == owner \in [Key -> Owner \cup {Free}]

Init == owner = [k \in Key |-> IF k \in ConfigOwned THEN System ELSE Free]

Take(k, o) == owner[k] = Free /\ owner' = [owner EXCEPT ![k] = o]
GiveBack(k) == owner[k] # Free /\ owner' = [owner EXCEPT ![k] = Free]

Next == \E k \in Key : GiveBack(k) \/ \E o \in Owner : Take(k, o)

Spec == Init /\ [][Next]_owner
=============================================================================
