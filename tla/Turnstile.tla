------------------------------ MODULE Turnstile ------------------------------
(***************************************************************************)
(* What a user's gate promises the handlers behind it: visitors go in when *)
(* nobody is inside and leave again, at times of their own.                *)
(***************************************************************************)
CONSTANT Visitors

VARIABLE inside   \* the visitors that are inside

Init == inside = {}

Enter(v) == inside = {} /\ inside' = {v}

Leave(v) == inside = {v} /\ inside' = {}

Next == \E v \in Visitors : Enter(v) \/ Leave(v)

Spec == Init /\ [][Next]_inside
=============================================================================
