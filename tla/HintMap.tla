------------------------------- MODULE HintMap -------------------------------
(***************************************************************************)
(* What the table of size hints is for: one desired size per display key.  *)
(* The display handler sets the size of a key and withdraws keys; stopping *)
(* the device withdraws them all.                                          *)
(***************************************************************************)
CONSTANTS Keys, Sizes, NoSize

VARIABLE map    \* for each key its desired size, or NoSize

Init == map = [k \in Keys |-> NoSize]

Put(k, s) == map' = [map EXCEPT ![k] = s]

Withdraw(gone) == map' = [k \in Keys |-> IF k \in gone THEN NoSize ELSE map[k]]

Next ==
    \/ \E k \in Keys, s \in Sizes : Put(k, s)
    \/ \E gone \in SUBSET Keys : Withdraw(gone)

Spec == Init /\ [][Next]_map
=============================================================================
