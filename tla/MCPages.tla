------------------------------ MODULE MCPages ------------------------------
(* One list whose gestures may overlap (MCPagesList.cfg), a list and a reused *)
(* cell that share the queues (MCPagesMixed.cfg).                             *)
EXTENDS PageLists, TLC

CONSTANTS a, b

MCSources == {a, b}
OneList   == {a}
OwnUrl    == (a :> "activity-list") @@ (b :> "carlist-interface")
ListOnly  == a :> {"refresh", "scroll", "leave"}
ListAndCell == (a :> {"refresh", "scroll", "leave"}) @@ (b :> {"rebind"})
=============================================================================
