---------------------------- MODULE MCUtilities ----------------------------
EXTENDS Utilities

(* A socket of two ports, and two USB2 ports without a companion. *)
Whole == <<[version |-> 2, first |-> 0, count |-> 1], [version |-> 3, first |-> 1, count |-> 1]>>
Lone  == <<[version |-> 2, first |-> 0, count |-> 2]>>

SomeLayouts == {Whole, Lone}
SomeFiles   == 0 .. 9
SomeMoves   == {-128, 70}

(* Free memory before and behind a region in use. *)
SomeRegions == <<[base |-> 16, magic |-> "FREE"], [base |-> 400, magic |-> "USED"],
                 [base |-> 480, magic |-> "FREE"]>>

(* Files of no cluster and of three, and folders, one of them in another. *)
SomeFile(clusters, slots) ==
  [folder |-> FALSE, clusters |-> clusters, slots |-> slots, inside |-> <<>>]
SomeFolder(inside) == [folder |-> TRUE, clusters |-> 0, slots |-> 2, inside |-> inside]
SomeHost ==
  [empty |-> SomeFile(0, 2), long |-> SomeFile(3, 3),
   inner |-> SomeFolder(<<>>), outer |-> SomeFolder(<<"inner", "long">>)]
=============================================================================
