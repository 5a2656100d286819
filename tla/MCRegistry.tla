----------------------------- MODULE MCRegistry -----------------------------
(* Instances of Registry for TLC. *)
EXTENDS RegistryProperties

CONSTANTS t1, t2

Flag  == [type |-> "Bool", len |-> 1, data |-> 2]
Count == [type |-> "Int", len |-> 1, data |-> 1]
Mark  == [type |-> "Exist", len |-> 0, data |-> 0]
Large == [type |-> "Bin", len |-> REG_MAX_SIZE, data |-> 3]

SomeValues == {Flag, Mark, Large}
OneValue   == {Large}
TwoValues  == {Count, Large}

(* Paths with and without System, one that is only System, one that is too
   deep, and a bad one. *)
TreePaths == {<<"a">>, <<"System", "b">>, <<"a", "b", "a">>, <<"System">>, <<"a", "">>}
FewPaths  == {<<"a">>, <<"b">>, <<"a", "b">>}
NamePaths == {<<"a">>, <<"EVIH", "a">>}

(* The first two have plain names only, which is what the theorems about
   Registry suppose of Paths. *)
ASSUME PathsArePlain ==
  \A p \in TreePaths \cup FewPaths : \A i \in DOMAIN p : p[i] \notin SigWords
=============================================================================
