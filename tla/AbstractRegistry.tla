-------------------------- MODULE AbstractRegistry --------------------------
(***************************************************************************)
(* What the registry promises its callers: a tree of hives with values in  *)
(* it, which every call reads or changes in one step.                      *)
(***************************************************************************)
EXTENDS Integers, Sequences, SequencesExt, Functions

CONSTANTS Threads, Paths, Values, ReadSizes

VARIABLES
  hives,    \* the paths of the hives other than System
  cells,    \* path -> value
  answer    \* thread -> what its call is about to return

ParentsOf(path) == {SubSeq(path, 1, i) : i \in 1 .. Len(path) - 1}
Within(path, q) == IsPrefix(path, q)

Init == hives = {} /\ cells = <<>> /\ answer = [t \in Threads |-> [op |-> "none"]]

Answers(t, r) == answer' = [answer EXCEPT ![t] = r]

(* A hive does not change into a cell; the hives on the way are made even so. *)
WriteValue(t, path, v) ==
  /\ Answers(t, [op |-> "write", path |-> path, ret |-> IF path \in hives THEN 0 ELSE v.len])
  /\ hives' = hives \cup ParentsOf(path)
  /\ cells' = IF path \in hives THEN cells
              ELSE [q \in DOMAIN cells \cup {path} |-> IF q = path THEN v ELSE cells[q]]

(* A cell, or if there is none a hive with all that is within it. *)
RemoveItem(t, path) ==
  LET gone == IF path \in DOMAIN cells THEN {path}
              ELSE {q \in hives \cup DOMAIN cells : path \in hives /\ Within(path, q)}
  IN  /\ Answers(t, [op |-> "remove", path |-> path, ret |-> IF gone = {} THEN 0 ELSE 1])
      /\ hives' = IF path \in DOMAIN cells THEN hives ELSE hives \ gone
      /\ cells' = Restrict(cells, DOMAIN cells \ gone)

LookUp(t, path) ==
  /\ Answers(t, [op |-> "exist", path |-> path,
                 ret |-> IF path \in hives \cup DOMAIN cells THEN 1 ELSE 0])
  /\ UNCHANGED <<hives, cells>>

(* A string or a block of bytes is cut to what the caller has room for; a
   number is read whole or not at all, and an empty cell has nothing to read. *)
Readable(path, type, max) ==
  /\ path \in DOMAIN cells
  /\ cells[path].type = type
  /\ type # "Exist"
  /\ type \in {"Str", "Bin"} \/ cells[path].len <= max

ReadValue(t, path, type, max) ==
  /\ IF Readable(path, type, max)
     THEN Answers(t, [op |-> "read", path |-> path, data |-> cells[path].data,
                      ret |-> IF cells[path].len < max THEN cells[path].len ELSE max])
     ELSE Answers(t, [op |-> "read", path |-> path, data |-> 0, ret |-> 0])
  /\ UNCHANGED <<hives, cells>>

(* What is stored of a value: a boolean is 0 or 1. *)
Meaning(v) == [v EXCEPT !.data = IF v.type = "Bool" THEN (IF @ = 0 THEN 0 ELSE 1) ELSE @]

(* A caller has got its answer. *)
Taken(t) == Answers(t, [op |-> "none"]) /\ UNCHANGED <<hives, cells>>

(* A call with a path that names nothing changes nothing, and says so. *)
Nothing(t) ==
  /\ \/ \E op \in {"write", "remove", "exist"} :
          Answers(t, [op |-> op, path |-> <<>>, ret |-> 0])
     \/ Answers(t, [op |-> "read", path |-> <<>>, data |-> 0, ret |-> 0])
  /\ UNCHANGED <<hives, cells>>

Next ==
  \E t \in Threads :
    \/ Nothing(t) \/ Taken(t)
    \/ \E path \in Paths :
         \/ LookUp(t, path)
         \/ RemoveItem(t, path)
         \/ \E v \in Values : WriteValue(t, path, Meaning(v))
         \/ \E v \in Values, max \in ReadSizes : ReadValue(t, path, v.type, max)

Spec == Init /\ [][Next]_<<hives, cells, answer>>
=============================================================================
