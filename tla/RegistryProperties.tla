------------------------- MODULE RegistryProperties -------------------------
(***************************************************************************)
(* What the registry must be in memory, and what its callers may rely on.  *)
(***************************************************************************)
EXTENDS Registry, FiniteSets

(* The tokens from i to j, or from the first one on, by what they do to the depth. *)
Opens(m, i, j)  == Cardinality({k \in i .. j : m[k] = REG_HIVE_SIG_S})
Closes(m, i, j) == Cardinality({k \in i .. j : m[k] = REG_HIVE_SIG_E})
DepthAt(m, k)   == Opens(m, 1, k - 1) - Closes(m, 1, k - 1)

(* The tag that closes the hive opened at i, whatever its name looks like. *)
Closing(m, i) ==
  CHOOSE k \in i .. Len(m) :
    /\ m[k] = REG_HIVE_SIG_E /\ Opens(m, i, k) = Closes(m, i, k)
    /\ \A l \in i .. k - 1 : Opens(m, i, l) > Closes(m, i, l)

HiveStarts(m) == {i \in DOMAIN m : m[i] = REG_HIVE_SIG_S}
CellsAt(m)    == {i \in DOMAIN m : m[i].w = "CELL"}

(* The tree the stream stands for: the paths of its hives, and its cells. *)
TreeOf(m) ==
  LET tree[i \in 0 .. Len(m)] ==
        LET s == tree[i - 1]
        IN  CASE i = 0 -> [path |-> <<>>, hives |-> {}, cells |-> {}]
              [] i > 1 /\ m[i] = REG_HIVE_SIG_S ->
                   LET path == Append(s.path, m[i + 1].w)
                   IN  [s EXCEPT !.path = path, !.hives = @ \cup {path}]
              [] i > 1 /\ m[i] = REG_HIVE_SIG_E /\ s.path # <<>> -> [s EXCEPT !.path = Front(@)]
              [] i > 1 /\ m[i].w = "CELL" ->
                   [s EXCEPT !.cells = @ \cup {[path |-> Append(s.path, m[i].name), v |->
                      [type |-> m[i].type, len |-> m[i].len, data |-> m[i].data]]}]
              [] OTHER -> s
  IN  tree[Len(m)]

-----------------------------------------------------------------------------
(* A name whose first dword is that of a signature is taken for a tag by the
   walks.  The others are the names the registry can tell from its tags. *)
SigWords   == {"HIVE", "CELL", "EVIH", "ESAB"}
PlainName  == ({"System"} \cup UNION {{p[i] : i \in DOMAIN p} : p \in Paths}) \ SigWords
PlainPaths == Paths \subseteq Seq(PlainName)

-----------------------------------------------------------------------------
(* Invariants *)

(* Calls never leave anything but a thread in a call, the lock, and a stream
   of tokens with its sizes. *)
TypeOK ==
  /\ reg.size \in Nat /\ reg.length \in SIZEOF_BASE .. reg.size
  /\ block \in Nat \ {0} /\ Len(freed) = block - 1
  /\ reg_spinlock \in BOOLEAN
  /\ pc \in [Threads -> {"idle", "lock", "unlock", "halt"}]
  /\ \A t \in Threads : pc[t] = "idle" <=> call[t] = NoCall

Inside(t) == pc[t] \in {"unlock", "halt"}

(* A thread that is at work on the registry, or was when everything stopped,
   holds reg_spinlock, and is the only one. *)
RegistryMutualExclusion ==
  /\ \A t, u \in Threads : Inside(t) /\ Inside(u) => t = u
  /\ \A t \in Threads : Inside(t) => reg_spinlock

(* The hives of the stream are nested: one System hive with everything in it
   and the base end behind it, every other hive in a hive, and the depth that
   is written in a hive its depth. *)
StreamNested ==
  LET m == reg.m
  IN  /\ m[1] = REG_HIVE_SIG_S /\ m[Len(m)] = REG_BASE_SIG_E
      /\ \A k \in 1 .. Len(m) : DepthAt(m, k) = 0 <=> k \in {1, Len(m)}
      /\ \A i \in HiveStarts(m) : m[i + 1].n = 10 /\ m[i + 1].depth = DepthAt(m, i)

(* No two items of a kind have one name in one hive. *)
NamesUnique ==
  LET m == reg.m
  IN  /\ Cardinality(TreeOf(m).hives) = Cardinality(HiveStarts(m)) - 1
      /\ Cardinality({c.path : c \in TreeOf(m).cells}) = Cardinality(CellsAt(m))

(* The stream is a tree, which every write and remove must leave it: nested
   hives, and no two items of a kind with a name in one hive. *)
StreamIsTree == StreamNested /\ NamesUnique

(* base->length is the header and the dwords of the stream: what a write or a
   remove moves is counted when it is added and when it goes. *)
LengthExact == reg.length = SIZEOF_BASE + Words(reg.m)

(* The checksum in the base is that of the registry, but for the size: a write
   that reallocates changes size after the checksum is set. *)
ChecksumStaleBySizeOnly ==
  Running =>
    \/ reg.crc = crc32(reg)
    \/ reg.crc = [crc32(reg) EXCEPT !.size = @ - REG_GROW]

(* Between calls there is room for a cell with the largest data in a hive that
   exists: a write whose path exists never aborts. *)
RoomForOneCell == Running => reg.size - reg.length >= ItemWords(REG_MAX_SIZE)

(* No call ever aborts: "this shouldn't happen because we check for this
   after a write is done". *)
NeverOutOfRoom == Running

(* "this find the ending hive tag for this generation": the walk to the end of
   a hive ends at the tag that closes it. *)
EndTagIsOwn == \A i \in HiveStarts(reg.m) : FindEndTag(reg.m, i) = Closing(reg.m, i)

-----------------------------------------------------------------------------
(* Action properties *)

Returns(t, op) == pc[t] = "lock" /\ call[t].op = op /\ pc'[t] = "unlock"

(* remove returns 1 if and only if the item was there, and then it is gone or,
   when it was a cell, a hive of that name is left: unless the registry has
   been moved since the call began. *)
RemoveTrue(t) ==
  Returns(t, "remove") =>
    LET there == Valid(t) /\ Exists(reg.m, Path(t))
        wasCell == there /\ FindIn(reg.m, Path(t), "CELL") # NULL
    IN  /\ answer'[t].ret = 1 <=> there
        /\ there => FindIn(reg'.m, Path(t), "CELL") = NULL
        /\ there /\ ~wasCell => ~Exists(reg'.m, Path(t))

RemoveTrueUnlessMoved == [][\A t \in Threads : call[t].op = "remove" /\ call[t].base = block => RemoveTrue(t)]_vars

(* "returns 1 if successful, returns 0 if unsuccessful", of every remove. *)
RemoveAlwaysTrue == [][\A t \in Threads : RemoveTrue(t)]_vars

-----------------------------------------------------------------------------
(* The registry implements the abstract registry. *)

hivesOf == TreeOf(reg.m).hives
cellsOf ==
  LET C == TreeOf(reg.m).cells
  IN  [q \in {c.path : c \in C} |-> (CHOOSE c \in C : c.path = q).v]

Abstract == INSTANCE AbstractRegistry WITH
  hives <- hivesOf, cells <- cellsOf,
  Paths <- {ParsePath(p) : p \in {p \in Paths : ValidPath(p)}}

(* The exception: a write with a path that names nothing stores nothing, and answers
   the length of what it was given. *)
NamelessWrite(t) ==
  /\ call[t].op = "write" /\ ~Valid(t)
  /\ Abstract!Answers(t, [op |-> "write", path |-> <<>>, ret |-> call[t].v.len])
  /\ hivesOf' = hivesOf /\ cellsOf' = cellsOf

(* Every call takes effect in one step on a tree of values, and answers what
   that tree says: hives made on the way, a cell replaced, a cell or a hive
   removed with all that is in it.  A write whose path names nothing answers wrong. *)
ImplementsAbstractRegistry ==
  /\ Abstract!Init
  /\ [][Abstract!Next \/ \E t \in Threads : NamelessWrite(t)]_<<hivesOf, cellsOf, answer>>

(* "returns length of data written successful, returns 0 if unsuccessful", of every
   write: when it returns anything else, the value is there. *)
UnwrittenAnswersZero ==
  [][\A t \in Threads :
       Returns(t, "write") /\ answer'[t].ret # 0 =>
         /\ Valid(t) /\ Path(t) \in DOMAIN cellsOf'
         /\ cellsOf'[Path(t)] = Stored(call[t].v)]_vars

=============================================================================
