------------------------------ MODULE Registry ------------------------------
(***************************************************************************)
(* The calls of registry.c by several threads.  Everything but one read of *)
(* kernel_reg happens with reg_spinlock held, so a call is three steps:    *)
(* it begins, it does its work once it has the lock, and it unlocks.       *)
(* registry_remove reads kernel_reg before it locks: by then a write may   *)
(* have moved the registry with realloc, and remove works on memory that   *)
(* has been freed.                                                         *)
(***************************************************************************)
EXTENDS RegistryStream

CONSTANTS
  Threads,
  Paths,       \* paths callers pass: sequences of names, "" a bad one
  Values,      \* [type, len, data], what callers write
  ReadSizes,   \* room a caller has for what it reads, in dwords
  InitialSize, \* what allocate_initialize_registry is given, in dwords
  MaxTokens,   \* bound: no write begins when the stream is longer
  MaxBlocks    \* bound: no write begins when realloc has moved it so often

ASSUME RegistryAssumption ==
  /\ InitialSize \in Nat /\ InitialSize - 25 >= Reserve /\ REG_GROW >= Reserve
  /\ \A v \in Values : DOMAIN v = {"type", "len", "data"} /\ v.len \in 0 .. REG_MAX_SIZE

(* The values of registry_write_boolean and the like are one dword or two; only
   what registry_write_exist writes, and blocks of bytes, may be of none. *)
ASSUME ReadAssumption ==
  /\ ReadSizes \subseteq Nat
  /\ \A v \in Values : v.len = 0 => v.type \in {"Exist", "Str", "Bin"}

VARIABLES
  reg,            \* the block kernel_reg points to, as RegistryStream has it
  block,          \* which block of memory that is
  freed,          \* what the blocks held that realloc has freed
  reg_spinlock,
  pc,             \* "idle", "lock", "unlock", or "halt" after abort() or a wreck
  call,           \* the call in progress, with its local variable base
  answer          \* what the call of a thread is about to return

vars == <<reg, block, freed, reg_spinlock, pc, call, answer>>

NoCall == [op |-> "none"]

Init ==
  /\ reg = EmptyRegistry(InitialSize)
  /\ block = 1
  /\ freed = <<>>
  /\ reg_spinlock = FALSE
  /\ pc = [t \in Threads |-> "idle"]
  /\ call = [t \in Threads |-> NoCall]
  /\ answer = [t \in Threads |-> NoCall]

Running == \A t \in Threads : pc[t] # "halt"

-----------------------------------------------------------------------------
(* The beginning of a call, up to the spinlock. *)

Begin(t, c) ==
  /\ Running
  /\ pc[t] = "idle"
  /\ pc' = [pc EXCEPT ![t] = "lock"]
  /\ call' = [call EXCEPT ![t] = c]
  /\ UNCHANGED <<reg, block, freed, reg_spinlock, answer>>

CallWrite(t) ==
  /\ Len(reg.m) <= MaxTokens /\ block <= MaxBlocks
  /\ \E path \in Paths, v \in Values : Begin(t, [op |-> "write", path |-> path, v |-> v])

CallRead(t) ==
  \E path \in Paths, v \in Values, max \in ReadSizes :
    Begin(t, [op |-> "read", path |-> path, type |-> v.type, max |-> max])

CallExist(t) == \E path \in Paths : Begin(t, [op |-> "exist", path |-> path])

(* base is read here, before the lock is taken. *)
CallRemove(t) == \E path \in Paths : Begin(t, [op |-> "remove", path |-> path, base |-> block])

-----------------------------------------------------------------------------
(* The work of a call, with the lock held. *)

(* What is stored of a value: a boolean is 0 or 1. *)
Stored(v) == [v EXCEPT !.data = IF v.type = "Bool" /\ @ # 0 THEN 1 ELSE @]

SpinLock == ~reg_spinlock /\ reg_spinlock' = TRUE

Enter(t, op) ==
  /\ Running
  /\ pc[t] = "lock"
  /\ call[t].op = op
  /\ SpinLock

Return(t, r) ==
  /\ pc' = [pc EXCEPT ![t] = "unlock"]
  /\ answer' = [answer EXCEPT ![t] = r]
  /\ UNCHANGED call

Path(t) == ParsePath(call[t].path)
Valid(t) == ValidPath(call[t].path)
Named(t) == IF Valid(t) THEN Path(t) ELSE <<>>
Answer(t, ret) == [op |-> call[t].op, path |-> Named(t), ret |-> ret]

Slip_registry_exist(t) ==
  /\ Running
  /\ pc[t] = "lock"
  /\ call[t].op = "exist"
  /\ Return(t, Answer(t, IF Valid(t) /\ Exists(reg.m, Path(t)) THEN 1 ELSE 0))
  /\ UNCHANGED <<reg, block, freed, reg_spinlock>>

registry_exist(t) ==
  /\ Enter(t, "exist")
  /\ Return(t, Answer(t, IF Valid(t) /\ Exists(reg.m, Path(t)) THEN 1 ELSE 0))
  /\ UNCHANGED <<reg, block, freed>>

(* The length a caller is told, and 0 if there is nothing for it. *)
ReadLength(cell, type, max) ==
  IF cell.type # type \/ type = "Exist" THEN 0
  ELSE IF type \in {"Str", "Bin"} THEN IF cell.len < max THEN cell.len ELSE max
  ELSE IF max >= cell.len THEN cell.len ELSE 0

registry_read(t) ==
  LET at == IF Valid(t) THEN FindIn(reg.m, Path(t), "CELL") ELSE NULL
      ret == IF at = NULL THEN 0 ELSE ReadLength(reg.m[at], call[t].type, call[t].max)
      copied == at # NULL /\ reg.m[at].type = call[t].type /\ call[t].type # "Exist"
                /\ (ret > 0 \/ call[t].type \in {"Str", "Bin"})
  IN  /\ Enter(t, "read")
      /\ Return(t, [op |-> "read", path |-> Named(t), data |-> IF copied THEN reg.m[at].data ELSE 0,
                    ret |-> ret])
      /\ UNCHANGED <<reg, block, freed>>

Slip_Enlarged(base) == [base EXCEPT !.size = REG_GROW]
Enlarged(base) == [base EXCEPT !.size = @ + REG_GROW]

(* The reserve is restored after the checksum; realloc may move the block. *)
Grow(base) ==
  IF LowOnRoom(base)
  THEN /\ reg' = Enlarged(base)
       /\ \/ UNCHANGED <<block, freed>>
          \/ block' = block + 1 /\ freed' = Append(freed, base.m)
  ELSE reg' = base /\ UNCHANGED <<block, freed>>

(* abort() stops everything with the lock held, and the memory is gone. *)
Halt(t) == pc' = [pc EXCEPT ![t] = "halt"] /\ UNCHANGED <<call, answer>>

registry_write(t) ==
  LET path == Path(t)
      v    == Stored(call[t].v)
      s    == AddHives(reg, path)
      clash == FindItem(s.base.m, s.pos, Last(path), "HIVE") # NULL
      s2   == IF s.aborted \/ clash THEN s ELSE ReplaceCell(s, Last(path), v)
  IN  /\ Enter(t, "write")
      /\ IF ~Valid(t) THEN Return(t, Answer(t, v.len)) /\ UNCHANGED <<reg, block, freed>>
         ELSE IF s2.aborted
              THEN Halt(t) /\ UNCHANGED <<reg, block, freed>>
              ELSE Return(t, Answer(t, IF clash THEN 0 ELSE v.len)) /\ Grow(Checked(s2.base))

Slip_Found(m, path) ==
  LET hive == FindIn(m, path, "HIVE")
  IN  IF hive # NULL THEN hive ELSE FindIn(m, path, "CELL")

(* The item remove finds: a cell before a hive of the same name. *)
Found(m, path) ==
  LET cell == FindIn(m, path, "CELL")
  IN  IF cell # NULL THEN cell ELSE FindIn(m, path, "HIVE")

registry_remove(t) ==
  LET at == IF Valid(t) THEN Found(reg.m, Path(t)) ELSE NULL
  IN  /\ Enter(t, "remove")
      /\ call[t].base = block
      /\ Return(t, Answer(t, IF at = NULL THEN 0 ELSE 1))
      /\ reg' = IF ~Valid(t) THEN reg
                ELSE Checked(IF at = NULL THEN reg ELSE registry_remove_item(reg, at))
      /\ UNCHANGED <<block, freed>>

(* remove with the address of a block that was freed.  If the memory still
   holds the old registry, and the item is not in it, its header is written
   and 0 returned; if the item is in it the count of dwords to move is the
   distance of two unrelated blocks, and the registry is wrecked. *)
RemoveStale(t) ==
  LET at == IF Valid(t) THEN Found(freed[call[t].base], Path(t)) ELSE NULL
  IN  /\ Enter(t, "remove")
      /\ call[t].base # block
      /\ IF at # NULL THEN Halt(t) ELSE Return(t, Answer(t, 0))
      /\ UNCHANGED <<reg, block, freed>>

(* The caller gets its answer. *)
Unlock(t) ==
  /\ Running
  /\ pc[t] = "unlock"
  /\ reg_spinlock' = FALSE
  /\ pc' = [pc EXCEPT ![t] = "idle"]
  /\ call' = [call EXCEPT ![t] = NoCall]
  /\ answer' = [answer EXCEPT ![t] = NoCall]
  /\ UNCHANGED <<reg, block, freed>>

Next ==
  \E t \in Threads :
    \/ CallWrite(t) \/ CallRead(t) \/ CallExist(t) \/ CallRemove(t)
    \/ registry_write(t) \/ registry_read(t) \/ registry_exist(t)
    \/ registry_remove(t) \/ RemoveStale(t)
    \/ Unlock(t)

Spec == Init /\ [][Next]_vars
=============================================================================
