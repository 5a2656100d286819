--------------------------- MODULE RegistryStream ---------------------------
(***************************************************************************)
(* The memory of the registry: one block that holds a header and, behind   *)
(* it, hives and cells written one after the other,                        *)
(*                                                                         *)
(*    HIVE System ... CELL c ... HIVE h ... EVIH ... EVIH ESAB             *)
(*                                                                         *)
(* found again only by walking it.  The stream is a sequence of tokens.  A *)
(* token stands for .n dwords, and .w is the first of them, which is all a *)
(* walk looks at.  A name is represented by its first dword: the C name    *)
(* "HIVE" is the token "EVIH", for 'EVIH' is that dword on a little-endian *)
(* machine.  A cell is one token, since every walk steps over all of it.   *)
(***************************************************************************)
EXTENDS Integers, Sequences, SequencesExt

CONSTANTS
  REG_MAX_SIZE,         \* the largest data of a cell, in dwords
  REG_NAME_DEPTH_MAX,   \* names of a path that are looked at
  REG_GROW              \* what realloc adds, in dwords

ASSUME SizeAssumption ==
  REG_MAX_SIZE \in Nat /\ REG_NAME_DEPTH_MAX \in Nat \ {0} /\ REG_GROW \in Nat

NULL == 0   \* no position of the stream

REG_HIVE_SIG_S == [w |-> "HIVE", n |-> 1]
REG_HIVE_SIG_E == [w |-> "EVIH", n |-> 1]
REG_BASE_SIG_E == [w |-> "ESAB", n |-> 1]
HiveName(name, depth) == [w |-> name, n |-> 10, depth |-> depth]

ItemWords(len) == 12 + len
Cell(name, type, len, data) ==
  [w |-> "CELL", n |-> ItemWords(len), name |-> name, type |-> type, len |-> len, data |-> data]

SIZEOF_BASE == 12

-----------------------------------------------------------------------------
(* The base: the stream, the allocated and the used size in dwords, and the
   checksum.  crc32 is taken to tell all contents apart: it is represented by
   what it is computed over. *)
crc32(base) == [m |-> base.m, size |-> base.size, length |-> base.length]
Slip_Checked(base) == [base EXCEPT !.crc = [crc32(base) EXCEPT !.length = @ - 1]]
Checked(base) == [base EXCEPT !.crc = crc32(base)]

EmptyRegistry(size) ==
  LET m == <<REG_HIVE_SIG_S, HiveName("System", 0), REG_HIVE_SIG_E, REG_BASE_SIG_E>>
  IN  Checked([m |-> m, size |-> size, length |-> SIZEOF_BASE + 13, crc |-> {}])

(* registry_parse_path: the names of a path, the first "System" left out.  A
   name that is empty or too long is "", and such a path is not valid; names
   beyond the depth limit are never looked at. *)
Stripped(path)  == IF path # <<>> /\ Head(path) = "System" THEN Tail(path) ELSE path
ParsePath(path) == LET p == Stripped(path)
                   IN  SubSeq(p, 1, IF Len(p) < REG_NAME_DEPTH_MAX THEN Len(p) ELSE REG_NAME_DEPTH_MAX)
ValidPath(path) == LET p == ParsePath(path) IN p # <<>> /\ \A i \in DOMAIN p : p[i] # ""

-----------------------------------------------------------------------------
(* The walks. *)

(* The child of the hive at pos with this name and this opening tag, or NULL. *)
FindItem(m, pos, name, sig) ==
  LET walk[i \in DOMAIN m] ==
        [depth \in Nat |->
          CASE m[i].w = "HIVE" ->
                 IF depth = 1 /\ sig = "HIVE" /\ m[i + 1].w = name THEN i
                 ELSE walk[i + 2][depth + 1]
            [] m[i].w = "CELL" ->
                 IF depth = 1 /\ sig = "CELL" /\ m[i].name = name THEN i
                 ELSE walk[i + 1][depth]
            [] m[i].w = "EVIH" -> IF depth <= 1 THEN NULL ELSE walk[i + 1][depth - 1]
            [] OTHER -> NULL]
  IN  walk[pos][0]

(* The end tag of the hive at pos.  This walk looks at every dword of a hive,
   its name too, and leaps only over cells. *)
FindEndTag(m, pos) ==
  LET walk[i \in DOMAIN m] ==
        [depth \in Nat |->
          CASE m[i].w = "HIVE" -> walk[i + 1][depth + 1]
            [] m[i].w = "EVIH" -> IF depth > 0 THEN walk[i + 1][depth - 1] ELSE i
            [] m[i].w = "ESAB" -> i
            [] OTHER -> walk[i + 1][depth]]
  IN  walk[pos + 1][0]

(* The hive the names lead to from the first one, or NULL. *)
FindHive(m, names) ==
  LET at[i \in 0 .. Len(names)] ==
        IF i = 0 THEN 1
        ELSE IF at[i - 1] = NULL THEN NULL ELSE FindItem(m, at[i - 1], names[i], "HIVE")
  IN  at[Len(names)]

FindIn(m, path, sig) ==
  LET pos == FindHive(m, Front(path))
  IN  IF pos = NULL THEN NULL ELSE FindItem(m, pos, Last(path), sig)

Exists(m, path) == FindIn(m, path, "CELL") # NULL \/ FindIn(m, path, "HIVE") # NULL

-----------------------------------------------------------------------------
(* Changes.  A write works on a record s of the base, the hive it has reached
   and whether registry_move_forward has found no room and called abort(). *)

HasRoom(base, extra) == base.size - base.length >= ItemWords(extra)

Inserted(base, at, tokens, extra) ==
  [base EXCEPT !.m = SubSeq(@, 1, at - 1) \o tokens \o SubSeq(@, at, Len(@)),
               !.length = @ + ItemWords(extra)]

registry_add_hive(s, name, depth) ==
  LET at == FindEndTag(s.base.m, s.pos)
  IN  IF HasRoom(s.base, 0)
      THEN [s EXCEPT !.base = Inserted(@, at, <<REG_HIVE_SIG_S, HiveName(name, depth), REG_HIVE_SIG_E>>, 0),
                     !.pos = at]
      ELSE [s EXCEPT !.aborted = TRUE]

registry_add_cell(s, name, v) ==
  LET at == FindEndTag(s.base.m, s.pos)
  IN  IF HasRoom(s.base, v.len)
      THEN [s EXCEPT !.base = Inserted(@, at, <<Cell(name, v.type, v.len, v.data)>>, v.len)]
      ELSE [s EXCEPT !.aborted = TRUE]

Words(tokens) ==
  LET sum[i \in 0 .. Len(tokens)] == IF i = 0 THEN 0 ELSE sum[i - 1] + tokens[i].n
  IN  sum[Len(tokens)]

Slip_registry_remove_item(base, pos) ==
  LET end == IF base.m[pos].w = "CELL" THEN pos ELSE FindEndTag(base.m, pos)
  IN  [base EXCEPT !.m = SubSeq(@, 1, pos - 1) \o SubSeq(@, end + 1, Len(@)),
                   !.length = @ - ItemWords(0)]

(* A cell, or a hive and all that is in it. *)
registry_remove_item(base, pos) ==
  LET end == IF base.m[pos].w = "CELL" THEN pos ELSE FindEndTag(base.m, pos)
  IN  [base EXCEPT !.m = SubSeq(@, 1, pos - 1) \o SubSeq(@, end + 1, Len(@)),
                   !.length = @ - Words(SubSeq(base.m, pos, end))]

(* Go down one more hive of the path, adding it if it is not there. *)
IntoHive(s, name, depth) ==
  LET p == FindItem(s.base.m, s.pos, name, "HIVE")
  IN  IF s.aborted THEN s
      ELSE IF p # NULL THEN [s EXCEPT !.pos = p]
      ELSE registry_add_hive(s, name, depth)

AddHives(base, path) ==
  LET into[i \in 0 .. Len(path) - 1] ==
        IF i = 0 THEN [base |-> base, pos |-> 1, aborted |-> FALSE]
        ELSE IntoHive(into[i - 1], path[i], i)
  IN  into[Len(path) - 1]

Slip_ReplaceCell(s, name, v) == registry_add_cell(s, name, v)

(* A cell is removed and added again, since its new data may be longer. *)
ReplaceCell(s, name, v) ==
  LET p == FindItem(s.base.m, s.pos, name, "CELL")
      cleared == IF p = NULL THEN s ELSE [s EXCEPT !.base = registry_remove_item(@, p)]
  IN  registry_add_cell(cleared, name, v)

(* The reserve a write leaves behind, and realloc when it is used up. *)
Reserve == 11 + REG_MAX_SIZE + 1
Slip_LowOnRoom(base) == base.size - base.length < Reserve - 1
LowOnRoom(base) == base.size - base.length < Reserve
=============================================================================
