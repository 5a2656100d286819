------------------------------ MODULE FatImage ------------------------------
(***************************************************************************)
(* A FAT volume in the image editor, filesys/utils/ultimate/Fat.cpp: host  *)
(* files and folders are inserted, entries deleted, folders optimised.     *)
(* The FAT is worked on in memory and written back; folders and files go   *)
(* straight to the image.  Names are plain: of a live entry no first byte  *)
(* has its high bit set.                                                   *)
(***************************************************************************)
EXTENDS Integers, SequencesExt

CONSTANTS
  m_clusters_in_data_area,
  SLOTS,             \* entries of a folder in one cluster
  ROOT_SLOTS,        \* entries of the root of FAT12 and FAT16
  FOLDER_CLUSTERS,   \* the 8192 bytes of a new folder, in clusters
  Host,              \* by name: [folder, clusters, slots, inside]
  MaxEntries         \* no insertion begins after so many entries

EOC       == -1   \* 0xFFFFFFFF
ROOT_AREA == 0    \* where data keeps the root of FAT12 and FAT16
BASE      == 2    \* root_base_cluster of FAT32
Clusters  == 2 .. m_clusters_in_data_area + 1

VARIABLES
  fat32,             \* m_fat_size is FS_FAT32
  fat,               \* m_fat_buffer
  fat_file,          \* the FATs in the image
  data,              \* the clusters in the image
  m_free_clusters,
  stack,             \* the calls of InsertFolder, and OnFatInsert below them
  made,              \* entries made so far; numbers them
  kept,              \* the entries inserted and not deleted
  orphans,           \* clusters taken for entries that found their folder full
  spoiled            \* something was done that damages it: Spoils, InsertEmptyFile,
                     \* and OnFatOptimize of some folders

vars == <<fat32, fat, fat_file, data, m_free_clusters, stack, made, kept, orphans, spoiled>>

-----------------------------------------------------------------------------
(* Slots of a folder, and the blocks of a file.                            *)
Slot(is, kind, id, start, size) ==
  [is |-> is, kind |-> kind, id |-> id, start |-> start, size |-> size]
Zero        == Slot("zero", "", 0, 0, 0)
DeletedSlot == Slot("deleted", "", 0, 0, 0)
DeletedEntry(slot) == Slot("deleted", "file", 0, slot.start, 0)   \* keeps its cluster
Long        == Slot("lfn", "", 0, 0, 0)
Zeros(n)    == [k \in 1 .. n |-> Zero]
Block(id, n) == <<Slot("data", "", id, n, 0)>>

(* The clusters of a chain; it ends early where a cluster comes twice. *)
RECURSIVE Followed(_, _, _)
Followed(f, c, list) ==
  IF c = EOC \/ c \in Range(list) THEN list ELSE Followed(f, f[c], Append(list, c))
FatFillClusterList(f, c) == Followed(f, c, <<>>)

FreeClusters(f) ==
  SelectSeq([n \in 1 .. m_clusters_in_data_area - 1 |-> n + 1], LAMBDA c : f[c] = 0)
CalcFreeClusters(f) ==
  Cardinality({c \in 0 .. m_clusters_in_data_area - 1 : f[c] = 0})

AllocateFAT(f, cnt) == SubSeq(FreeClusters(f), 1, cnt)
Position(list, c)   == CHOOSE n \in DOMAIN list : list[n] = c
Linked(f, list) ==
  [c \in Range(list) |-> IF c = Last(list) THEN EOC ELSE list[Position(list, c) + 1]] @@ f

(* A folder is [c, IsRoot]: its first cluster, and whether it is the root. *)
Folder(c, IsRoot) == [c |-> c, IsRoot |-> IsRoot]
Root              == Folder(IF fat32 THEN BASE ELSE 0, TRUE)

Where(f, dir) ==
  IF dir.IsRoot /\ ~fat32 THEN <<ROOT_AREA>> ELSE FatFillClusterList(f, dir.c)
At(list, k) ==
  IF list = <<ROOT_AREA>> THEN <<ROOT_AREA, k>>
  ELSE <<list[((k - 1) \div SLOTS) + 1], ((k - 1) % SLOTS) + 1>>
ReadFile(f, d, dir) ==
  LET list == Where(f, dir)
  IN  [k \in 1 .. (IF list = <<ROOT_AREA>> THEN ROOT_SLOTS ELSE SLOTS * Len(list)) |->
        d[At(list, k)[1]][At(list, k)[2]]]
WriteFile(d, list, blocks) == [c \in Range(list) |-> blocks[Position(list, c)]] @@ d
WriteFolder(f, d, dir, slots) ==
  LET list    == Where(f, dir)
      From(n) == (n - 1) * SLOTS
  IN  WriteFile(d, list,
        [n \in DOMAIN list |-> SubSeq(slots, From(n) + 1, From(n) + Len(d[list[n]]))])

(* ParseDir shows what comes before the first slot that was never used. *)
Shown(slots) ==
  {k \in DOMAIN slots : slots[k].is = "name" /\ \A j \in 1 .. k : slots[j].is # "zero"}
IsDot(slot)  == slot.kind \in {".", ".."}

(* With "Show Deleted" checked, the short names of deleted entries as well. *)
ShownDeleted(slots) ==
  {k \in DOMAIN slots : /\ slots[k].is = "deleted" /\ slots[k].kind = "file"
                        /\ \A j \in 1 .. k : slots[j].is # "zero"}

(* The first slot of the entry that slot k is of: its long name is in front. *)
First(slots, k) ==
  CHOOSE h \in 1 .. k :
    /\ \A j \in h .. k - 1 : slots[j].is = "lfn"
    /\ h = 1 \/ slots[h - 1].is # "lfn"

(* Runs of cnt slots that AllocateRoot takes for free. *)
Slip_Runs(slots, cnt) ==
  {k \in 1 .. Len(slots) - cnt + 1 :
     /\ slots[k].is \in {"zero", "deleted"}
     /\ Cardinality({j \in DOMAIN slots : slots[j].is \in {"zero", "deleted"}}) >= cnt}
Runs(slots, cnt) ==
  {k \in 1 .. Len(slots) - cnt + 1 :
     \A j \in k .. k + cnt - 1 : slots[j].is \in {"zero", "deleted"}}

AllocateRoot(f, d, dir, entry, cnt) ==
  LET slots == ReadFile(f, d, dir)
      at    == Min(Runs(slots, cnt))
  IN  IF Runs(slots, cnt) = {} THEN d
      ELSE WriteFolder(f, d, dir,
             [k \in DOMAIN slots |->
               IF k \notin at .. at + cnt - 1 THEN slots[k]
               ELSE IF k = at + cnt - 1 THEN entry ELSE Long])

Fits(f, d, dir, cnt) == Runs(ReadFile(f, d, dir), cnt) # {}

-----------------------------------------------------------------------------
TypeOK ==
  /\ {fat32, spoiled} \subseteq BOOLEAN
  /\ \A f \in {fat, fat_file} :
       f \in [0 .. m_clusters_in_data_area + 1 -> {EOC, 0} \cup Clusters]
  /\ DOMAIN data = Clusters \cup {ROOT_AREA}
  /\ m_free_clusters \in 0 .. m_clusters_in_data_area
  /\ \A n \in DOMAIN stack : Range(stack[n].todo) \subseteq DOMAIN Host
  /\ made \in Nat /\ kept \subseteq 1 .. made /\ orphans \subseteq Clusters

(* An empty volume, open in the editor. *)
Init ==
  /\ fat32 \in BOOLEAN
  /\ fat = [c \in 0 .. m_clusters_in_data_area + 1 |->
             IF c < 2 \/ (fat32 /\ c = BASE) THEN EOC ELSE 0]
  /\ fat_file = fat
  /\ data = [c \in Clusters \cup {ROOT_AREA} |->
              IF c = ROOT_AREA THEN IF fat32 THEN <<>> ELSE Zeros(ROOT_SLOTS) ELSE Zeros(SLOTS)]
  /\ m_free_clusters = CalcFreeClusters(fat)
  /\ stack = <<>> /\ made = 0 /\ kept = {} /\ orphans = {} /\ spoiled = FALSE

(* The tree of the dialog, read with the FAT f. *)
RECURSIVE FoldersBelow(_, _)
FoldersBelow(f, dir) ==
  LET slots == ReadFile(f, data, dir)
  IN  {dir} \cup UNION {FoldersBelow(f, Folder(slots[k].start, FALSE)) :
                          k \in {j \in Shown(slots) : slots[j].kind = "folder"}}
ItemsIn(f, dir) ==
  LET slots == ReadFile(f, data, dir)
  IN  {[dir |-> dir, k |-> k, slot |-> slots[k]] : k \in Shown(slots)}
Items(f, top) == UNION {ItemsIn(f, dir) : dir \in FoldersBelow(f, top)}

Item(dir, k) == [dir |-> dir, k |-> k, slot |-> ReadFile(fat, data, dir)[k]]
ItemsSeen(show_del, dir) ==
  LET slots == ReadFile(fat, data, dir)
  IN  {Item(dir, k) : k \in Shown(slots) \cup (IF show_del THEN ShownDeleted(slots) ELSE {})}

Idle == stack = <<>> /\ ~spoiled

-----------------------------------------------------------------------------
(* Inserting.  A call of InsertFolder has the host's items it has still to
   insert; InsertFile and the start of InsertFolder are a step each. *)
Call(dir, todo, reached) == [dir |-> dir, todo |-> todo, reached |-> reached]

OnFatInsert(dir, name) ==
  /\ Idle /\ made < MaxEntries
  /\ stack' = <<Call(dir, <<name>>, TRUE)>>
  /\ UNCHANGED <<fat32, fat, fat_file, data, m_free_clusters, made, kept, orphans, spoiled>>

Top      == stack[Len(stack)]
Busy     == stack # <<>> /\ Top.todo # <<>>
Next1    == Host[Head(Top.todo)]
Returned == [stack EXCEPT ![Len(stack)].todo = Tail(@)]
Placed   == Top.reached /\ Fits(fat, data, Top.dir, Next1.slots)

Refused(cnt) == cnt > m_free_clusters \/ cnt > Len(FreeClusters(fat))

(* The file cannot be opened or there is no room: every call returns FALSE. *)
InsertFails ==
  /\ Busy
  /\ ~Next1.folder \/ Refused(FOLDER_CLUSTERS)
  /\ stack' = <<[stack[1] EXCEPT !.todo = <<>>]>>
  /\ UNCHANGED <<fat32, fat, fat_file, data, m_free_clusters, made, kept, orphans, spoiled>>

(* For no cluster at all, cnt - 1 is 0xFFFFFFFF, and AllocateFAT runs wild. *)
InsertEmptyFile ==
  /\ Busy /\ ~Next1.folder /\ Next1.clusters = 0
  /\ stack' = <<>> /\ spoiled' = TRUE
  /\ UNCHANGED <<fat32, fat, fat_file, data, m_free_clusters, made, kept, orphans>>

NewEntry(kind, start, size) == Slot("name", kind, made + 1, start, size)
Made(list) ==
  /\ made' = made + 1
  /\ kept' = IF Placed THEN kept \cup {made + 1} ELSE kept
  /\ orphans' = IF Placed THEN orphans ELSE orphans \cup Range(list)

InsertFile ==
  LET cnt  == Next1.clusters
      list == AllocateFAT(fat, cnt)
      f    == Linked(fat, list)
  IN  /\ Busy /\ ~Next1.folder /\ cnt > 0 /\ ~Refused(cnt)
      /\ fat' = f
      /\ data' = WriteFile(
           AllocateRoot(f, data, Top.dir, NewEntry("file", list[1], cnt), Next1.slots),
           list, [n \in 1 .. cnt |-> Block(made + 1, n)])
      /\ m_free_clusters' = CalcFreeClusters(f)
      /\ stack' = Returned
      /\ Made(list)
      /\ UNCHANGED <<fat32, fat_file, spoiled>>

(* The two entries of AllocateRootSFN are the first of the empty folder. *)
Dots(start, parent) ==
  <<Slot("name", ".", 0, start, 0), Slot("name", "..", 0, parent, 0)>>
    \o Zeros(SLOTS * FOLDER_CLUSTERS - 2)

InsertFolder ==
  LET list == AllocateFAT(fat, FOLDER_CLUSTERS)
      f    == Linked(fat, list)
      new  == Folder(list[1], FALSE)
      d    == AllocateRoot(f, data, Top.dir, NewEntry("folder", list[1], 0), Next1.slots)
      zero == WriteFile(d, list, [n \in 1 .. FOLDER_CLUSTERS |-> Zeros(SLOTS)])
  IN  /\ Busy /\ Next1.folder /\ ~Refused(FOLDER_CLUSTERS)
      /\ fat' = f
      /\ data' = WriteFolder(f, zero, new, Dots(list[1], Top.dir.c))
      /\ stack' = Append(Returned, Call(new, Next1.inside, Placed))
      /\ Made(list)
      /\ UNCHANGED <<fat32, fat_file, m_free_clusters, spoiled>>

ReturnFromFolder ==
  /\ Len(stack) > 1 /\ Top.todo = <<>>
  /\ stack' = Front(stack)
  /\ UNCHANGED <<fat32, fat, fat_file, data, m_free_clusters, made, kept, orphans, spoiled>>

(* The end of OnFatInsert: the FATs are written, and the volume read again. *)
UpdateTheFATs ==
  /\ Len(stack) = 1 /\ Top.todo = <<>>
  /\ fat_file' = fat /\ m_free_clusters' = CalcFreeClusters(fat)
  /\ stack' = <<>>
  /\ UNCHANGED <<fat32, fat, data, made, kept, orphans, spoiled>>

-----------------------------------------------------------------------------
(* The items DeleteFolder and DeleteFile are called for, in their order: of a
   folder what is in it first, and then itself unless it is the root. *)
Slip_Gone(show_del, item) == <<item>>
RECURSIVE Gone(_, _)
Inside(show_del, dir) ==
  LET items == {i \in ItemsSeen(show_del, dir) : ~IsDot(i.slot)}
  IN  FlattenSeq([n \in 1 .. Cardinality(items) |->
        Gone(show_del, SetToSortSeq(items, LAMBDA i, j : i.k < j.k)[n])])
Gone(show_del, item) ==
  IF item.slot.kind # "folder" THEN <<item>>
  ELSE Append(Inside(show_del, Folder(item.slot.start, FALSE)), item)

(* An entry without clusters of its own takes others with it: "." those of its
   folder, ".." those of the folder above, a label FAT entry 0; and a deleted
   entry those that follow from the cluster it once had, whosever they are now. *)
Spoils(slot) == IsDot(slot) \/ slot.kind = "label" \/ slot.is = "deleted"

(* All items that go, up to the first that spoils the volume: their slots are
   marked, their clusters freed, and the FATs written, from which OnFatDelete
   reads the FAT back. *)
Deleted(gone) ==
  LET bad  == {n \in DOMAIN gone : Spoils(gone[n].slot)}
      done == SubSeq(gone, 1, IF bad = {} THEN Len(gone) ELSE Min(bad))
      marked == UNION {{At(Where(fat, i.dir), k) :
                          k \in First(ReadFile(fat, data, i.dir), i.k) .. i.k} : i \in Range(done)}
      Freed(f, i) == [c \in Range(FatFillClusterList(f, i.slot.start)) |-> 0] @@ f
  IN  /\ fat' = FoldLeft(Freed, fat, done)
      /\ fat_file' = fat'
      /\ data' = [c \in DOMAIN data |->
                   [n \in DOMAIN data[c] |->
                     IF <<c, n>> \notin marked THEN data[c][n]
                     ELSE IF data[c][n].is = "lfn" THEN DeletedSlot ELSE DeletedEntry(data[c][n])]]
      /\ m_free_clusters' = CalcFreeClusters(fat')
      /\ kept' = kept \ {i.slot.id : i \in Range(done)}
      /\ spoiled' = (bad # {})
      /\ UNCHANGED <<fat32, stack, made, orphans>>

OnFatDelete(show_del, item) == Idle /\ Deleted(Gone(show_del, item))

(* The root itself stays; then the user opens the volume again. *)
DeleteRoot(show_del) == Idle /\ Deleted(Inside(show_del, Root))

-----------------------------------------------------------------------------
(* The first n slots, with what is not deleted moved to the front. *)
Compacted(slots, n) ==
  LET stays == SelectSeq([k \in DOMAIN slots |-> k],
                         LAMBDA k : slots[k].is # "deleted" /\ First(slots, k) <= n)
  IN  [k \in DOMAIN slots |->
        IF k \in DOMAIN stays THEN slots[stays[k]] ELSE IF k <= n THEN Zero ELSE slots[k]]

(* OnFatOptimize takes the size of the root for that of every folder.  Of a
   smaller folder it compacts what lies behind the buffer as well; of a larger
   one it may leave entries behind the end it has made. *)
OnFatOptimize(dir) ==
  LET slots  == ReadFile(fat, data, dir)
      n      == Len(ReadFile(fat, data, Root))
      result == Compacted(slots, n)
      Ids(s) == {s[k].id : k \in Shown(s)}
  IN  /\ Idle
      /\ data' = WriteFolder(fat, data, dir, result)
      /\ spoiled' = (\/ Ids(result) # Ids(slots)
                     \/ Len(slots) < n /\ result # slots)
      /\ UNCHANGED <<fat32, fat, fat_file, m_free_clusters, stack, made, kept, orphans>>

LABEL_SLOTS == 2

OnInsertVLabel ==
  LET fits == Fits(fat, data, Root, LABEL_SLOTS)
  IN  /\ Idle /\ made < MaxEntries
      /\ data' = AllocateRoot(fat, data, Root, NewEntry("label", 0, 0), LABEL_SLOTS)
      /\ made' = made + 1
      /\ kept' = IF fits THEN kept \cup {made + 1} ELSE kept
      /\ UNCHANGED <<fat32, fat, fat_file, m_free_clusters, stack, orphans, spoiled>>

Program ==
  InsertFails \/ InsertEmptyFile \/ InsertFile \/ InsertFolder \/ ReturnFromFolder \/ UpdateTheFATs

User ==
  /\ Idle
  /\ \/ \E dir \in FoldersBelow(fat, Root) :
          OnFatOptimize(dir) \/ \E name \in DOMAIN Host : OnFatInsert(dir, name)
     \/ \E show_del \in BOOLEAN :   \* OnShowDeleted reads the volume as it is
          \/ \E dir \in FoldersBelow(fat, Root) :
               \E item \in ItemsSeen(show_del, dir) : OnFatDelete(show_del, item)
          \/ DeleteRoot(show_del)
     \/ OnInsertVLabel

Next == Program \/ User
Spec == Init /\ [][Next]_vars

-----------------------------------------------------------------------------
(* What another program would read: with the FATs of the image, or while an
   insertion is under way with those it will have. *)
Seen == IF stack = <<>> THEN fat_file ELSE fat

Owned(f, slot) == IF slot.kind = "label" THEN <<>> ELSE FatFillClusterList(f, slot.start)
Own(f)         == {item \in Items(f, Root) : ~IsDot(item.slot)}

(* The tree shows what was inserted and not deleted, each once and by its long
   name; a file reads back as it was, and no cluster belongs to two entries:
   whatever was inserted, deleted, refused or given up half way before, as long
   as nothing was done that spoils the volume. *)
FilesIntact ==
  LET own   == Own(Seen)
      chain == [i \in own |-> Owned(Seen, i.slot)]
  IN  ~spoiled =>
        /\ {i.slot.id : i \in own} = kept
        /\ \A i, j \in own : i # j => /\ i.slot.id # j.slot.id
                                     /\ Range(chain[i]) \cap Range(chain[j]) = {}
        /\ \A i \in own : First(ReadFile(Seen, data, i.dir), i.k) < i.k
        /\ \A i \in {j \in own : j.slot.kind = "file"} :
             /\ Len(chain[i]) = i.slot.size
             /\ \A n \in DOMAIN chain[i] : data[chain[i][n]] = Block(i.slot.id, n)

(* Between two operations every cluster in use belongs to an entry, and what is
   lost is what was taken for entries that found their folder full, or were made
   in such a folder; no file is let in that finds no clusters. *)
SpaceAccounted ==
  Idle =>
    LET own   == UNION {Range(Owned(fat_file, i.slot)) : i \in Own(fat_file)}
        folder == IF fat32 THEN Range(Where(fat_file, Root)) ELSE {}
    IN  /\ m_free_clusters <= Len(FreeClusters(fat_file))
        /\ (own \cup folder) \cap orphans = {}
        /\ {c \in Clusters : fat_file[c] # 0} = own \cup folder \cup orphans
=============================================================================
