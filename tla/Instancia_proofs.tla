-------------------------- MODULE Instancia_proofs --------------------------
(***************************************************************************)
(* Theorems about the storage node, for any number of keys and entries.    *)
(*                                                                         *)
(* A node is in order (Sound) if no two keys share an entry, entries_left  *)
(* counts the free ones, every key has one whole value, the lines of the   *)
(* status table name keys, and every descriptor has an owner.  Each        *)
(* operator of Instancia takes a node in order to a node in order.  Its    *)
(* loops are folds: ListFacts gives the sequence of their rounds, and what *)
(* each round keeps, the last one has.                                     *)
(*                                                                         *)
(* That the status table follows the entry table (LinesAgree) needs keys   *)
(* that are atomic always or never, and no files.  If further the values   *)
(* of a key need one number of entries, the circular algorithm and LRU     *)
(* make the room that they were asked for, and nothing that was answered   *)
(* is lost.                                                                *)
(***************************************************************************)
EXTENDS Instancia, ListFacts, FiniteSetTheorems

-----------------------------------------------------------------------------
(* Entries and holes *)

\* The sizes of the storage.
LEMMA Numbers == TotalEntries \in Nat \ {0} /\ EntrySize \in Nat \ {0}
BY ConstantsAssumption

\* A value occupies at least one entry, one if it is atomic, and never fewer than a
\* shorter value.
LEMMA EntriesOfSize ==
  /\ \A s \in Nat \ {0} : ReqEntries(s) \in Nat \ {0} /\ (s <= EntrySize => ReqEntries(s) = 1)
  /\ \A s, t \in Nat \ {0} : s <= t => ReqEntries(s) <= ReqEntries(t)
BY Numbers DEF ReqEntries

\* What a node is made of, whatever its numbers are.
Tables    == [Key -> Entry \cup {None}]
Lines     == [Line -> Status]
Contents  == [Line -> Part \cup {None}]
Dictionary == [Key -> Fd \cup {None}]
OpenFiles == [Fd -> Key \cup {None, "stdin", "unlinked"}]
Files     == [Key -> Value \cup {None}]

Shape == [up : BOOLEAN, table : Tables, left : Int, status : Lines, pointer : Nat,
          data : Contents, fd : Dictionary, opened : OpenFiles, disk : Files]

\* The entries of a key, and those of none.
Region(n, k) == n.table[k].number .. EndOf(n, k) - 1
Free(n) == {i \in Line : \A k \in Stored(n) : i \notin Region(n, k)}

Apart(n) ==
    /\ \A k \in Stored(n) : EndOf(n, k) <= TotalEntries
    /\ \A k, l \in Stored(n) : k # l =>
           EndOf(n, k) <= n.table[l].number \/ EndOf(n, l) <= n.table[k].number

Counted(n) == n.left = Cardinality(Free(n))

\* The sizes of the values are positive.
LEMMA SizesPositive == Sizes \subseteq Nat \ {0}
BY ConstantsAssumption DEF Sizes

\* The entry of a key that is stored.
LEMMA StoredEntry ==
  ASSUME NEW n \in Shape, NEW k \in Stored(n)
  PROVE  /\ k \in Key /\ n.table[k] \in Entry
         /\ n.table[k].number \in Line /\ n.table[k].number \in Nat
         /\ n.table[k].size \in Sizes /\ n.table[k].size \in Nat \ {0}
         /\ Used(n, k) \in Nat \ {0} /\ EndOf(n, k) \in Nat \ {0}
         /\ EndOf(n, k) = n.table[k].number + Used(n, k)
<1>1. k \in Key /\ n.table[k] \in Entry
  BY DEF Shape, Tables, Stored
<1>2. n.table[k].number \in Line /\ n.table[k].number \in Nat /\ n.table[k].size \in Sizes
  BY <1>1 DEF Entry, Line
<1>3. n.table[k].size \in Nat \ {0}
  BY <1>2, SizesPositive
<1>4. Used(n, k) \in Nat \ {0}
  BY <1>3, EntriesOfSize DEF Used
<1>5. EndOf(n, k) = n.table[k].number + Used(n, k)
  BY DEF EndOf
<1> QED BY <1>1, <1>2, <1>3, <1>4, <1>5

\* entry_table_delete: the fields it leaves, and those it changes.
LEMMA DeleteFields ==
  ASSUME NEW n \in Shape, NEW k \in Key
  PROVE  /\ Delete(n, k) \in Shape
         /\ Stored(Delete(n, k)) = Stored(n) \ {k}
         /\ \A l \in Stored(Delete(n, k)) : Delete(n, k).table[l] = n.table[l]
         /\ \A l \in Key : l # k => Delete(n, k).table[l] = n.table[l]
         /\ Delete(n, k).left = n.left + (IF k \in Stored(n) THEN Used(n, k) ELSE 0)
         /\ Delete(n, k).up = n.up /\ Delete(n, k).status = n.status
         /\ Delete(n, k).pointer = n.pointer /\ Delete(n, k).data = n.data
         /\ Delete(n, k).fd = n.fd /\ Delete(n, k).opened = n.opened
         /\ Delete(n, k).disk = n.disk
<1>0. n.left \in Int /\ n.table \in [Key -> Entry \cup {None}]
  BY DEF Shape, Tables
<1>1. CASE k \in Stored(n)
  <2> DEFINE t == [n.table EXCEPT ![k] = None]
           left == n.left + Used(n, k)
  <2>1. left \in Int
    BY <1>0, <1>1, StoredEntry
  <2>2. t \in Tables /\ t[k] = None /\ \A l \in Key : l # k => t[l] = n.table[l]
    BY <1>0 DEF Tables
  <2>3. Delete(n, k) = [n EXCEPT !.table = t, !.left = left]
    BY <1>1 DEF Delete
  <2> HIDE DEF t, left
  <2>4. /\ Delete(n, k) \in Shape /\ Delete(n, k).table = t /\ Delete(n, k).left = left
        /\ Delete(n, k).up = n.up /\ Delete(n, k).status = n.status
        /\ Delete(n, k).pointer = n.pointer /\ Delete(n, k).data = n.data
        /\ Delete(n, k).fd = n.fd /\ Delete(n, k).opened = n.opened
        /\ Delete(n, k).disk = n.disk
    BY <2>1, <2>2, <2>3 DEF Shape
  <2>5. Stored(Delete(n, k)) = Stored(n) \ {k}
    BY <2>2, <2>4 DEF Stored
  <2> QED BY <1>1, <2>2, <2>4, <2>5 DEF Stored, left
<1>2. CASE k \notin Stored(n)
  BY <1>0, <1>2 DEF Delete, Stored
<1> QED BY <1>1, <1>2

\* The lines are finitely many, and so are those of a key.
LEMMA LineSets ==
  /\ IsFiniteSet(Line) /\ Cardinality(Line) = TotalEntries
  /\ \A S \in SUBSET Line : IsFiniteSet(S) /\ Cardinality(S) \in Nat
                            /\ Cardinality(S) <= TotalEntries
<1>1. TotalEntries \in Nat /\ TotalEntries - 1 \in Int /\ 0 \in Int
  BY Numbers
<1>2. IsFiniteSet(Line) /\ Cardinality(Line) = TotalEntries
  BY <1>1, FS_Interval DEF Line
<1>3. ASSUME NEW S \in SUBSET Line
      PROVE  IsFiniteSet(S) /\ Cardinality(S) \in Nat /\ Cardinality(S) <= TotalEntries
  BY <1>2, FS_Subset, FS_CardinalityType
<1> QED BY <1>2, <1>3

\* A row of lines has as many as its bounds say.
LEMMA RowSize ==
  ASSUME NEW p \in Nat, NEW len \in Nat \ {0}, p + len <= TotalEntries
  PROVE  /\ p .. p + len - 1 \subseteq Line
         /\ IsFiniteSet(p .. p + len - 1) /\ Cardinality(p .. p + len - 1) = len
<1>1. p .. p + len - 1 \subseteq Line
  BY Numbers DEF Line
<1>2. p \in Int /\ p + len - 1 \in Int /\ p <= p + len - 1 /\ p + len - 1 - p + 1 = len
  OBVIOUS
<1>3. Cardinality(p .. p + len - 1) = p + len - 1 - p + 1
  BY <1>2, FS_Interval
<1> QED BY <1>1, <1>2, <1>3, LineSets

\* entry_table_delete gives back the entries of the key.
LEMMA DeletePlaced ==
  ASSUME NEW n \in Shape, Apart(n), Counted(n), NEW k \in Key
  PROVE  /\ Apart(Delete(n, k)) /\ Counted(Delete(n, k))
         /\ Free(Delete(n, k)) = Free(n) \cup (IF k \in Stored(n) THEN Region(n, k) ELSE {})
<1> DEFINE m == Delete(n, k)
<1>1. /\ m \in Shape /\ Stored(m) = Stored(n) \ {k}
      /\ \A l \in Stored(m) : m.table[l] = n.table[l]
      /\ m.left = n.left + (IF k \in Stored(n) THEN Used(n, k) ELSE 0)
  BY DeleteFields
<1>0. n.left \in Int
  BY DEF Shape
<1>2. \A l \in Stored(m) : EndOf(m, l) = EndOf(n, l) /\ Region(m, l) = Region(n, l)
  BY <1>1 DEF EndOf, Used, Region
<1> HIDE DEF m
<1>3. Apart(m)
  BY <1>1, <1>2 DEF Apart
<1>4. CASE k \in Stored(n)
  <2>1. /\ Used(n, k) \in Nat \ {0} /\ n.table[k].number \in Nat
        /\ EndOf(n, k) = n.table[k].number + Used(n, k)
    BY <1>4, StoredEntry
  <2>2. EndOf(n, k) <= TotalEntries
    BY <1>4 DEF Apart
  <2>3. /\ Region(n, k) \subseteq Line /\ IsFiniteSet(Region(n, k))
        /\ Cardinality(Region(n, k)) = Used(n, k)
    BY <2>1, <2>2, RowSize DEF Region
  <2>4. ASSUME NEW l \in Stored(n), l # k, NEW i \in Region(n, k)
        PROVE  i \notin Region(n, l)
    <3>1. /\ n.table[l].number \in Nat /\ EndOf(n, l) \in Nat
      BY StoredEntry
    <3>2. EndOf(n, k) <= n.table[l].number \/ EndOf(n, l) <= n.table[k].number
      BY <1>4, <2>4 DEF Apart
    <3> QED BY <2>1, <3>1, <3>2 DEF Region
  <2>5. Free(m) = Free(n) \cup Region(n, k)
    BY <1>1, <1>2, <1>4, <2>3, <2>4 DEF Free
  <2>6. Free(n) \cap Region(n, k) = {}
    BY <1>4 DEF Free
  <2>7. IsFiniteSet(Free(n))
    BY LineSets DEF Free
  <2>8. Cardinality(Free(m)) = Cardinality(Free(n)) + Used(n, k)
    <3>1. Cardinality(Free(n) \cap Region(n, k)) = 0
      BY <2>6, FS_EmptySet
    <3>2. Cardinality(Free(n)) \in Nat
      BY <2>7, FS_CardinalityType
    <3>3. Cardinality(Free(n) \cup Region(n, k)) =
            Cardinality(Free(n)) + Cardinality(Region(n, k))
                - Cardinality(Free(n) \cap Region(n, k))
      BY <2>3, <2>7, FS_Union
    <3> QED BY <2>1, <2>3, <2>5, <3>1, <3>2, <3>3
  <2> QED BY <1>1, <1>3, <1>4, <2>5, <2>8 DEF Counted, m
<1>5. CASE k \notin Stored(n)
  <2>1. Free(m) = Free(n)
    BY <1>1, <1>2, <1>5 DEF Free
  <2> QED BY <1>0, <1>1, <1>3, <1>5, <2>1 DEF Counted, m
<1> QED BY <1>4, <1>5

\* The fields entry_table_insert leaves, and those it changes.
LEMMA InsertFields ==
  ASSUME NEW n \in Shape, NEW k \in Key, NEW size \in Sizes, NEW p \in Line
  PROVE  LET m == Insert(n, k, size, p) IN
         /\ m \in Shape
         /\ Stored(m) = Stored(n) \cup {k}
         /\ m.table[k] = [number |-> p, size |-> size]
         /\ \A l \in Key : l # k => m.table[l] = n.table[l]
         /\ m.left = n.left - Diff(n, k, size)
         /\ m.up = n.up /\ m.status = n.status /\ m.pointer = n.pointer /\ m.data = n.data
         /\ m.fd = n.fd /\ m.opened = n.opened /\ m.disk = n.disk
<1> DEFINE m == Insert(n, k, size, p)
           t == [n.table EXCEPT ![k] = [number |-> p, size |-> size]]
           left == n.left - Diff(n, k, size)
<1>0. n.left \in Int /\ n.table \in [Key -> Entry \cup {None}]
  BY DEF Shape, Tables
<1>1. left \in Int
  <2>1. ReqEntries(size) \in Int
    BY SizesPositive, EntriesOfSize
  <2>2. k \in Stored(n) => Used(n, k) \in Int
    BY StoredEntry
  <2> QED BY <1>0, <2>1, <2>2 DEF Diff
<1>2. [number |-> p, size |-> size] \in Entry /\ [number |-> p, size |-> size] # None
  <2>1. p \in Nat /\ size \in Nat
    BY SizesPositive DEF Line
  <2> QED BY <2>1, ConstantsAssumption DEF Entry
<1>3. /\ t \in Tables /\ t[k] = [number |-> p, size |-> size]
      /\ \A l \in Key : l # k => t[l] = n.table[l]
  BY <1>0, <1>2 DEF Tables
<1>4. m = [n EXCEPT !.table = t, !.left = left]
  BY DEF Insert
<1> HIDE DEF t, left, m
<1>5. /\ m \in Shape /\ m.table = t /\ m.left = left
      /\ m.up = n.up /\ m.status = n.status /\ m.pointer = n.pointer /\ m.data = n.data
      /\ m.fd = n.fd /\ m.opened = n.opened /\ m.disk = n.disk
  BY <1>1, <1>3, <1>4 DEF Shape
<1>6. Stored(m) = Stored(n) \cup {k}
  BY <1>2, <1>3, <1>5 DEF Stored
<1> QED BY <1>3, <1>5, <1>6 DEF left, m

\* entry_table_insert of a key that is not in the table, on free entries, takes them.
LEMMA InsertNewPlaced ==
  ASSUME NEW n \in Shape, Apart(n), Counted(n), NEW k \in Key, k \notin Stored(n),
         NEW size \in Sizes, NEW p \in Line, p + ReqEntries(size) <= TotalEntries,
         p .. p + ReqEntries(size) - 1 \subseteq Free(n)
  PROVE  LET m == Insert(n, k, size, p) IN
         /\ Apart(m) /\ Counted(m)
         /\ Free(m) = Free(n) \ (p .. p + ReqEntries(size) - 1)
<1> DEFINE m == Insert(n, k, size, p)
           needed == ReqEntries(size)
           row == p .. p + needed - 1
<1>0. needed \in Nat \ {0} /\ p \in Nat /\ n.left \in Int
  BY SizesPositive, EntriesOfSize DEF Line, Shape
<1>1. /\ m \in Shape /\ Stored(m) = Stored(n) \cup {k}
      /\ m.table[k] = [number |-> p, size |-> size]
      /\ \A l \in Stored(n) : m.table[l] = n.table[l]
      /\ m.left = n.left - needed
  <2>1. \A l \in Stored(n) : l \in Key /\ l # k
    BY DEF Stored
  <2>2. Diff(n, k, size) = needed
    BY <1>0 DEF Diff
  <2> QED BY <2>1, <2>2, InsertFields
<1>2. \A l \in Stored(n) : EndOf(m, l) = EndOf(n, l) /\ Region(m, l) = Region(n, l)
  BY <1>1 DEF EndOf, Used, Region
<1>3. m.table[k].number = p /\ EndOf(m, k) = p + needed /\ Region(m, k) = row
  <2>1. m.table[k].number = p /\ m.table[k].size = size
    BY <1>1
  <2> HIDE DEF m
  <2>2. EndOf(m, k) = p + needed
    BY <2>1 DEF EndOf, Used
  <2> HIDE DEF needed
  <2> QED BY <1>0, <2>1, <2>2 DEF Region
<1>4. row \subseteq Free(n) /\ p + needed <= TotalEntries
  OBVIOUS
<1> HIDE DEF m, needed, row
<1>5. ASSUME NEW l \in Stored(n)
      PROVE  EndOf(n, l) <= p \/ p + needed <= n.table[l].number
  <2>1. /\ n.table[l].number \in Nat /\ EndOf(n, l) \in Nat
        /\ Used(n, l) \in Nat \ {0} /\ EndOf(n, l) = n.table[l].number + Used(n, l)
    BY StoredEntry
  <2>2. \A i \in row : i \notin Region(n, l)
    BY <1>4 DEF Free
  <2>3. p \in row /\ (p <= n.table[l].number /\ n.table[l].number < p + needed
                          => n.table[l].number \in row)
    BY <1>0, <2>1 DEF row
  <2>4. n.table[l].number \in Region(n, l)
    BY <2>1 DEF Region
  <2>5. ~(n.table[l].number <= p /\ p < EndOf(n, l))
    BY <1>0, <2>1, <2>2, <2>3 DEF Region
  <2> QED BY <1>0, <2>1, <2>2, <2>3, <2>4, <2>5
<1>6. Apart(m)
  <2>1. \A l \in Stored(m) : l = k \/ l \in Stored(n)
    BY <1>1
  <2>2. \A l \in Stored(m) : EndOf(m, l) <= TotalEntries
    BY <1>2, <1>3, <1>4, <2>1 DEF Apart
  <2>3. ASSUME NEW a \in Stored(m), NEW b \in Stored(m), a # b
        PROVE  EndOf(m, a) <= m.table[b].number \/ EndOf(m, b) <= m.table[a].number
    <3>1. CASE a = k
      <4>1. b \in Stored(n)
        BY <2>1, <2>3, <3>1
      <4> QED BY <1>1, <1>2, <1>3, <1>5, <3>1, <4>1
    <3>2. CASE b = k
      <4>1. a \in Stored(n)
        BY <2>1, <2>3, <3>2
      <4> QED BY <1>1, <1>2, <1>3, <1>5, <3>2, <4>1
    <3>3. CASE a \in Stored(n) /\ b \in Stored(n)
      BY <1>1, <1>2, <2>3, <3>3 DEF Apart
    <3> QED BY <2>1, <3>1, <3>2, <3>3
  <2> QED BY <2>2, <2>3 DEF Apart
<1>7. Free(m) = Free(n) \ row
  BY <1>1, <1>2, <1>3 DEF Free
<1>8. Cardinality(Free(m)) = Cardinality(Free(n)) - needed
  <2>1. IsFiniteSet(row) /\ Cardinality(row) = needed
    BY <1>0, <1>4, RowSize DEF row
  <2>2. IsFiniteSet(Free(n)) /\ Cardinality(Free(n)) \in Nat
    BY LineSets DEF Free
  <2>3. Cardinality(Free(n) \ row) = Cardinality(Free(n)) - Cardinality(Free(n) \cap row)
    BY <2>2, FS_Difference
  <2>4. Free(n) \cap row = row
    BY <1>4
  <2> QED BY <1>7, <2>1, <2>3, <2>4
<1> QED BY <1>1, <1>6, <1>7, <1>8 DEF Counted, m, row, needed

\* Writing an entry over the key's own is the same as deleting it first.
LEMMA InsertIsDeleteInsert ==
  ASSUME NEW n \in Shape, NEW k \in Key, NEW size \in Sizes, NEW p \in Line
  PROVE  Insert(Delete(n, k), k, size, p) = Insert(n, k, size, p)
<1> DEFINE e == [number |-> p, size |-> size]
           m == Delete(n, k)
           d == ReqEntries(size)
<1>0. d \in Int /\ n.left \in Int /\ n.table \in Tables /\ (k \in Stored(n) => Used(n, k) \in Int)
  BY SizesPositive, EntriesOfSize, StoredEntry DEF Shape
<1>1. CASE k \in Stored(n)
  <2>1. /\ m = [n EXCEPT !.table = [n.table EXCEPT ![k] = None], !.left = n.left + Used(n, k)]
        /\ k \notin Stored(m)
    <3>1. m = [n EXCEPT !.table = [n.table EXCEPT ![k] = None], !.left = n.left + Used(n, k)]
      BY <1>1 DEF Delete
    <3>2. k \notin Stored(m)
      BY DeleteFields
    <3> QED BY <3>1, <3>2
  <2>2. Diff(m, k, size) = d /\ Diff(n, k, size) = d - Used(n, k)
    BY <1>0, <1>1, <2>1 DEF Diff
  <2>3. m.table = [n.table EXCEPT ![k] = None] /\ m.left = n.left + Used(n, k)
    BY <2>1 DEF Shape
  <2>4. [m.table EXCEPT ![k] = e] = [n.table EXCEPT ![k] = e]
    BY <1>0, <2>3 DEF Tables
  <2>5. m.left - d = n.left - (d - Used(n, k))
    BY <1>0, <1>1, <2>3
  <2> DEFINE t == [n.table EXCEPT ![k] = e]
             left == n.left - (d - Used(n, k))
             t0 == [n.table EXCEPT ![k] = None]
             left0 == n.left + Used(n, k)
  <2>6. Insert(m, k, size, p) = [m EXCEPT !.table = t, !.left = left]
    BY <2>2, <2>4, <2>5 DEF Insert
  <2>7. Insert(n, k, size, p) = [n EXCEPT !.table = t, !.left = left]
    BY <2>2 DEF Insert
  <2>8. m = [n EXCEPT !.table = t0, !.left = left0]
    BY <2>1
  <2> HIDE DEF t, left, m, t0, left0
  <2>9. [m EXCEPT !.table = t, !.left = left] = [n EXCEPT !.table = t, !.left = left]
    BY <2>8 DEF Shape
  <2> QED BY <2>6, <2>7, <2>9 DEF m
<1>2. CASE k \notin Stored(n)
  BY <1>2 DEF Delete
<1> QED BY <1>1, <1>2

\* The first of some numbers.
LEMMA MinimumIsLeast ==
  ASSUME NEW S \in SUBSET Nat, S # {}
  PROVE  Minimum(S) \in S /\ \A x \in S : Minimum(S) <= x
<1>1. PICK x \in S : \A y \in S : ~ (<<y, x>> \in OpToRel(<, Nat))
  BY WFMin, NatLessThanWellFounded
<1>2. ASSUME NEW y \in S PROVE x <= y
  <2>1. ~(y < x) /\ x \in Nat /\ y \in Nat
    BY <1>1 DEF OpToRel
  <2> QED BY <2>1
<1> QED BY <1>2 DEF Minimum

\* A hole that holds the entries needed is free (entry_table_next_entry).
LEMMA HoleFree ==
  ASSUME NEW n \in Shape, Apart(n), NEW needed \in Nat \ {0},
         NEW p \in Holes(n, Stored(n), needed)
  PROVE  /\ p \in Line /\ p + needed <= TotalEntries
         /\ p .. p + needed - 1 \subseteq Free(n)
<1>1. /\ p \in Nat /\ p + needed <= TotalEntries
      /\ \A k \in Stored(n) : n.table[k].number >= p => n.table[k].number - p >= needed
  BY StoredEntry DEF Holes
<1>2. p \in Line /\ p .. p + needed - 1 \subseteq Line
  BY <1>1, RowSize, Numbers DEF Line
<1>3. ASSUME NEW i \in p .. p + needed - 1, NEW k \in Stored(n)
      PROVE  i \notin Region(n, k)
  <2>1. /\ n.table[k].number \in Nat /\ EndOf(n, k) \in Nat
        /\ Used(n, k) \in Nat \ {0} /\ EndOf(n, k) = n.table[k].number + Used(n, k)
    BY StoredEntry
  <2>2. CASE n.table[k].number >= p
    BY <1>1, <2>1, <2>2 DEF Region
  <2>3. CASE n.table[k].number < p
    <3>1. PICK l \in Stored(n) : p = EndOf(n, l)
      BY <1>1, <2>1, <2>3 DEF Holes
    <3>2. n.table[l].number \in Nat /\ EndOf(n, l) = n.table[l].number + Used(n, l)
          /\ Used(n, l) \in Nat \ {0}
      BY StoredEntry
    <3>3. k = l \/ EndOf(n, k) <= n.table[l].number \/ EndOf(n, l) <= n.table[k].number
      BY DEF Apart
    <3>4. EndOf(n, k) <= p
      BY <2>1, <2>3, <3>1, <3>2, <3>3
    <3> QED BY <1>1, <2>1, <3>4 DEF Region
  <2> QED BY <1>1, <2>1, <2>2, <2>3
<1> QED BY <1>1, <1>2, <1>3 DEF Free

\* The entries entry_table_next_entry gives a key, if the value does not reach past the end,
\* are free or its own.
LEMMA NextEntryFree ==
  ASSUME NEW n \in Shape, Apart(n), Counted(n), NEW k \in Key, NEW size \in Sizes,
         NextEntry(n, k, size) # -1,
         FitsInPlace(n, k, size) =>
             NextEntry(n, k, size) + ReqEntries(size) <= TotalEntries
  PROVE  /\ NextEntry(n, k, size) \in Line
         /\ NextEntry(n, k, size) + ReqEntries(size) <= TotalEntries
         /\ NextEntry(n, k, size) .. NextEntry(n, k, size) + ReqEntries(size) - 1
                \subseteq Free(Delete(n, k))
<1> DEFINE p == NextEntry(n, k, size)
           needed == ReqEntries(size)
           holes == Holes(n, Stored(n), needed)
<1>0. needed \in Nat \ {0} /\ size \in Nat \ {0}
  BY SizesPositive, EntriesOfSize
<1>1. Free(Delete(n, k)) = Free(n) \cup (IF k \in Stored(n) THEN Region(n, k) ELSE {})
  BY DeletePlaced
<1>2. CASE FitsInPlace(n, k, size)
  <2>1. k \in Stored(n)
    BY <1>2 DEF FitsInPlace
  <2>2. p = n.table[k].number
    BY <1>2 DEF NextEntry
  <2>3. /\ n.table[k].number \in Line /\ n.table[k].number \in Nat
        /\ n.table[k].size \in Nat \ {0}
        /\ Used(n, k) \in Nat \ {0} /\ EndOf(n, k) = n.table[k].number + Used(n, k)
    BY <2>1, StoredEntry
  <2>4. p .. p + needed - 1 \subseteq Line
    BY <1>0, <1>2, <2>2, <2>3, RowSize
  <2>5. ASSUME NEW i \in p .. p + needed - 1, i \notin Region(n, k)
        PROVE  i \in Free(n)
    <3>1. i >= EndOf(n, k) /\ i \in Nat /\ i < p + needed
      BY <1>0, <2>2, <2>3, <2>5 DEF Region
    <3>2. ~(size <= n.table[k].size)
      <4>1. size <= n.table[k].size => needed <= Used(n, k)
        BY <1>0, <2>3, EntriesOfSize DEF Used
      <4> QED BY <1>0, <2>2, <2>3, <3>1, <4>1
    <3>3. Diff(n, k, size) = needed - Used(n, k)
      BY <2>1 DEF Diff
    <3>4. \A o \in Stored(n) : n.table[o].number \notin
              EndOf(n, k) .. EndOf(n, k) + (needed - Used(n, k)) - 1
      BY <1>2, <3>2, <3>3 DEF FitsInPlace
    <3>5. ASSUME NEW o \in Stored(n) PROVE i \notin Region(n, o)
      <4>1. /\ n.table[o].number \in Nat /\ EndOf(n, o) \in Nat
            /\ Used(n, o) \in Nat \ {0} /\ EndOf(n, o) = n.table[o].number + Used(n, o)
        BY StoredEntry
      <4>2. k = o \/ EndOf(n, k) <= n.table[o].number \/ EndOf(n, o) <= n.table[k].number
        BY <2>1 DEF Apart
      <4>3. n.table[o].number \notin EndOf(n, k) .. EndOf(n, k) + (needed - Used(n, k)) - 1
        BY <3>4
      <4> QED BY <1>0, <2>2, <2>3, <3>1, <4>1, <4>2, <4>3 DEF Region
    <3> QED BY <2>4, <3>5 DEF Free
  <2> QED BY <1>1, <1>2, <2>1, <2>2, <2>3, <2>5
<1>3. CASE ~FitsInPlace(n, k, size)
  <2>1. holes # {} /\ p = Minimum(holes)
    BY <1>3 DEF NextEntry
  <2>2. holes \subseteq Nat
    BY StoredEntry DEF Holes
  <2>3. p \in holes
    <3> HIDE DEF holes, p
    <3> QED BY <2>1, <2>2, MinimumIsLeast
  <2>4. p \in Line /\ p + needed <= TotalEntries /\ p .. p + needed - 1 \subseteq Free(n)
    <3> HIDE DEF p, needed
    <3> QED BY <1>0, <2>3, HoleFree
  <2> QED BY <1>1, <2>4
<1> QED BY <1>2, <1>3

\* entry_table_insert on free entries, or the key's own, takes them.
LEMMA InsertPlaced ==
  ASSUME NEW n \in Shape, Apart(n), Counted(n), NEW k \in Key,
         NEW size \in Sizes, NEW p \in Line, p + ReqEntries(size) <= TotalEntries,
         p .. p + ReqEntries(size) - 1 \subseteq Free(Delete(n, k))
  PROVE  Apart(Insert(n, k, size, p)) /\ Counted(Insert(n, k, size, p))
<1> DEFINE m == Delete(n, k)
<1>1. m \in Shape /\ Apart(m) /\ Counted(m) /\ k \notin Stored(m)
  BY DeleteFields, DeletePlaced
<1>2. Insert(n, k, size, p) = Insert(m, k, size, p)
  BY InsertIsDeleteInsert
<1>3. p .. p + ReqEntries(size) - 1 \subseteq Free(m)
  OBVIOUS
<1> HIDE DEF m
<1>4. Apart(Insert(m, k, size, p)) /\ Counted(Insert(m, k, size, p))
  BY <1>1, <1>3, InsertNewPlaced
<1> QED BY <1>2, <1>4

-----------------------------------------------------------------------------
(* The storage, the status table and the files *)

\* A key's entries hold the parts of one value, of the size of the table.
Whole(n) ==
    \A k \in Stored(n) : \E v \in Value :
        /\ v.size = n.table[k].size
        /\ \A i \in 0 .. Used(n, k) - 1 :
               n.data[n.table[k].number + i] = [value |-> v, part |-> i]

\* A line that says ATOMIC names a key.
AtomicNamed(n) == \A i \in Line : n.status[i].st = "ATOMIC" => n.status[i].key \in Key

\* A descriptor in use is stdin's or that of a key.
DescriptorsOwned(n) ==
    \A g \in Fd : n.opened[g] # None => g = 0 \/ \E k \in Key : n.fd[k] = g

Sound(n) ==
    /\ n \in Shape /\ Apart(n) /\ Counted(n) /\ Whole(n)
    /\ AtomicNamed(n) /\ DescriptorsOwned(n)

\* storage_set changes nothing but the contents of the entries it writes.
LEMMA StorageSetFields ==
  ASSUME NEW n \in Shape, NEW p \in Nat, NEW len \in Nat \ {0},
         NEW parts \in [0 .. len - 1 -> Part \cup {None}]
  PROVE  LET m == StorageSet(n, p, parts) IN
         /\ m \in Shape
         /\ \A i \in Line : m.data[i] = IF i - p \in 0 .. len - 1 THEN parts[i - p]
                                        ELSE n.data[i]
         /\ m.up = n.up /\ m.table = n.table /\ m.left = n.left /\ m.status = n.status
         /\ m.pointer = n.pointer /\ m.fd = n.fd /\ m.opened = n.opened /\ m.disk = n.disk
<1> DEFINE m == StorageSet(n, p, parts)
           d == [i \in Line |-> IF i - p \in DOMAIN parts THEN parts[i - p] ELSE n.data[i]]
<1>1. d \in Contents
  <2>1. n.data \in [Line -> Part \cup {None}]
    BY DEF Shape, Contents
  <2>2. \A i \in Line : d[i] \in Part \cup {None}
    BY <2>1
  <2> QED BY <2>2 DEF Contents
<1>2. \A i \in Line : d[i] = IF i - p \in 0 .. len - 1 THEN parts[i - p] ELSE n.data[i]
  OBVIOUS
<1>3. m = [n EXCEPT !.data = d]
  BY DEF StorageSet
<1> HIDE DEF m, d
<1>4. /\ m \in Shape /\ m.data = d
      /\ m.up = n.up /\ m.table = n.table /\ m.left = n.left /\ m.status = n.status
      /\ m.pointer = n.pointer /\ m.fd = n.fd /\ m.opened = n.opened /\ m.disk = n.disk
  BY <1>1, <1>3 DEF Shape
<1> QED BY <1>2, <1>4 DEF m

\* Writing a value into the entries a key is given leaves the others whole.
LEMMA WriteWhole ==
  ASSUME NEW n \in Shape, Whole(n), NEW m \in Shape, Apart(m), NEW k \in Stored(m),
         NEW v \in Value, v.size = m.table[k].size,
         \A l \in Stored(m) : l # k => l \in Stored(n) /\ m.table[l] = n.table[l],
         \A i \in Line : m.data[i] =
             IF i - m.table[k].number \in 0 .. Used(m, k) - 1
             THEN [value |-> v, part |-> i - m.table[k].number] ELSE n.data[i]
  PROVE  Whole(m)
<1>1. /\ m.table[k].number \in Nat /\ Used(m, k) \in Nat \ {0}
      /\ EndOf(m, k) = m.table[k].number + Used(m, k) /\ EndOf(m, k) <= TotalEntries
  BY StoredEntry DEF Apart
<1>2. ASSUME NEW i \in 0 .. Used(m, k) - 1
      PROVE  m.data[m.table[k].number + i] = [value |-> v, part |-> i]
  <2> DEFINE x == m.table[k].number + i
  <2>1. x \in Line /\ x - m.table[k].number = i
    BY <1>1, Numbers DEF Line
  <2> HIDE DEF x
  <2>2. m.data[x] = [value |-> v, part |-> i]
    BY <2>1
  <2> QED BY <2>2 DEF x
<1>3. ASSUME NEW l \in Stored(m), l # k
      PROVE  \E w \in Value : /\ w.size = m.table[l].size
                              /\ \A i \in 0 .. Used(m, l) - 1 :
                                    m.data[m.table[l].number + i] = [value |-> w, part |-> i]
  <2>1. l \in Stored(n) /\ m.table[l] = n.table[l] /\ Used(m, l) = Used(n, l)
    BY <1>3 DEF Used
  <2>2. PICK w \in Value : /\ w.size = n.table[l].size
                           /\ \A i \in 0 .. Used(n, l) - 1 :
                                 n.data[n.table[l].number + i] = [value |-> w, part |-> i]
    BY <2>1 DEF Whole
  <2>3. /\ m.table[l].number \in Nat /\ Used(m, l) \in Nat \ {0}
        /\ EndOf(m, l) = m.table[l].number + Used(m, l) /\ EndOf(m, l) <= TotalEntries
    BY StoredEntry DEF Apart
  <2>4. EndOf(m, k) <= m.table[l].number \/ EndOf(m, l) <= m.table[k].number
    BY <1>3 DEF Apart
  <2>5. ASSUME NEW i \in 0 .. Used(m, l) - 1
        PROVE  m.data[m.table[l].number + i] = [value |-> w, part |-> i]
    <3> DEFINE x == m.table[l].number + i
    <3>1. x \in Line /\ x - m.table[k].number \notin 0 .. Used(m, k) - 1
      BY <1>1, <2>3, <2>4, Numbers DEF Line
    <3>2. n.data[x] = [value |-> w, part |-> i]
      BY <2>1, <2>2, <2>5
    <3> HIDE DEF x
    <3>3. m.data[x] = n.data[x]
      BY <3>1
    <3> QED BY <3>2, <3>3 DEF x
  <2> QED BY <2>1, <2>2, <2>5
<1> QED BY <1>2, <1>3 DEF Whole

\* entry_table_status_add_kv writes the key's lines, and of the others at most when they
\* were last referenced.
LEMMA StatusAddFields ==
  ASSUME NEW n \in Shape, NEW k \in Key, NEW size \in Sizes, NEW p \in Nat
  PROVE  LET m == StatusAdd(n, k, size, p)
             row == p .. p + ReqEntries(size) - 1 IN
         /\ m \in Shape
         /\ \A i \in Line : i \in row => m.status[i] = LineOf(k, size)
         /\ \A i \in Line : i \notin row => /\ m.status[i].st = n.status[i].st
                                            /\ m.status[i].key = n.status[i].key
         /\ m.up = n.up /\ m.table = n.table /\ m.left = n.left /\ m.data = n.data
         /\ m.pointer = n.pointer /\ m.fd = n.fd /\ m.opened = n.opened /\ m.disk = n.disk
<1> DEFINE m == StatusAdd(n, k, size, p)
           row == p .. p + ReqEntries(size) - 1
           s == [i \in Line |->
                    IF i \in row THEN LineOf(k, size)
                    ELSE IF n.status[i].st = "FREE" \/ algorithm # "L" THEN n.status[i]
                    ELSE Aged(n.status[i])]
<1>0. \A i \in Line : n.status[i] \in Status
  BY DEF Shape, Lines
<1>1. LineOf(k, size) \in Status
  BY SizesPositive DEF LineOf, Status
<1>2. ASSUME NEW i \in Line
      PROVE  /\ s[i] \in Status
             /\ i \in row => s[i] = LineOf(k, size)
             /\ i \notin row => s[i].st = n.status[i].st /\ s[i].key = n.status[i].key
  <2>1. n.status[i] \in Status
    BY <1>0
  <2> DEFINE x == n.status[i]
             y == Aged(x)
  <2>2. y \in Status /\ y.st = x.st /\ y.key = x.key
    <3> HIDE DEF x
    <3> QED BY <2>1 DEF Status, Aged, x
  <2>3. s[i] = IF i \in row THEN LineOf(k, size)
               ELSE IF x.st = "FREE" \/ algorithm # "L" THEN x ELSE y
    OBVIOUS
  <2> HIDE DEF s, y, row
  <2> QED BY <1>1, <2>1, <2>2, <2>3
<1>3. s \in Lines
  <2>1. s = [i \in Line |-> s[i]]
    OBVIOUS
  <2> HIDE DEF s
  <2> QED BY <1>2, <2>1 DEF Lines
<1>4. m = [n EXCEPT !.status = s]
  BY DEF StatusAdd
<1> HIDE DEF m, s, row
<1>5. /\ m \in Shape /\ m.status = s
      /\ m.up = n.up /\ m.table = n.table /\ m.left = n.left /\ m.data = n.data
      /\ m.pointer = n.pointer /\ m.fd = n.fd /\ m.opened = n.opened /\ m.disk = n.disk
  BY <1>3, <1>4 DEF Shape
<1> QED BY <1>2, <1>5 DEF m, row

\* entry_table_status_delete_kv frees lines.
LEMMA StatusDeleteFields ==
  ASSUME NEW n \in Shape, NEW k, NEW size
  PROVE  LET m == StatusDelete(n, k, size)
             lines == {i \in Line : n.status[i].key = k} IN
         /\ m \in Shape
         /\ \A i \in Line : m.status[i] =
                IF i \in lines /\ Cardinality({j \in lines : j < i}) < ReqEntries(size)
                THEN Blank ELSE n.status[i]
         /\ m.up = n.up /\ m.table = n.table /\ m.left = n.left /\ m.data = n.data
         /\ m.pointer = n.pointer /\ m.fd = n.fd /\ m.opened = n.opened /\ m.disk = n.disk
<1> DEFINE m == StatusDelete(n, k, size)
           lines == {i \in Line : n.status[i].key = k}
           gone(i) == i \in lines /\ Cardinality({j \in lines : j < i}) < ReqEntries(size)
           s == [i \in Line |-> IF gone(i) THEN Blank ELSE n.status[i]]
<1>1. Blank \in Status
  BY DEF Blank, Status
<1>2. \A i \in Line : s[i] = IF gone(i) THEN Blank ELSE n.status[i]
  OBVIOUS
<1>3. s \in Lines
  <2>1. s = [i \in Line |-> s[i]]
    OBVIOUS
  <2> HIDE DEF s, gone
  <2> QED BY <1>1, <1>2, <2>1 DEF Lines, Shape
<1>4. m = [n EXCEPT !.status = s]
  BY DEF StatusDelete
<1> HIDE DEF m, s
<1>5. /\ m \in Shape /\ m.status = s
      /\ m.up = n.up /\ m.table = n.table /\ m.left = n.left /\ m.data = n.data
      /\ m.pointer = n.pointer /\ m.fd = n.fd /\ m.opened = n.opened /\ m.disk = n.disk
  BY <1>3, <1>4 DEF Shape
<1> QED BY <1>2, <1>5 DEF m

\* A line it does not free stays as it is.
LEMMA StatusDeleteBlanks ==
  ASSUME NEW n \in Shape, NEW k, NEW size
  PROVE  \A i \in Line : StatusDelete(n, k, size).status[i] \in {Blank, n.status[i]}
<1> DEFINE m == StatusDelete(n, k, size)
           lines == {i \in Line : n.status[i].key = k}
           gone(i) == i \in lines /\ Cardinality({j \in lines : j < i}) < ReqEntries(size)
<1>1. \A i \in Line : m.status[i] = IF gone(i) THEN Blank ELSE n.status[i]
  BY StatusDeleteFields
<1> HIDE DEF gone
<1> QED BY <1>1

\* Nor does it free a line of another key.
LEMMA OthersStay ==
  ASSUME NEW n \in Shape, NEW k, NEW size, NEW i \in Line, n.status[i].key # k
  PROVE  StatusDelete(n, k, size).status[i] = n.status[i]
<1> DEFINE m == StatusDelete(n, k, size)
           lines == {x \in Line : n.status[x].key = k}
           gone(x) == x \in lines /\ Cardinality({j \in lines : j < x}) < ReqEntries(size)
<1>1. \A x \in Line : m.status[x] = IF gone(x) THEN Blank ELSE n.status[x]
  BY StatusDeleteFields
<1>2. ~gone(i)
  OBVIOUS
<1> HIDE DEF gone
<1> QED BY <1>1, <1>2

\* What is read of the table alone is the same where the table is.
LEMMA SameTable ==
  ASSUME NEW n, NEW m, m.table = n.table
  PROVE  /\ Stored(m) = Stored(n)
         /\ \A k \in Key : /\ Used(m, k) = Used(n, k) /\ EndOf(m, k) = EndOf(n, k)
                           /\ Region(m, k) = Region(n, k)
         /\ Free(m) = Free(n) /\ Apart(m) = Apart(n)
         /\ AtomicKeys(m) = AtomicKeys(n)
         /\ \A S \in SUBSET Key : \A needed : Holes(m, S, needed) = Holes(n, S, needed)
<1>1. Stored(m) = Stored(n)
  BY DEF Stored
<1>2. \A k \in Key : /\ Used(m, k) = Used(n, k) /\ EndOf(m, k) = EndOf(n, k)
                     /\ Region(m, k) = Region(n, k)
  BY DEF Used, EndOf, Region
<1>3. Stored(n) \subseteq Key
  BY DEF Stored
<1>4. Free(m) = Free(n)
  BY <1>1, <1>2, <1>3 DEF Free
<1>5. Apart(m) = Apart(n)
  BY <1>1, <1>2, <1>3 DEF Apart
<1>6. AtomicKeys(m) = AtomicKeys(n)
  BY <1>1 DEF AtomicKeys
<1>7. ASSUME NEW S \in SUBSET Key, NEW needed
      PROVE  Holes(m, S, needed) = Holes(n, S, needed)
  <2>1. {EndOf(m, k) : k \in S} = {EndOf(n, k) : k \in S}
    BY <1>2
  <2> QED BY <2>1 DEF Holes
<1> QED BY <1>1, <1>2, <1>4, <1>5, <1>6, <1>7

\* Taking the key out makes room for it again: the hole behind what precedes it.
LEMMA HoleForDeleted ==
  ASSUME NEW n \in Shape, Apart(n), NEW k \in Stored(n)
  PROVE  Holes(n, Stored(n) \ {k}, Used(n, k)) # {}
<1> DEFINE S == Stored(n) \ {k}
           at == n.table[k].number
           ends == {0} \cup {EndOf(n, l) : l \in S}
           gaps == {at - e : e \in {x \in ends : x <= at}}
<1>1. /\ at \in Nat /\ Used(n, k) \in Nat \ {0} /\ EndOf(n, k) = at + Used(n, k)
      /\ EndOf(n, k) <= TotalEntries
  BY StoredEntry DEF Apart
<1>2. ends \subseteq Nat
  BY StoredEntry
<1>3. gaps \subseteq Nat /\ at - 0 \in gaps
  <2> HIDE DEF at
  <2>1. 0 \in ends /\ 0 <= at
    BY <1>1
  <2> HIDE DEF ends
  <2>2. gaps \subseteq Nat
    BY <1>1, <1>2
  <2> QED BY <2>1, <2>2
<1>4. PICK e \in ends : e <= at /\ \A g \in gaps : at - e <= g
  <2>1. Minimum(gaps) \in gaps /\ \A g \in gaps : Minimum(gaps) <= g
    <3> HIDE DEF gaps
    <3> QED BY <1>3, MinimumIsLeast
  <2>2. PICK e \in {x \in ends : x <= at} : Minimum(gaps) = at - e
    BY <2>1
  <2> QED BY <2>1, <2>2
<1>5. \A x \in ends : x <= at => x <= e
  <2> SUFFICES ASSUME NEW x \in ends, x <= at PROVE x <= e
    OBVIOUS
  <2>1. at - x \in gaps
    BY <1>2
  <2>2. at - e <= at - x
    BY <1>4, <2>1
  <2> HIDE DEF ends, at
  <2> QED BY <1>1, <1>2, <2>2
<1>6. e + Used(n, k) <= TotalEntries
  <2> HIDE DEF ends, at
  <2> QED BY <1>1, <1>2, <1>4, Numbers
<1>7. ASSUME NEW l \in S, n.table[l].number >= e
      PROVE  n.table[l].number - e >= Used(n, k)
  <2>1. /\ n.table[l].number \in Nat /\ Used(n, l) \in Nat \ {0}
        /\ EndOf(n, l) = n.table[l].number + Used(n, l)
    BY StoredEntry
  <2>2. EndOf(n, l) <= at \/ EndOf(n, k) <= n.table[l].number
    BY DEF Apart
  <2>3. EndOf(n, l) <= at => EndOf(n, l) <= e
    BY <1>5
  <2>4. e \in Nat
    BY <1>2
  <2> HIDE DEF ends, at
  <2> QED BY <1>1, <1>4, <1>7, <2>1, <2>2, <2>3, <2>4
<1>8. e \in Holes(n, S, Used(n, k))
  BY <1>6, <1>7 DEF Holes
<1> QED BY <1>8

\* The holes between some keys are the same where their entries are.
LEMMA SameHoles ==
  ASSUME NEW n, NEW m, NEW S, \A k \in S : m.table[k] = n.table[k], NEW needed
  PROVE  Holes(m, S, needed) = Holes(n, S, needed)
<1>1. \A k \in S : EndOf(m, k) = EndOf(n, k)
  BY DEF EndOf, Used
<1>2. {EndOf(m, k) : k \in S} = {EndOf(n, k) : k \in S}
  BY <1>1
<1> QED BY <1>2 DEF Holes

\* A count of free entries is a number of lines.
LEMMA LeftIsCount ==
  ASSUME NEW n \in Shape, Counted(n)
  PROVE  n.left \in 0 .. TotalEntries
<1>1. Free(n) \in SUBSET Line
  BY DEF Free
<1>2. Cardinality(Free(n)) \in Nat /\ Cardinality(Free(n)) <= TotalEntries
  BY <1>1, LineSets
<1> QED BY <1>2, Numbers DEF Counted

\* What storage_retrieve reads of a key are the parts of its value.
LEMMA RetrieveParts ==
  ASSUME NEW n \in Shape, Apart(n), NEW k \in Stored(n), NEW v \in Value,
         \A i \in 0 .. Used(n, k) - 1 :
             n.data[n.table[k].number + i] = [value |-> v, part |-> i]
  PROVE  /\ Retrieve(n, k) \in [0 .. Used(n, k) - 1 -> Part \cup {None}]
         /\ \A i \in 0 .. Used(n, k) - 1 : Retrieve(n, k)[i] = [value |-> v, part |-> i]
<1>1. \A i \in 0 .. Used(n, k) - 1 : Retrieve(n, k)[i] = [value |-> v, part |-> i]
  BY DEF Retrieve
<1>2. \A i \in 0 .. Used(n, k) - 1 : [value |-> v, part |-> i] \in Part
  BY StoredEntry DEF Part
<1>3. Retrieve(n, k) = [i \in 0 .. Used(n, k) - 1 |-> Retrieve(n, k)[i]]
  BY DEF Retrieve
<1> QED BY <1>1, <1>2, <1>3

\* Where a round of the compaction puts a key: the first hole between the others.
Target(n, k) == Minimum(Holes(n, Stored(n) \ {k}, Used(n, k)))

\* A round of compactation_compact moves its key and no other, and keeps its value.
LEMMA CompactKeyFields ==
  ASSUME NEW n \in Shape, Apart(n), Counted(n), Whole(n), NEW k \in Stored(n)
  PROVE  LET c == CompactKey(n, k)
             p == Target(n, k)
             m == StatusDelete(Delete(n, k), k, n.table[k].size) IN
         /\ p \in Holes(n, Stored(n) \ {k}, Used(n, k)) /\ p \in Line
         /\ \A x \in Holes(n, Stored(n) \ {k}, Used(n, k)) : p <= x
         /\ p .. p + Used(n, k) - 1 \subseteq Free(Delete(n, k))
         /\ c \in Shape /\ Stored(c) = Stored(n)
         /\ c.table[k] = [number |-> p, size |-> n.table[k].size]
         /\ \A l \in Key : l # k => c.table[l] = n.table[l]
         /\ c.left = n.left /\ c.up = n.up /\ c.pointer = n.pointer
         /\ c.fd = n.fd /\ c.opened = n.opened /\ c.disk = n.disk
         /\ Apart(c) /\ Counted(c) /\ Whole(c)
         /\ \A i \in Line : i \in p .. p + Used(n, k) - 1 =>
                                c.status[i] = LineOf(k, n.table[k].size)
         /\ \A i \in Line : i \notin p .. p + Used(n, k) - 1 =>
                                /\ c.status[i].st = m.status[i].st
                                /\ c.status[i].key = m.status[i].key
<1> DEFINE size == n.table[k].size
           S == Stored(n) \ {k}
           d == Delete(n, k)
           m == StatusDelete(d, k, size)
           p == NextEntry(m, k, size)
           a == Insert(m, k, size, p)
           b == StatusAdd(a, k, size, p)
           c == StorageSet(b, p, Retrieve(n, k))
           needed == Used(n, k)
           row == p .. p + needed - 1
<1>0. /\ k \in Key /\ size \in Sizes /\ needed = ReqEntries(size)
      /\ needed \in Nat \ {0} /\ n.left \in 0 .. TotalEntries
  BY StoredEntry, LeftIsCount DEF Used
<1>1. /\ d \in Shape /\ Stored(d) = S /\ \A l \in S : d.table[l] = n.table[l]
      /\ d.left = n.left + needed
      /\ d.up = n.up /\ d.status = n.status /\ d.pointer = n.pointer /\ d.data = n.data
      /\ d.fd = n.fd /\ d.opened = n.opened /\ d.disk = n.disk
  BY <1>0, DeleteFields
<1>2. Apart(d) /\ Counted(d)
  BY <1>0, DeletePlaced
<1>3. /\ m \in Shape /\ m.table = d.table /\ m.left = d.left /\ m.data = d.data
      /\ m.up = d.up /\ m.pointer = d.pointer /\ m.fd = d.fd /\ m.opened = d.opened
      /\ m.disk = d.disk
  <2> HIDE DEF d, size
  <2> QED BY <1>1, StatusDeleteFields
<1>4. Apart(m) /\ Counted(m) /\ Stored(m) = S /\ Free(m) = Free(d)
  <2> HIDE DEF d, m
  <2> QED BY <1>1, <1>2, <1>3, SameTable DEF Counted
<1>5. Holes(m, S, needed) = Holes(n, S, needed) /\ Holes(n, S, needed) # {}
  <2>1. \A l \in S : m.table[l] = n.table[l]
    <3> HIDE DEF d, m
    <3> QED BY <1>1, <1>3
  <2>2. Holes(m, S, needed) = Holes(n, S, needed)
    <3> HIDE DEF m, S, needed
    <3> QED BY <2>1, SameHoles
  <2> QED BY <2>2, HoleForDeleted
<1>6. p = Target(n, k)
  <2>1. ~FitsInPlace(m, k, size)
    <3> HIDE DEF m
    <3> QED BY <1>4 DEF FitsInPlace, S
  <2>2. ~(needed > m.left)
    <3> HIDE DEF m, d, needed
    <3> QED BY <1>0, <1>1, <1>3, Numbers
  <2> HIDE DEF m, needed, size, S
  <2> QED BY <1>0, <1>4, <1>5, <2>1, <2>2 DEF NextEntry, Target, S, needed
<1> HIDE DEF p
<1>7. p \in Holes(n, S, needed) /\ \A x \in Holes(n, S, needed) : p <= x
  <2>1. Holes(n, S, needed) \subseteq Nat
    BY StoredEntry DEF Holes
  <2> QED BY <1>5, <1>6, <2>1, MinimumIsLeast DEF Target
<1>8. p \in Line /\ p + needed <= TotalEntries /\ row \subseteq Free(m)
  <2> HIDE DEF m, needed, S
  <2> QED BY <1>0, <1>3, <1>4, <1>5, <1>7, HoleFree
<1>9. /\ a \in Shape /\ Stored(a) = Stored(n)
      /\ a.table[k] = [number |-> p, size |-> size]
      /\ \A l \in Key : l # k => a.table[l] = n.table[l]
      /\ a.left = n.left
      /\ a.up = m.up /\ a.status = m.status /\ a.pointer = m.pointer /\ a.data = m.data
      /\ a.fd = m.fd /\ a.opened = m.opened /\ a.disk = m.disk
  <2>1. Diff(m, k, size) = needed - 0
    <3> HIDE DEF m, size, needed
    <3> QED BY <1>0, <1>4 DEF Diff, S
  <2>2. S \cup {k} = Stored(n)
    OBVIOUS
  <2>3. n.left + needed - (needed - 0) = n.left
    <3> HIDE DEF needed
    <3> QED BY <1>0
  <2>4. \A l \in Key : l # k => m.table[l] = n.table[l]
    <3>1. \A l \in Key : l # k => d.table[l] = n.table[l]
      BY <1>0, DeleteFields
    <3> HIDE DEF m, d
    <3> QED BY <1>3, <3>1
  <2>5. /\ a \in Shape /\ Stored(a) = Stored(m) \cup {k}
        /\ a.table[k] = [number |-> p, size |-> size]
        /\ \A l \in Key : l # k => a.table[l] = m.table[l]
        /\ a.left = m.left - Diff(m, k, size)
        /\ a.up = m.up /\ a.status = m.status /\ a.pointer = m.pointer /\ a.data = m.data
        /\ a.fd = m.fd /\ a.opened = m.opened /\ a.disk = m.disk
    <3> HIDE DEF m, size
    <3> QED BY <1>0, <1>3, <1>8, InsertFields
  <2>6. a.left = n.left
    <3> HIDE DEF a, m, d, size, needed
    <3> QED BY <1>0, <1>1, <1>3, <2>1, <2>5
  <2> HIDE DEF a, m, d, size, needed, S
  <2> QED BY <1>4, <2>2, <2>4, <2>5, <2>6
<1>10. Apart(a) /\ Counted(a)
  <2>1. k \notin Stored(m)
    BY <1>4
  <2> HIDE DEF m, size, needed, S
  <2> QED BY <1>0, <1>3, <1>4, <1>8, <2>1, InsertNewPlaced DEF row
<1>11. /\ b \in Shape
       /\ \A i \in Line : i \in row => b.status[i] = LineOf(k, size)
       /\ \A i \in Line : i \notin row => /\ b.status[i].st = a.status[i].st
                                          /\ b.status[i].key = a.status[i].key
       /\ b.up = a.up /\ b.table = a.table /\ b.left = a.left /\ b.data = a.data
       /\ b.pointer = a.pointer /\ b.fd = a.fd /\ b.opened = a.opened /\ b.disk = a.disk
  <2>1. p \in Nat /\ a \in Shape /\ size \in Sizes /\ k \in Key
    BY <1>0, <1>8, <1>9 DEF Line
  <2>2. row = p .. p + ReqEntries(size) - 1
    BY <1>0
  <2> HIDE DEF a, size, row
  <2> QED BY <2>1, <2>2, StatusAddFields
<1>12. PICK v \in Value : /\ v.size = size
                          /\ \A i \in 0 .. needed - 1 :
                                n.data[n.table[k].number + i] = [value |-> v, part |-> i]
  BY DEF Whole
<1>13. /\ Retrieve(n, k) \in [0 .. needed - 1 -> Part \cup {None}]
       /\ \A i \in 0 .. needed - 1 : Retrieve(n, k)[i] = [value |-> v, part |-> i]
  BY <1>12, RetrieveParts
<1>14. /\ c \in Shape
       /\ \A i \in Line : c.data[i] = IF i - p \in 0 .. needed - 1 THEN Retrieve(n, k)[i - p]
                                       ELSE b.data[i]
       /\ c.up = b.up /\ c.table = b.table /\ c.left = b.left /\ c.status = b.status
       /\ c.pointer = b.pointer /\ c.fd = b.fd /\ c.opened = b.opened /\ c.disk = b.disk
  <2> DEFINE parts == Retrieve(n, k)
  <2>1. p \in Nat /\ b \in Shape /\ needed \in Nat \ {0}
    <3> HIDE DEF a, b, needed
    <3> QED BY <1>0, <1>8, <1>11 DEF Line
  <2>2. parts \in [0 .. needed - 1 -> Part \cup {None}]
    BY <1>13
  <2>3. c = StorageSet(b, p, parts)
    OBVIOUS
  <2> HIDE DEF b, needed, parts, c
  <2>4. /\ StorageSet(b, p, parts) \in Shape
        /\ \A i \in Line : StorageSet(b, p, parts).data[i] =
               IF i - p \in 0 .. needed - 1 THEN parts[i - p] ELSE b.data[i]
        /\ c.up = b.up /\ c.table = b.table /\ c.left = b.left /\ c.status = b.status
        /\ c.pointer = b.pointer /\ c.fd = b.fd /\ c.opened = b.opened /\ c.disk = b.disk
    BY <2>1, <2>2, <2>3, StorageSetFields
  <2> QED BY <2>3, <2>4 DEF parts
<1>15. c = CompactKey(n, k)
  <2> HIDE DEF p
  <2> QED BY DEF CompactKey, p
<1> HIDE DEF c
<1>16. /\ c.table = a.table /\ c.left = a.left
       /\ Stored(c) = Stored(n) /\ c.table[k] = [number |-> p, size |-> size]
       /\ \A l \in Key : l # k => c.table[l] = n.table[l]
       /\ c.left = n.left /\ c.up = n.up /\ c.pointer = n.pointer
       /\ c.fd = n.fd /\ c.opened = n.opened /\ c.disk = n.disk
  <2> HIDE DEF a, b, m, d, size
  <2>1. c.table = a.table /\ c.left = a.left
    BY <1>11, <1>14
  <2>2. Stored(c) = Stored(a)
    BY <2>1, SameTable
  <2> QED BY <1>1, <1>3, <1>9, <1>11, <1>14, <2>1, <2>2
<1>17. Apart(c) /\ Counted(c)
  <2> HIDE DEF a
  <2> QED BY <1>10, <1>16, SameTable DEF Counted
<1>18. Whole(c)
  <2>1. /\ c.table[k].number = p /\ c.table[k].size = size /\ Used(c, k) = needed
    <3> HIDE DEF size
    <3>1. c.table[k].number = p /\ c.table[k].size = size
      BY <1>16
    <3> QED BY <1>0, <3>1 DEF Used
  <2>2. b.data = n.data
    <3> HIDE DEF a, b, m, d
    <3> QED BY <1>1, <1>3, <1>9, <1>11
  <2>3. \A i \in Line : c.data[i] =
             IF i - p \in 0 .. needed - 1
             THEN [value |-> v, part |-> i - p] ELSE n.data[i]
    <3> HIDE DEF b, needed
    <3> QED BY <1>13, <1>14, <2>2
  <2>4. \A l \in Stored(c) : l # k => l \in Stored(n) /\ c.table[l] = n.table[l]
    BY <1>16 DEF Stored
  <2>5. k \in Stored(c) /\ v \in Value /\ v.size = c.table[k].size /\ c \in Shape
    <3> HIDE DEF size
    <3> QED BY <1>12, <1>14, <1>16, <2>1
  <2> HIDE DEF size, needed
  <2> QED BY <1>17, <2>1, <2>3, <2>4, <2>5, WriteWhole
<1>19. /\ \A i \in Line : i \in row => c.status[i] = LineOf(k, size)
       /\ \A i \in Line : i \notin row => /\ c.status[i].st = m.status[i].st
                                          /\ c.status[i].key = m.status[i].key
  <2> HIDE DEF a, b, m, size, row
  <2> QED BY <1>9, <1>11, <1>14
<1>20. row \subseteq Free(d)
  <2> HIDE DEF m, d, row
  <2> QED BY <1>4, <1>8
<1>21. row = p .. p + needed - 1 /\ m = StatusDelete(Delete(n, k), k, n.table[k].size)
       /\ S = Stored(n) \ {k} /\ d = Delete(n, k) /\ size = n.table[k].size
       /\ needed = Used(n, k) /\ c \in Shape
  <2> HIDE DEF a, b
  <2> QED BY <1>14
<1> HIDE DEF a, b, m, d, size, row, needed, S
<1> QED BY <1>6, <1>7, <1>8, <1>15, <1>16, <1>17, <1>18, <1>19, <1>20, <1>21

\* A round of the compaction leaves the node in order.
LEMMA CompactKeySound ==
  ASSUME NEW n, Sound(n), NEW k \in Stored(n)
  PROVE  Sound(CompactKey(n, k))
<1> DEFINE c == CompactKey(n, k)
           p == Target(n, k)
           row == p .. p + Used(n, k) - 1
           size == n.table[k].size
           d == Delete(n, k)
           m == StatusDelete(d, k, size)
<1>1. n \in Shape /\ Apart(n) /\ Counted(n) /\ Whole(n) /\ AtomicNamed(n) /\ DescriptorsOwned(n)
  BY DEF Sound
<1>2. /\ c \in Shape /\ c.fd = n.fd /\ c.opened = n.opened
      /\ Apart(c) /\ Counted(c) /\ Whole(c)
      /\ \A i \in Line : i \in row => c.status[i] = LineOf(k, size)
      /\ \A i \in Line : i \notin row =>
             c.status[i].st = m.status[i].st /\ c.status[i].key = m.status[i].key
  BY <1>1, CompactKeyFields
<1>3. k \in Key
  BY <1>1, StoredEntry
<1>4. d \in Shape /\ d.status = n.status
  BY <1>1, <1>3, DeleteFields
<1>5. \A i \in Line : m.status[i] = Blank \/ m.status[i] = n.status[i]
  <2> HIDE DEF d, size
  <2> QED BY <1>4, StatusDeleteBlanks
<1>6. LineOf(k, size).key = k
  BY DEF LineOf
<1> HIDE DEF c, m, row, size
<1>7. AtomicNamed(c)
  BY <1>1, <1>2, <1>3, <1>5, <1>6 DEF AtomicNamed, Blank
<1>8. DescriptorsOwned(c)
  BY <1>1, <1>2 DEF DescriptorsOwned
<1> QED BY <1>2, <1>7, <1>8 DEF Sound, c

\* The keys of the table in the order of their entries are a list of them
\* (entry_table_create sorts the list it is given).
LEMMA SortedKeys ==
  ASSUME NEW n \in Shape, Apart(n)
  PROVE  LET s == ByNumber(n) IN
         /\ s \in SetToSeqs(Stored(n))
         /\ \A i, j \in DOMAIN s : i < j => n.table[s[i]].number < n.table[s[j]].number
<1> DEFINE S == Stored(n)
           N == Cardinality(S)
           num(k) == n.table[k].number
           below(k) == {l \in S : num(l) <= num(k)}
           rank == [k \in S |-> Cardinality(below(k))]
<1>1. IsFiniteSet(S) /\ N \in Nat
  <2>1. S \in SUBSET Key /\ IsFiniteSet(Key)
    BY ConstantsAssumption DEF Stored
  <2> HIDE DEF S
  <2> QED BY <2>1, FS_Subset, FS_CardinalityType
<1>2. \A k \in S : num(k) \in Nat
  BY StoredEntry
<1>3. \A k, l \in S : k # l => num(k) # num(l)
  <2> SUFFICES ASSUME NEW k \in S, NEW l \in S, k # l PROVE num(k) # num(l)
    OBVIOUS
  <2>1. EndOf(n, k) = num(k) + Used(n, k) /\ EndOf(n, l) = num(l) + Used(n, l)
        /\ Used(n, k) \in Nat \ {0} /\ Used(n, l) \in Nat \ {0}
    BY StoredEntry
  <2>2. EndOf(n, k) <= num(l) \/ EndOf(n, l) <= num(k)
    BY DEF Apart
  <2> HIDE DEF num
  <2> QED BY <1>2, <2>1, <2>2
<1> HIDE DEF S, num
<1>4. ASSUME NEW k \in S
      PROVE  IsFiniteSet(below(k)) /\ rank[k] \in 1..N
  <2>1. below(k) \in SUBSET S /\ k \in below(k)
    BY <1>2
  <2>2. IsFiniteSet(below(k)) /\ Cardinality(below(k)) <= N /\ Cardinality(below(k)) \in Nat
    BY <1>1, <2>1, FS_Subset, FS_CardinalityType
  <2>3. Cardinality(below(k)) # 0
    BY <2>1, <2>2, FS_EmptySet
  <2> HIDE DEF below
  <2> QED BY <1>1, <2>2, <2>3
<1>5. ASSUME NEW k \in S, NEW l \in S, num(k) < num(l)
      PROVE  rank[k] < rank[l]
  <2>1. below(k) \in SUBSET below(l) /\ l \in below(l) /\ l \notin below(k)
    BY <1>2, <1>5
  <2>2. IsFiniteSet(below(k)) /\ IsFiniteSet(below(l))
        /\ rank[k] \in 1..N /\ rank[l] \in 1..N
        /\ rank[k] = Cardinality(below(k)) /\ rank[l] = Cardinality(below(l))
    BY <1>4
  <2> HIDE DEF rank, below
  <2>3. Cardinality(below(k)) <= Cardinality(below(l))
        /\ Cardinality(below(k)) # Cardinality(below(l))
    BY <2>1, <2>2, FS_Subset
  <2> QED BY <1>1, <2>2, <2>3
<1>6. rank \in Injection(S, 1..N)
  <2>1. rank \in [S -> 1..N]
    <3>1. rank = [k \in S |-> rank[k]]
      OBVIOUS
    <3> HIDE DEF rank
    <3> QED BY <1>4, <3>1
  <2>2. ASSUME NEW k \in S, NEW l \in S, rank[k] = rank[l] PROVE k = l
    <3>1. rank[k] \in Nat /\ rank[l] \in Nat
      BY <1>4
    <3>2. ~(rank[k] < rank[l]) /\ ~(rank[l] < rank[k])
      <4> HIDE DEF rank
      <4> QED BY <2>2, <3>1
    <3>3. ~(num(k) < num(l)) /\ ~(num(l) < num(k))
      <4> HIDE DEF rank
      <4> QED BY <1>5, <3>2
    <3> QED BY <1>2, <1>3, <3>3
  <2> HIDE DEF rank
  <2> QED BY <2>1, <2>2 DEF Injection, IsInjective
<1>7. rank \in Surjection(S, 1..N)
  <2>1. IsFiniteSet(1..N) /\ Cardinality(1..N) = N
    BY <1>1, FS_Interval
  <2> HIDE DEF rank
  <2> QED BY <1>6, <2>1, FS_Injection
<1>8. \A i \in 1..N : \E k \in S : rank[k] = i
  <2> HIDE DEF rank
  <2> QED BY <1>7 DEF Surjection
<1> DEFINE s == [i \in 1..N |-> CHOOSE k \in S : rank[k] = i]
<1>9. \A i \in 1..N : s[i] \in S /\ rank[s[i]] = i
  <2> HIDE DEF rank
  <2> QED BY <1>8
<1>10. s \in [1..N -> S]
  <2>1. s = [i \in 1..N |-> s[i]]
    <3> HIDE DEF rank, N
    <3> QED OBVIOUS
  <2> HIDE DEF s
  <2> QED BY <1>9, <2>1
<1> HIDE DEF s, rank, below, N
<1>11. s \in SetToSeqs(S)
  <2>1. \A i, j \in 1..N : i # j => s[i] # s[j]
    BY <1>9
  <2> QED BY <1>10, <2>1 DEF SetToSeqs, N
<1>12. ASSUME NEW i \in DOMAIN s, NEW j \in DOMAIN s, i < j
       PROVE  num(s[i]) < num(s[j])
  <2>1. i \in 1..N /\ j \in 1..N
    BY <1>10
  <2>2. s[i] \in S /\ s[j] \in S /\ rank[s[i]] = i /\ rank[s[j]] = j
    BY <1>9, <2>1
  <2>3. s[i] # s[j] /\ ~(num(s[j]) < num(s[i]))
    BY <1>1, <1>5, <1>12, <2>1, <2>2
  <2> QED BY <1>2, <1>3, <2>2, <2>3
<1>13. \E t \in SetToSeqs(Stored(n)) :
          \A i, j \in DOMAIN t : i < j => n.table[t[i]].number < n.table[t[j]].number
  BY <1>11, <1>12 DEF num, S
<1> QED BY <1>13 DEF ByNumber

\* The nodes that differ from n in where its keys are.
Packings(n) ==
    {m \in Shape :
        /\ Sound(m) /\ Stored(m) = Stored(n)
        /\ \A k \in Stored(n) : m.table[k].size = n.table[k].size
        /\ m.left = n.left /\ m.up = n.up /\ m.pointer = n.pointer
        /\ m.fd = n.fd /\ m.opened = n.opened /\ m.disk = n.disk}

\* A round of the compaction moves a key.
LEMMA CompactKeyPacking ==
  ASSUME NEW n, Sound(n), NEW m \in Packings(n), NEW k \in Stored(n)
  PROVE  CompactKey(m, k) \in Packings(n)
<1>1. /\ m \in Shape /\ Apart(m) /\ Counted(m) /\ Whole(m) /\ Sound(m)
      /\ Stored(m) = Stored(n) /\ k \in Stored(m)
      /\ \A l \in Stored(n) : m.table[l].size = n.table[l].size
      /\ m.left = n.left /\ m.up = n.up /\ m.pointer = n.pointer
      /\ m.fd = n.fd /\ m.opened = n.opened /\ m.disk = n.disk
  BY DEF Packings, Sound
<1> DEFINE c == CompactKey(m, k)
           p == Target(m, k)
<1>2. /\ c \in Shape /\ Stored(c) = Stored(m)
      /\ c.table[k] = [number |-> p, size |-> m.table[k].size]
      /\ \A l \in Key : l # k => c.table[l] = m.table[l]
      /\ c.left = m.left /\ c.up = m.up /\ c.pointer = m.pointer
      /\ c.fd = m.fd /\ c.opened = m.opened /\ c.disk = m.disk
  <2>1. m \in Shape /\ Apart(m) /\ Counted(m) /\ Whole(m) /\ k \in Stored(m)
    BY <1>1
  <2> QED BY <2>1, CompactKeyFields
<1>3. Sound(c)
  BY <1>1, CompactKeySound
<1> HIDE DEF c
<1>4. \A l \in Stored(n) : c.table[l].size = n.table[l].size
  <2> TAKE l \in Stored(n)
  <2>1. l \in Key
    BY DEF Stored
  <2> QED BY <1>1, <1>2, <2>1
<1> QED BY <1>1, <1>2, <1>3, <1>4 DEF Packings, c

\* The loop of compactation_compact, round by round.
LEMMA CompactRun ==
  ASSUME NEW n, Sound(n)
  PROVE  LET s == ByNumber(n)
             N == Cardinality(Stored(n)) IN
         /\ N \in Nat /\ s \in [1..N -> Stored(n)]
         /\ \A k \in Stored(n) : \E i \in 1..N : s[i] = k
         /\ \E r \in [0..N -> Packings(n)] :
               /\ r[0] = n /\ r[N] = Compact(n)
               /\ \A i \in 1..N : r[i] = CompactKey(r[i - 1], s[i])
<1> DEFINE s == ByNumber(n)
           S == Stored(n)
           N == Cardinality(S)
           U == Packings(n)
<1>0. n \in Shape /\ Apart(n)
  BY DEF Sound
<1>1. IsFiniteSet(S) /\ N \in Nat
  <2>1. S \in SUBSET Key /\ IsFiniteSet(Key)
    BY ConstantsAssumption DEF Stored
  <2> HIDE DEF S
  <2> QED BY <2>1, FS_Subset, FS_CardinalityType
<1>2. s \in [1..N -> S] /\ \A i, j \in 1..N : i # j => s[i] # s[j]
  <2>1. s \in SetToSeqs(S)
    BY <1>0, SortedKeys
  <2> HIDE DEF s, S
  <2> QED BY <2>1 DEF SetToSeqs
<1>3. \A k \in S : \E i \in 1..N : s[i] = k
  <2>1. s \in Injection(1..N, S)
    <3> HIDE DEF s, S, N
    <3> QED BY <1>2 DEF Injection, IsInjective
  <2>2. IsFiniteSet(1..N) /\ Cardinality(1..N) = N
    BY <1>1, FS_Interval
  <2>3. s \in Surjection(1..N, S)
    <3> HIDE DEF s, S
    <3> QED BY <1>1, <2>1, <2>2, FS_Injection
  <2> HIDE DEF s, S, N
  <2> QED BY <2>3 DEF Surjection
<1>4. n \in U
  BY <1>0 DEF Packings
<1> DEFINE G == [x \in (1..N) \X U |-> CompactKey(x[2], s[x[1]])]
<1>5. G \in [(1..N) \X U -> U]
  <2>1. \A i \in 1..N, m \in U : CompactKey(m, s[i]) \in U
    <3> HIDE DEF s, N
    <3> QED BY <1>2, CompactKeyPacking
  <2> HIDE DEF U, s, N
  <2> QED BY <2>1
<1>6. PICK f \in [SUBSET (1..N) -> U] : LoopOutcome(f, U, N, n, G)
  <2> HIDE DEF G, U, N
  <2> QED BY <1>1, <1>4, <1>5, LoopHasOutcome
<1> DEFINE rounds(g) == [x \in SUBSET (1..N) |->
                           IF x = {} THEN n ELSE CompactKey(g[x \ {Max(x)}], s[Max(x)])]
           it == CHOOSE g : g = rounds(g)
<1>7. f = rounds(f)
  <2>1. \A i \in 1..N, m \in U : G[<<i, m>>] = CompactKey(m, s[i])
    <3> HIDE DEF s, U, N
    <3> QED OBVIOUS
  <2> HIDE DEF G, U, s, N
  <2> QED BY <1>6, <2>1 DEF LoopOutcome
<1>8. it = rounds(it)
  <2> HIDE DEF rounds
  <2> QED BY <1>7
<1>9. Compact(n) = it[1..N]
  <2>1. DOMAIN s = 1..N
    <3> HIDE DEF s, N
    <3> QED BY <1>2
  <2> HIDE DEF s, N
  <2>2. Compact(n) = FoldLeft(CompactKey, n, s)
    BY DEF Compact, s
  <2> QED BY <2>1, <2>2 DEF FoldLeft, MapThenFoldSet
<1> HIDE DEF it
<1>10. it[{}] = n /\ \A i \in 1..N : it[1..i] = CompactKey(it[1..(i - 1)], s[i])
  <2> HIDE DEF s, N
  <2>1. it[{}] = n
    BY <1>8
  <2>2. ASSUME NEW i \in 1..N PROVE it[1..i] = CompactKey(it[1..(i - 1)], s[i])
    <3>1. /\ 1..i \in SUBSET (1..N) /\ 1..i # {}
          /\ Max(1..i) = i /\ (1..i) \ {i} = 1..(i - 1)
      BY <1>1, FirstNumbers
    <3> QED BY <1>8, <3>1
  <2> QED BY <2>1, <2>2
<1> DEFINE r == [i \in 0..N |-> it[1..i]]
<1>11. r[0] = n /\ r[N] = Compact(n) /\ \A i \in 1..N : r[i] = CompactKey(r[i - 1], s[i])
  <2> HIDE DEF s, N
  <2>1. 0 \in 0..N /\ N \in 0..N /\ 1..0 = {}
    BY <1>1
  <2>2. \A i \in 1..N : i \in 0..N /\ i - 1 \in 0..N
    BY <1>1
  <2> QED BY <1>9, <1>10, <2>1, <2>2
<1>12. \A i \in 0..N : r[i] \in U
  <2> DEFINE P == {i \in 0..N : r[i] \in U}
  <2>1. 0 \in P
    <3> HIDE DEF r, U, N
    <3> QED BY <1>1, <1>4, <1>11
  <2>2. ASSUME NEW i \in 1..N, i - 1 \in P PROVE i \in P
    <3>1. i \in 0..N /\ r[i - 1] \in U /\ s[i] \in S
      <4> HIDE DEF r, U, N, s, S
      <4> QED BY <1>1, <1>2, <2>2
    <3>2. r[i] = CompactKey(r[i - 1], s[i])
      BY <1>11
    <3> HIDE DEF r, s
    <3> QED BY <3>1, <3>2, CompactKeyPacking
  <2>3. \A i \in 0..N : i \in P
    <3> HIDE DEF P, N
    <3> QED BY <1>1, <2>1, <2>2, UpTo
  <2> QED BY <2>3
<1>13. r \in [0..N -> U]
  <2>1. r = [i \in 0..N |-> r[i]]
    <3> HIDE DEF N
    <3> QED OBVIOUS
  <2> HIDE DEF r
  <2> QED BY <1>12, <2>1
<1>14. \E t \in [0..N -> U] : /\ t[0] = n /\ t[N] = Compact(n)
                              /\ \A i \in 1..N : t[i] = CompactKey(t[i - 1], s[i])
  <2> HIDE DEF r, U, N, s
  <2> QED BY <1>11, <1>13
<1> QED BY <1>1, <1>2, <1>3, <1>14

\* The compaction keeps the node in order, its keys and their sizes.
LEMMA CompactPacking ==
  ASSUME NEW n, Sound(n)
  PROVE  Compact(n) \in Packings(n)
<1>1. Cardinality(Stored(n)) \in Nat /\ Cardinality(Stored(n)) \in 0..Cardinality(Stored(n))
  BY CompactRun
<1> QED BY <1>1, CompactRun

-----------------------------------------------------------------------------
(* The replacement algorithms *)

\* What a loop keeps, its result has, and its rounds before.
LEMMA LoopStays ==
  ASSUME NEW N \in Nat, NEW U, NEW it, it[{}] \in U,
         \A i \in 1..N : it[1..(i - 1)] \in U => it[1..i] \in U
  PROVE  it[1..N] \in U /\ \A i \in 0..N : it[1..i] \in U
<1> DEFINE P == {i \in 0..N : it[1..i] \in U}
<1>1. 0 \in P
  <2>1. 1..0 = {} /\ 0 \in 0..N
    OBVIOUS
  <2> QED BY <2>1
<1>2. ASSUME NEW i \in 1..N, i - 1 \in P PROVE i \in P
  BY <1>2
<1>3. \A i \in 0..N : i \in P
  <2> HIDE DEF P
  <2> QED BY <1>1, <1>2, UpTo
<1> QED BY <1>3

\* What an algorithm works on.
Working == [status : Lines, pointer : Nat, replaced : Seq(Key), wanted : Int]

\* What an algorithm may have made of c0: it gave up lines that were atomic, and added
\* their keys to the list.
Picks(c0) ==
    {c \in Working :
        /\ \A i \in Line :
              \/ c.status[i] = c0.status[i]
              \/ /\ c0.status[i].st = "ATOMIC" /\ c0.status[i].key \in ToSet(c.replaced)
                 /\ c.status[i] = [c0.status[i] EXCEPT !.st = "USED"]
        /\ \A k \in ToSet(c.replaced) :
              \/ k \in ToSet(c0.replaced)
              \/ \E i \in Line : /\ c0.status[i].st = "ATOMIC" /\ c0.status[i].key = k
                                 /\ c.status[i].st = "USED"
        /\ ToSet(c0.replaced) \subseteq ToSet(c.replaced)}

\* The choices an algorithm may start from.
Starts == {c \in Working : \A i \in Line : c.status[i].st = "ATOMIC" => c.status[i].key \in Key}

\* A visited line is given up or left as it is (algorithm_circular, algorithm_lru).
LEMMA VisitPicks ==
  ASSUME NEW c0 \in Starts, NEW c \in Picks(c0), NEW i \in Line
  PROVE  Visit(c, i) \in Picks(c0)
<1>1. /\ c \in Working
      /\ c.status \in Lines /\ c.pointer \in Nat /\ c.replaced \in Seq(Key) /\ c.wanted \in Int
      /\ \A j \in Line :
            \/ c.status[j] = c0.status[j]
            \/ /\ c0.status[j].st = "ATOMIC" /\ c0.status[j].key \in ToSet(c.replaced)
               /\ c.status[j] = [c0.status[j] EXCEPT !.st = "USED"]
      /\ \A k \in ToSet(c.replaced) :
            \/ k \in ToSet(c0.replaced)
            \/ \E j \in Line : /\ c0.status[j].st = "ATOMIC" /\ c0.status[j].key = k
                               /\ c.status[j].st = "USED"
      /\ ToSet(c0.replaced) \subseteq ToSet(c.replaced)
  BY DEF Picks, Working
<1>2. CASE c.wanted = 0 \/ c.status[i].st # "ATOMIC"
  BY <1>2 DEF Visit
<1>3. CASE c.wanted # 0 /\ c.status[i].st = "ATOMIC"
  <2> DEFINE x == c.status[i]
             y == [x EXCEPT !.st = "USED"]
             s == [c.status EXCEPT ![i] = y]
             r == Append(c.replaced, x.key)
             w == c.wanted - 1
             v == Visit(c, i)
  <2>1. x \in Status /\ y \in Status /\ y.st = "USED"
    <3>1. x \in Status
      BY <1>1 DEF Lines
    <3> HIDE DEF x
    <3> QED BY <3>1 DEF Status
  <2>2. c.status[i] = c0.status[i]
    <3>1. c0.status[i] \in Status
      BY DEF Starts, Working, Lines
    <3>2. c.status[i] = [c0.status[i] EXCEPT !.st = "USED"] => c.status[i].st = "USED"
      BY <3>1 DEF Status
    <3> QED BY <1>1, <1>3, <3>2
  <2>3. x.key \in Key
    BY <1>3, <2>2 DEF Starts
  <2>4. r \in Seq(Key) /\ ToSet(r) = ToSet(c.replaced) \cup {x.key}
    <3> HIDE DEF x
    <3> QED BY <1>1, <2>3, AppendSet
  <2>5. s \in Lines /\ s[i] = y /\ \A j \in Line : j # i => s[j] = c.status[j]
    <3> HIDE DEF y
    <3> QED BY <1>1, <2>1 DEF Lines
  <2>6. v = [c EXCEPT !.status = s, !.wanted = w, !.replaced = r]
    BY <1>3 DEF Visit
  <2>7. w \in Int
    BY <1>1
  <2> HIDE DEF v, s, w, r, y
  <2>8. v \in Working /\ v.status = s /\ v.replaced = r
    BY <1>1, <2>4, <2>5, <2>6, <2>7 DEF Working
  <2>9. ASSUME NEW j \in Line
        PROVE  \/ v.status[j] = c0.status[j]
               \/ /\ c0.status[j].st = "ATOMIC" /\ c0.status[j].key \in ToSet(v.replaced)
                  /\ v.status[j] = [c0.status[j] EXCEPT !.st = "USED"]
    BY <1>1, <1>3, <2>2, <2>4, <2>5, <2>8 DEF y
  <2>10. ASSUME NEW k \in ToSet(v.replaced), k \notin ToSet(c0.replaced)
         PROVE  \E j \in Line : /\ c0.status[j].st = "ATOMIC" /\ c0.status[j].key = k
                                /\ v.status[j].st = "USED"
    <3>1. CASE k = x.key
      <4>1. c0.status[i].st = "ATOMIC" /\ c0.status[i].key = k /\ v.status[i].st = "USED"
        BY <1>3, <2>1, <2>2, <2>5, <2>8, <3>1 DEF y
      <4> QED BY <4>1
    <3>2. CASE k \in ToSet(c.replaced)
      <4>1. PICK j \in Line : /\ c0.status[j].st = "ATOMIC" /\ c0.status[j].key = k
                              /\ c.status[j].st = "USED"
        BY <1>1, <2>10, <3>2
      <4>2. j # i
        BY <1>3, <4>1
      <4> QED BY <2>5, <2>8, <4>1, <4>2
    <3> QED BY <2>4, <2>8, <3>1, <3>2
  <2>11. ToSet(c0.replaced) \subseteq ToSet(v.replaced)
    BY <1>1, <2>4, <2>8
  <2>12. v \in Picks(c0)
    BY <2>8, <2>9, <2>10, <2>11 DEF Picks
  <2> QED BY <2>12 DEF v
<1> QED BY <1>2, <1>3

\* The cursor and the number wanted are the algorithm's own.
LEMMA CursorPicks ==
  ASSUME NEW c0 \in Starts, NEW c \in Picks(c0), NEW p \in Nat, NEW w \in Int
  PROVE  /\ [c EXCEPT !.pointer = p] \in Picks(c0)
         /\ [c EXCEPT !.wanted = w] \in Picks(c0)
         /\ [c EXCEPT !.pointer = p, !.wanted = w] \in Picks(c0)
<1>1. ASSUME NEW d \in {[c EXCEPT !.pointer = p], [c EXCEPT !.wanted = w],
                        [c EXCEPT !.pointer = p, !.wanted = w]}
      PROVE  d \in Picks(c0)
  <2>0. c \in Working
    BY DEF Picks
  <2>1. d \in Working /\ d.status = c.status /\ d.replaced = c.replaced
    BY <2>0 DEF Working
  <2> QED BY <2>1 DEF Picks
<1> QED BY <1>1

\* The same for the cursor's visit.
LEMMA VisitAtPointerPicks ==
  ASSUME NEW c0 \in Starts, NEW c \in Picks(c0), NEW i \in Line
  PROVE  VisitAtPointer(c, i) \in Picks(c0)
<1>1. Visit(c, i) \in Picks(c0)
  BY VisitPicks
<1> DEFINE v == Visit(c, i)
<1>2. v.pointer + 1 \in Nat
  <2> HIDE DEF v
  <2> QED BY <1>1 DEF v, Picks, Working
<1>3. [v EXCEPT !.pointer = @ + 1] \in Picks(c0)
  <2> DEFINE p == v.pointer + 1
  <2>1. v \in Picks(c0) /\ p \in Nat
    BY <1>1, <1>2
  <2>0. 0 \in Int
    OBVIOUS
  <2> HIDE DEF v, p
  <2>2. [v EXCEPT !.pointer = p] \in Picks(c0)
    BY <2>0, <2>1, CursorPicks
  <2> QED BY <2>2 DEF p
<1> QED BY <1>3 DEF VisitAtPointer

\* A loop that visits lines, round by round.
LEMMA VisitsRun ==
  ASSUME NEW c0 \in Starts, NEW c \in Picks(c0), NEW s \in Seq(Line)
  PROVE  \E r \in [0..Len(s) -> Picks(c0)] :
            /\ r[0] = c /\ r[Len(s)] = FoldLeft(Visit, c, s)
            /\ \A i \in 1..Len(s) : r[i] = Visit(r[i - 1], s[i])
<1> DEFINE U == Picks(c0)
           N == Len(s)
           G == [x \in (1..N) \X U |-> Visit(x[2], s[x[1]])]
<1>1. N \in Nat /\ DOMAIN s = 1..N /\ \A i \in 1..N : s[i] \in Line
  OBVIOUS
<1>2. \A i \in 1..N, m \in U : Visit(m, s[i]) \in U
  <2> HIDE DEF N
  <2> QED BY <1>1, VisitPicks
<1>3. G \in [(1..N) \X U -> U]
  <2> HIDE DEF U, N
  <2> QED BY <1>2
<1>4. PICK f \in [SUBSET (1..N) -> U] : LoopOutcome(f, U, N, c, G)
  <2> HIDE DEF G, U, N
  <2>1. c \in U
    BY DEF U
  <2> QED BY <1>1, <1>3, <2>1, LoopHasOutcome
<1> DEFINE rounds(g) == [x \in SUBSET (1..N) |->
                           IF x = {} THEN c ELSE Visit(g[x \ {Max(x)}], s[Max(x)])]
           it == CHOOSE g : g = rounds(g)
<1>5. f = rounds(f)
  <2>1. \A i \in 1..N, m \in U : G[<<i, m>>] = Visit(m, s[i])
    <3> HIDE DEF U, N
    <3> QED OBVIOUS
  <2> HIDE DEF G, U, N
  <2> QED BY <1>4, <2>1 DEF LoopOutcome
<1>6. it = rounds(it)
  <2> HIDE DEF rounds
  <2> QED BY <1>5
<1>7. FoldLeft(Visit, c, s) = it[1..N]
  <2> HIDE DEF N
  <2> QED BY <1>1 DEF FoldLeft, MapThenFoldSet
<1> HIDE DEF it
<1>8. it[{}] = c
  <2> HIDE DEF N
  <2> QED BY <1>6
<1>9. ASSUME NEW i \in 1..N PROVE it[1..i] = Visit(it[1..(i - 1)], s[i])
  <2> HIDE DEF N
  <2>1. /\ 1..i \in SUBSET (1..N) /\ 1..i # {}
        /\ Max(1..i) = i /\ (1..i) \ {i} = 1..(i - 1)
    BY <1>1, FirstNumbers
  <2> QED BY <1>6, <2>1
<1>10. \A i \in 0..N : it[1..i] \in U
  <2>1. c \in U
    OBVIOUS
  <2> HIDE DEF N, U
  <2>2. it[{}] \in U /\ \A i \in 1..N : it[1..(i - 1)] \in U => it[1..i] \in U
    BY <1>2, <1>8, <1>9, <2>1
  <2>3. N \in Nat
    BY <1>1
  <2> QED BY <2>2, <2>3, LoopStays
<1> DEFINE r == [i \in 0..N |-> it[1..i]]
<1>11. 0 \in 0..N /\ N \in 0..N /\ 1..0 = {} /\ \A i \in 1..N : i \in 0..N /\ i - 1 \in 0..N
  <2> HIDE DEF N
  <2> QED BY <1>1
<1>12. r \in [0..N -> U] /\ r[0] = c /\ r[N] = it[1..N]
  <2> HIDE DEF N, U
  <2> QED BY <1>8, <1>10, <1>11
<1>13. \A i \in 1..N : r[i] = Visit(r[i - 1], s[i])
  <2> HIDE DEF N
  <2> QED BY <1>9, <1>11
<1>14. \E t \in [0..N -> U] : /\ t[0] = c /\ t[N] = FoldLeft(Visit, c, s)
                              /\ \A i \in 1..N : t[i] = Visit(t[i - 1], s[i])
  <2> HIDE DEF r, N
  <2> QED BY <1>7, <1>12, <1>13
<1> QED BY <1>14

\* It gives lines up.
LEMMA VisitsPick ==
  ASSUME NEW c0 \in Starts, NEW c \in Picks(c0), NEW s \in Seq(Line)
  PROVE  FoldLeft(Visit, c, s) \in Picks(c0)
<1> DEFINE v == FoldLeft(Visit, c, s)
<1>1. PICK r \in [0..Len(s) -> Picks(c0)] :
          /\ r[0] = c /\ r[Len(s)] = v
          /\ \A i \in 1..Len(s) : r[i] = Visit(r[i - 1], s[i])
  BY VisitsRun
<1>2. Len(s) \in 0..Len(s)
  OBVIOUS
<1> HIDE DEF v
<1> QED BY <1>1, <1>2 DEF v

\* A loop that visits lines with the cursor, round by round.
LEMMA VisitsAtPointerRun ==
  ASSUME NEW c0 \in Starts, NEW c \in Picks(c0), NEW s \in Seq(Line)
  PROVE  \E r \in [0..Len(s) -> Picks(c0)] :
            /\ r[0] = c /\ r[Len(s)] = FoldLeft(VisitAtPointer, c, s)
            /\ \A i \in 1..Len(s) : r[i] = VisitAtPointer(r[i - 1], s[i])
<1> DEFINE U == Picks(c0)
           N == Len(s)
           G == [x \in (1..N) \X U |-> VisitAtPointer(x[2], s[x[1]])]
<1>1. N \in Nat /\ DOMAIN s = 1..N /\ \A i \in 1..N : s[i] \in Line
  OBVIOUS
<1>2. \A i \in 1..N, m \in U : VisitAtPointer(m, s[i]) \in U
  <2> HIDE DEF N
  <2> QED BY <1>1, VisitAtPointerPicks
<1>3. G \in [(1..N) \X U -> U]
  <2> HIDE DEF U, N
  <2> QED BY <1>2
<1>4. PICK f \in [SUBSET (1..N) -> U] : LoopOutcome(f, U, N, c, G)
  <2> HIDE DEF G, U, N
  <2>1. c \in U
    BY DEF U
  <2> QED BY <1>1, <1>3, <2>1, LoopHasOutcome
<1> DEFINE rounds(g) == [x \in SUBSET (1..N) |->
                           IF x = {} THEN c
                           ELSE VisitAtPointer(g[x \ {Max(x)}], s[Max(x)])]
           it == CHOOSE g : g = rounds(g)
<1>5. f = rounds(f)
  <2>1. \A i \in 1..N, m \in U : G[<<i, m>>] = VisitAtPointer(m, s[i])
    <3> HIDE DEF U, N
    <3> QED OBVIOUS
  <2> HIDE DEF G, U, N
  <2> QED BY <1>4, <2>1 DEF LoopOutcome
<1>6. it = rounds(it)
  <2> HIDE DEF rounds
  <2> QED BY <1>5
<1>7. FoldLeft(VisitAtPointer, c, s) = it[1..N]
  <2> HIDE DEF N
  <2> QED BY <1>1 DEF FoldLeft, MapThenFoldSet
<1> HIDE DEF it
<1>8. it[{}] = c
  <2> HIDE DEF N
  <2> QED BY <1>6
<1>9. ASSUME NEW i \in 1..N PROVE it[1..i] = VisitAtPointer(it[1..(i - 1)], s[i])
  <2> HIDE DEF N
  <2>1. /\ 1..i \in SUBSET (1..N) /\ 1..i # {}
        /\ Max(1..i) = i /\ (1..i) \ {i} = 1..(i - 1)
    BY <1>1, FirstNumbers
  <2> QED BY <1>6, <2>1
<1>10. \A i \in 0..N : it[1..i] \in U
  <2>1. c \in U
    OBVIOUS
  <2> HIDE DEF N, U
  <2>2. it[{}] \in U /\ \A i \in 1..N : it[1..(i - 1)] \in U => it[1..i] \in U
    BY <1>2, <1>8, <1>9, <2>1
  <2>3. N \in Nat
    BY <1>1
  <2> QED BY <2>2, <2>3, LoopStays
<1> DEFINE r == [i \in 0..N |-> it[1..i]]
<1>11. 0 \in 0..N /\ N \in 0..N /\ 1..0 = {} /\ \A i \in 1..N : i \in 0..N /\ i - 1 \in 0..N
  <2> HIDE DEF N
  <2> QED BY <1>1
<1>12. r \in [0..N -> U] /\ r[0] = c /\ r[N] = it[1..N]
  <2> HIDE DEF N, U
  <2> QED BY <1>8, <1>10, <1>11
<1>13. \A i \in 1..N : r[i] = VisitAtPointer(r[i - 1], s[i])
  <2> HIDE DEF N
  <2> QED BY <1>9, <1>11
<1>14. \E t \in [0..N -> U] : /\ t[0] = c /\ t[N] = FoldLeft(VisitAtPointer, c, s)
                              /\ \A i \in 1..N : t[i] = VisitAtPointer(t[i - 1], s[i])
  <2> HIDE DEF r, N
  <2> QED BY <1>7, <1>12, <1>13
<1> QED BY <1>14

\* It gives lines up.
LEMMA VisitsAtPointerPick ==
  ASSUME NEW c0 \in Starts, NEW c \in Picks(c0), NEW s \in Seq(Line)
  PROVE  FoldLeft(VisitAtPointer, c, s) \in Picks(c0)
<1> DEFINE v == FoldLeft(VisitAtPointer, c, s)
<1>1. PICK r \in [0..Len(s) -> Picks(c0)] :
          /\ r[0] = c /\ r[Len(s)] = v
          /\ \A i \in 1..Len(s) : r[i] = VisitAtPointer(r[i - 1], s[i])
  BY VisitsAtPointerRun
<1>2. Len(s) \in 0..Len(s)
  OBVIOUS
<1> HIDE DEF v
<1> QED BY <1>1, <1>2 DEF v

\* algorithm_circular gives lines up.
LEMMA CircularPicks ==
  ASSUME NEW n \in Shape, NEW c0 \in Starts, NEW c \in Picks(c0), NEW lines \in Seq(Line),
         NEW needed \in Int
  PROVE  /\ Circular(n, c, lines, needed).choice \in Picks(c0)
         /\ Circular(n, c, lines, needed).total \in Int
<1> DEFINE size  == Len(lines)
           start == IF c.pointer >= size THEN 0 ELSE c.pointer
           begin == [c EXCEPT !.pointer = start, !.wanted = needed - n.left]
           first == FoldLeft(VisitAtPointer, begin, SubSeq(lines, start + 1, size))
           again == FoldLeft(Visit, first, SubSeq(lines, 1, start))
<1>1. /\ c.pointer \in Nat /\ c.replaced \in Seq(Key) /\ n.left \in Int /\ size \in Nat
      /\ \A i \in 1..size : lines[i] \in Line
  BY DEF Picks, Working, Shape
<1>2. start \in 0..size
  <2> HIDE DEF size
  <2> QED BY <1>1
<1>3. SubSeq(lines, start + 1, size) \in Seq(Line) /\ SubSeq(lines, 1, start) \in Seq(Line)
  <2>1. /\ start + 1 \in 1 .. size + 1 /\ start \in 0..size
        /\ \A i \in start + 1 .. size : lines[i] \in Line
        /\ \A i \in 1 .. start : lines[i] \in Line
    <3> HIDE DEF start, size
    <3> QED BY <1>1, <1>2
  <2> HIDE DEF start, size
  <2> QED BY <1>1, <2>1, SubSeqProperties
<1>4. begin \in Picks(c0)
  <2> DEFINE w == needed - n.left
  <2>1. start \in Nat /\ w \in Int
    <3> HIDE DEF start
    <3> QED BY <1>1, <1>2
  <2> HIDE DEF start, w
  <2>2. [c EXCEPT !.pointer = start, !.wanted = w] \in Picks(c0)
    BY <2>1, CursorPicks
  <2> QED BY <2>2 DEF w
<1>5. first \in Picks(c0)
  <2> HIDE DEF start, size, begin
  <2> QED BY <1>3, <1>4, VisitsAtPointerPick
<1>6. again \in Picks(c0)
  <2> HIDE DEF start, size, begin, first
  <2> QED BY <1>3, <1>5, VisitsPick
<1>7. Len(again.replaced) - Len(c.replaced) \in Int
  <2>1. again.replaced \in Seq(Key)
    <3> HIDE DEF again
    <3> QED BY <1>6 DEF Picks, Working
  <2> HIDE DEF again
  <2> QED BY <1>1, <2>1
<1>8. Circular(n, c, lines, needed) =
          IF needed > n.left /\ NewValueFits(n, needed)
          THEN [choice |-> again, total |-> Len(again.replaced) - Len(c.replaced)]
          ELSE [choice |-> c, total |-> -1]
  BY DEF Circular
<1> HIDE DEF again
<1> QED BY <1>6, <1>7, <1>8

\* An order of the lines names all of them (list_sort).
LEMMA OrderOfLines ==
  ASSUME NEW rank, NEW o \in Orders(rank)
  PROVE  o \in [1..TotalEntries -> Line] /\ o \in Seq(Line) /\ Len(o) = TotalEntries
<1>1. o \in [1..TotalEntries -> Line]
  BY LineSets DEF Orders, SetToSeqs
<1> QED BY <1>1, Numbers

\* algorithm_lru gives lines up.
LEMMA LruPicks ==
  ASSUME NEW n \in Shape, NEW replaced \in Seq(Key), NEW needed \in Int,
         Choice(n, replaced, 0) \in Starts, NEW c \in Lru(n, replaced, needed)
  PROVE  c \in Picks(Choice(n, replaced, 0))
<1> DEFINE c0 == Choice(n, replaced, 0)
           b == Choice(n, replaced, needed - n.left)
<1>1. c0 \in Picks(c0)
  BY DEF Picks, Starts
<1>2. b \in Picks(c0)
  <2> DEFINE w == needed - n.left
  <2>1. w \in Int
    BY DEF Shape
  <2>2. b = [c0 EXCEPT !.wanted = w]
    BY DEF Choice
  <2> HIDE DEF w, c0
  <2> QED BY <1>1, <2>1, <2>2, CursorPicks DEF c0
<1>3. PICK o \in Orders([i \in Line |-> n.status[i].last_referenced]) : c = FoldLeft(Visit, b, o)
  BY DEF Lru
<1>4. o \in Seq(Line)
  BY OrderOfLines
<1> HIDE DEF b
<1> QED BY <1>2, <1>3, <1>4, VisitsPick

\* algorithm_bsu gives lines up.
LEMMA BsuPicks ==
  ASSUME NEW n \in Shape, NEW replaced \in Seq(Key), NEW needed \in Int,
         Choice(n, replaced, 0) \in Starts, NEW c \in Bsu(n, replaced, needed)
  PROVE  c \in Picks(Choice(n, replaced, 0))
<1> DEFINE c0 == Choice(n, replaced, 0)
           b == Choice(n, replaced, needed - n.left)
           U == [choice : Picks(c0), same : Seq(Line)]
           N == TotalEntries
           ids == [i \in 1..N |-> i]
           base == [choice |-> b, same |-> <<>>]
           step(order, acc, i) ==
            LET d == acc.choice
                alike == {j \in i .. TotalEntries :
                            d.status[order[j]].space_used = d.status[order[i]].space_used}
                same == acc.same \o SubSeq(order, i, Max(alike))
                round == Circular(n, d, same, d.wanted) IN
            IF d.wanted = 0 \/ d.status[order[i]].st # "ATOMIC" THEN acc
            ELSE IF Len(same) = 1 THEN [choice |-> Visit(d, order[i]), same |-> same]
            ELSE [choice |-> [round.choice EXCEPT !.wanted = d.wanted - round.total],
                  same |-> same]
<1>1. c0 \in Picks(c0)
  BY DEF Picks, Starts
<1>2. b \in Picks(c0)
  <2> DEFINE w == needed - n.left
  <2>1. w \in Int
    BY DEF Shape
  <2>2. b = [c0 EXCEPT !.wanted = w]
    BY DEF Choice
  <2>3. 0 \in Nat
    OBVIOUS
  <2> HIDE DEF w, c0
  <2> QED BY <1>1, <2>1, <2>2, <2>3, CursorPicks DEF c0
<1>3. PICK o \in Orders([i \in Line |-> n.status[i].space_used]) :
           c = FoldLeft(LAMBDA acc, i : step(o, acc, i), base, ids).choice
  BY DEF Bsu
<1>4. o \in [1..N -> Line] /\ N \in Nat
  BY OrderOfLines, Numbers
<1> HIDE DEF b, c0, N
<1>5. ASSUME NEW i \in 1..N, NEW acc \in U
      PROVE  step(o, acc, i) \in U
  <2> DEFINE d == acc.choice
             alike == {j \in i .. TotalEntries :
                          d.status[o[j]].space_used = d.status[o[i]].space_used}
             same == acc.same \o SubSeq(o, i, Max(alike))
             round == Circular(n, d, same, d.wanted)
  <2>1. d \in Picks(c0) /\ acc.same \in Seq(Line) /\ d.wanted \in Int
    BY DEF Picks, Working
  <2>2. Max(alike) \in i..N
    <3>1. alike \in SUBSET (1..N) /\ i \in alike
      BY <1>4 DEF N
    <3>2. \A j \in alike : j \in i..N
      BY <1>4 DEF N
    <3> HIDE DEF alike
    <3>3. Max(alike) \in alike
      BY <1>4, <3>1, MaxIndex
    <3> QED BY <3>2, <3>3
  <2>3. SubSeq(o, i, Max(alike)) \in Seq(Line)
    <3> DEFINE m == Max(alike)
    <3>0. m \in i..N
      BY <2>2
    <3> HIDE DEF m
    <3>1. m \in Int /\ i \in Int /\ \A j \in i..m : o[j] \in Line
      BY <1>4, <3>0
    <3>2. SubSeq(o, i, m) \in Seq(Line)
      BY <3>1, SubSeqProperties
    <3> QED BY <3>2 DEF m
  <2>4. same \in Seq(Line)
    <3> DEFINE t == SubSeq(o, i, Max(alike))
    <3> HIDE DEF t
    <3>1. acc.same \o t \in Seq(Line)
      BY <2>1, <2>3, ConcatProperties DEF t
    <3> QED BY <3>1 DEF t
  <2> HIDE DEF same, d
  <2>5. round.choice \in Picks(c0) /\ round.total \in Int
    BY <2>1, <2>4, CircularPicks DEF c0
  <2> HIDE DEF round
  <2>6. [round.choice EXCEPT !.wanted = d.wanted - round.total] \in Picks(c0)
    <3> DEFINE w == d.wanted - round.total
               rc == round.choice
    <3>1. w \in Int /\ rc \in Picks(c0) /\ 0 \in Nat
      BY <2>1, <2>5
    <3> HIDE DEF w, rc
    <3>2. [rc EXCEPT !.wanted = w] \in Picks(c0)
      BY <3>1, CursorPicks DEF c0
    <3> QED BY <3>2 DEF w, rc
  <2>7. Visit(d, o[i]) \in Picks(c0)
    BY <1>4, <2>1, VisitPicks DEF c0
  <2>8. step(o, acc, i) =
            IF d.wanted = 0 \/ d.status[o[i]].st # "ATOMIC" THEN acc
            ELSE IF Len(same) = 1 THEN [choice |-> Visit(d, o[i]), same |-> same]
            ELSE [choice |-> [round.choice EXCEPT !.wanted = d.wanted - round.total],
                  same |-> same]
    BY DEF same, d, round
  <2> HIDE DEF step
  <2> QED BY <2>4, <2>6, <2>7, <2>8
<1> HIDE DEF step
<1> DEFINE G == [x \in (1..N) \X U |-> step(o, x[2], x[1])]
<1>6. G \in [(1..N) \X U -> U]
  <2> HIDE DEF U
  <2> QED BY <1>5
<1>7. base \in U
  <2>1. <<>> \in Seq(Line)
    OBVIOUS
  <2> QED BY <1>2, <2>1
<1> HIDE DEF base
<1>8. PICK f \in [SUBSET (1..N) -> U] : LoopOutcome(f, U, N, base, G)
  <2> HIDE DEF G, U
  <2> QED BY <1>4, <1>6, <1>7, LoopHasOutcome
<1> DEFINE rounds(g) == [x \in SUBSET (1..N) |->
                           IF x = {} THEN base ELSE step(o, g[x \ {Max(x)}], ids[Max(x)])]
           it == CHOOSE g : g = rounds(g)
<1>9. f = rounds(f)
  <2>1. \A i \in 1..N, m \in U : G[<<i, m>>] = step(o, m, ids[i])
    <3> HIDE DEF U
    <3> QED OBVIOUS
  <2> HIDE DEF G, U, ids
  <2> QED BY <1>8, <2>1 DEF LoopOutcome
<1>10. it = rounds(it)
  <2> HIDE DEF rounds
  <2> QED BY <1>9
<1>11. FoldLeft(LAMBDA acc, i : step(o, acc, i), base, ids) = it[1..N]
  <2>1. DOMAIN ids = 1..N
    OBVIOUS
  <2> HIDE DEF ids
  <2> QED BY <2>1 DEF FoldLeft, MapThenFoldSet
<1> HIDE DEF it
<1>12. it[{}] \in U
  <2>1. it[{}] = base
    <3> HIDE DEF ids
    <3> QED BY <1>10
  <2> QED BY <1>7, <2>1
<1>13. ASSUME NEW i \in 1..N, it[1..(i - 1)] \in U PROVE it[1..i] \in U
  <2> HIDE DEF U
  <2>1. /\ 1..i \in SUBSET (1..N) /\ 1..i # {}
        /\ Max(1..i) = i /\ (1..i) \ {i} = 1..(i - 1)
    BY <1>4, FirstNumbers
  <2>2. it[1..i] = step(o, it[1..(i - 1)], i)
    BY <1>10, <2>1
  <2> QED BY <1>5, <1>13, <2>2
<1>14. it[1..N] \in U
  <2> HIDE DEF U
  <2> QED BY <1>4, <1>12, <1>13, LoopStays
<1>15. c \in Picks(c0)
  BY <1>3, <1>11, <1>14
<1> QED BY <1>15 DEF c0

\* What algorithms_exec may answer: lines given up, and their keys added to the list.
LEMMA ExecPicks ==
  ASSUME NEW n \in Shape, NEW replaced \in Seq(Key), NEW needed \in Int,
         Choice(n, replaced, 0) \in Starts, NEW c \in AlgorithmsExec(n, replaced, needed)
  PROVE  c \in Picks(Choice(n, replaced, 0))
<1> DEFINE c0 == Choice(n, replaced, 0)
           lines == [i \in 1 .. TotalEntries |-> i - 1]
           circular == Circular(n, c0, lines, needed)
<1>1. c0 \in Picks(c0)
  BY DEF Picks, Starts
<1>2. lines \in Seq(Line)
  <2>1. lines \in [1 .. TotalEntries -> Line] /\ TotalEntries \in Nat
    BY Numbers DEF Line
  <2> HIDE DEF lines
  <2> QED BY <2>1
<1>3. circular.choice \in Picks(c0)
  <2> HIDE DEF lines, c0
  <2> QED BY <1>1, <1>2, CircularPicks DEF c0
<1>4. c \in Lru(n, replaced, needed) \/ c \in Bsu(n, replaced, needed)
      \/ c = circular.choice \/ c = c0
  BY DEF AlgorithmsExec
<1> HIDE DEF circular
<1> QED BY <1>1, <1>3, <1>4, LruPicks, BsuPicks

-----------------------------------------------------------------------------
(* The replacement *)

\* What a loop keeps at each of its rounds, its result has.
LEMMA LoopStaysAt ==
  ASSUME NEW N \in Nat, NEW U, NEW it, <<0, it[{}]>> \in U,
         \A i \in 1..N : <<i - 1, it[1..(i - 1)]>> \in U => <<i, it[1..i]>> \in U
  PROVE  <<N, it[1..N]>> \in U
<1> DEFINE P == {i \in 0..N : <<i, it[1..i]>> \in U}
<1>1. 0 \in P
  <2>1. 1..0 = {} /\ 0 \in 0..N
    OBVIOUS
  <2> QED BY <2>1
<1>2. ASSUME NEW i \in 1..N, i - 1 \in P PROVE i \in P
  BY <1>2
<1>3. \A i \in 0..N : i \in P
  <2> HIDE DEF P
  <2> QED BY <1>1, <1>2, UpTo
<1> QED BY <1>3

\* The nodes that n becomes when keys are deleted from its entry table.
Deletions(n) ==
    {m \in Shape :
        /\ Apart(m) /\ Counted(m) /\ Whole(m)
        /\ Stored(m) \subseteq Stored(n) /\ \A k \in Stored(m) : m.table[k] = n.table[k]
        /\ m.up = n.up /\ m.status = n.status /\ m.pointer = n.pointer /\ m.data = n.data
        /\ m.fd = n.fd /\ m.opened = n.opened /\ m.disk = n.disk}

\* Values stay whole when a key is deleted.
LEMMA DeleteWhole ==
  ASSUME NEW n \in Shape, Whole(n), NEW k \in Key
  PROVE  Whole(Delete(n, k))
<1> DEFINE d == Delete(n, k)
<1>1. Stored(d) \subseteq Stored(n) /\ d.data = n.data
      /\ \A l \in Stored(d) : d.table[l] = n.table[l]
  BY DeleteFields
<1> HIDE DEF d
<1>2. \A l \in Stored(d) : Used(d, l) = Used(n, l)
  BY <1>1 DEF Used
<1>3. Whole(d)
  BY <1>1, <1>2 DEF Whole
<1> QED BY <1>3 DEF d

\* A deletion after others.
LEMMA DeleteDeletion ==
  ASSUME NEW n, NEW m \in Deletions(n), NEW k \in Key
  PROVE  Delete(m, k) \in Deletions(n) /\ Stored(Delete(m, k)) = Stored(m) \ {k}
<1> DEFINE d == Delete(m, k)
<1>1. /\ m \in Shape /\ Apart(m) /\ Counted(m) /\ Whole(m)
      /\ Stored(m) \subseteq Stored(n) /\ \A l \in Stored(m) : m.table[l] = n.table[l]
      /\ m.up = n.up /\ m.status = n.status /\ m.pointer = n.pointer /\ m.data = n.data
      /\ m.fd = n.fd /\ m.opened = n.opened /\ m.disk = n.disk
  BY DEF Deletions
<1>2. /\ d \in Shape /\ Stored(d) = Stored(m) \ {k}
      /\ \A l \in Stored(d) : d.table[l] = m.table[l]
      /\ d.up = m.up /\ d.status = m.status
      /\ d.pointer = m.pointer /\ d.data = m.data
      /\ d.fd = m.fd /\ d.opened = m.opened /\ d.disk = m.disk
  BY <1>1, DeleteFields
<1>3. Apart(d) /\ Counted(d) /\ Whole(d)
  BY <1>1, DeletePlaced, DeleteWhole
<1> HIDE DEF d
<1>4. \A l \in Stored(d) : d.table[l] = n.table[l]
  BY <1>1, <1>2
<1>5. d \in Deletions(n)
  BY <1>1, <1>2, <1>3, <1>4 DEF Deletions
<1> QED BY <1>2, <1>5 DEF d

\* The loop of instance_set that deletes the keys chosen (entry_table_delete_few).
LEMMA DeleteAll ==
  ASSUME NEW n \in Shape, Apart(n), Counted(n), Whole(n), NEW s \in Seq(Key)
  PROVE  /\ FoldLeft(Delete, n, s) \in Deletions(n)
         /\ Stored(FoldLeft(Delete, n, s)) = Stored(n) \ ToSet(s)
<1> DEFINE U == Deletions(n)
           N == Len(s)
           G == [x \in (1..N) \X U |-> Delete(x[2], s[x[1]])]
<1>1. N \in Nat /\ DOMAIN s = 1..N /\ \A i \in 1..N : s[i] \in Key
  OBVIOUS
<1>2. \A i \in 1..N, m \in U : Delete(m, s[i]) \in U
                               /\ Stored(Delete(m, s[i])) = Stored(m) \ {s[i]}
  <2> HIDE DEF N
  <2> QED BY <1>1, DeleteDeletion
<1>3. G \in [(1..N) \X U -> U]
  <2> HIDE DEF U, N
  <2> QED BY <1>2
<1>4. n \in U
  BY DEF Deletions
<1>5. PICK f \in [SUBSET (1..N) -> U] : LoopOutcome(f, U, N, n, G)
  <2> HIDE DEF G, U, N
  <2> QED BY <1>1, <1>3, <1>4, LoopHasOutcome
<1> DEFINE rounds(g) == [x \in SUBSET (1..N) |->
                           IF x = {} THEN n ELSE Delete(g[x \ {Max(x)}], s[Max(x)])]
           it == CHOOSE g : g = rounds(g)
<1>6. f = rounds(f)
  <2>1. \A i \in 1..N, m \in U : G[<<i, m>>] = Delete(m, s[i])
    <3> HIDE DEF U, N
    <3> QED OBVIOUS
  <2> HIDE DEF G, U, N
  <2> QED BY <1>5, <2>1 DEF LoopOutcome
<1>7. it = rounds(it)
  <2> HIDE DEF rounds
  <2> QED BY <1>6
<1>8. FoldLeft(Delete, n, s) = it[1..N]
  <2> HIDE DEF N
  <2> QED BY <1>1 DEF FoldLeft, MapThenFoldSet
<1> HIDE DEF it
<1> DEFINE At == {x \in (0..N) \X U : Stored(x[2]) = Stored(n) \ {s[j] : j \in 1..x[1]}}
<1>9. <<0, it[{}]>> \in At
  <2> HIDE DEF N, U
  <2>1. it[{}] = n /\ {s[j] : j \in 1..0} = {} /\ 0 \in 0..N
    BY <1>1, <1>7
  <2>2. Stored(n) = Stored(n) \ {s[j] : j \in 1..0}
    BY <2>1
  <2> QED BY <1>4, <2>1, <2>2
<1>10. ASSUME NEW i \in 1..N, <<i - 1, it[1..(i - 1)]>> \in At PROVE <<i, it[1..i]>> \in At
  <2> HIDE DEF N, U
  <2>1. /\ 1..i \in SUBSET (1..N) /\ 1..i # {}
        /\ Max(1..i) = i /\ (1..i) \ {i} = 1..(i - 1)
    BY <1>1, FirstNumbers
  <2> DEFINE m == it[1..(i - 1)]
  <2>2. it[1..i] = Delete(m, s[i])
    BY <1>7, <2>1
  <2>3. m \in U /\ Stored(m) = Stored(n) \ {s[j] : j \in 1..(i - 1)}
    BY <1>10
  <2>4. it[1..i] \in U /\ Stored(it[1..i]) = Stored(m) \ {s[i]}
    BY <1>2, <2>2, <2>3
  <2>5. {s[j] : j \in 1..i} = {s[j] : j \in 1..(i - 1)} \cup {s[i]}
    BY <2>1
  <2>6. i \in 0..N
    BY <1>1
  <2> QED BY <2>3, <2>4, <2>5, <2>6
<1>11. <<N, it[1..N]>> \in At
  <2> HIDE DEF N, At
  <2> QED BY <1>1, <1>9, <1>10, LoopStaysAt
<1>12. it[1..N] \in U /\ Stored(it[1..N]) = Stored(n) \ {s[j] : j \in 1..N}
  <2> HIDE DEF U, N
  <2> QED BY <1>11
<1>13. ToSet(s) = {s[j] : j \in 1..N}
  <2> HIDE DEF N
  <2> QED BY <1>1 DEF ToSet
<1> QED BY <1>8, <1>12, <1>13

\* A node whose tables and storage are another's is in order if its files are.
LEMMA SoundElsewhere ==
  ASSUME NEW n, Sound(n), NEW m \in Shape, m.table = n.table, m.left = n.left,
         m.status = n.status, m.data = n.data, DescriptorsOwned(m)
  PROVE  Sound(m)
<1>1. n \in Shape /\ Apart(n) /\ Counted(n) /\ Whole(n) /\ AtomicNamed(n)
  BY DEF Sound
<1>2. Stored(m) = Stored(n) /\ Free(m) = Free(n) /\ Apart(m)
      /\ \A k \in Key : Used(m, k) = Used(n, k)
  BY <1>1, SameTable
<1>3. Counted(m)
  BY <1>1, <1>2 DEF Counted
<1>4. Whole(m)
  <2>1. Stored(n) \subseteq Key
    BY DEF Stored
  <2> QED BY <1>1, <1>2, <2>1 DEF Whole
<1>5. AtomicNamed(m)
  BY <1>1 DEF AtomicNamed
<1> QED BY <1>2, <1>3, <1>4, <1>5 DEF Sound

\* dumper_remove_key_value touches the descriptors and the files only.
LEMMA RemoveKeyValueFields ==
  ASSUME NEW n \in Shape, DescriptorsOwned(n), NEW k \in Key
  PROVE  LET m == RemoveKeyValue(n, k) IN
         /\ m \in Shape /\ DescriptorsOwned(m)
         /\ m.up = n.up /\ m.table = n.table /\ m.left = n.left /\ m.status = n.status
         /\ m.pointer = n.pointer /\ m.data = n.data
         /\ \A l \in Key : m.disk[l] \in {None, n.disk[l]}
<1> DEFINE m == RemoveKeyValue(n, k)
           f == IF n.fd[k] = None THEN 0 ELSE n.fd[k]
           o == [g \in Fd |-> IF g = f THEN None
                              ELSE IF n.opened[g] = k THEN "unlinked" ELSE n.opened[g]]
           d == [n.fd EXCEPT ![k] = None]
           x == [n.disk EXCEPT ![k] = None]
<1>1. n.fd \in Dictionary /\ n.opened \in OpenFiles /\ n.disk \in Files
  BY DEF Shape
<1>2. o \in OpenFiles
  <2>1. \A g \in Fd : o[g] \in Key \cup {None, "stdin", "unlinked"}
    BY <1>1 DEF OpenFiles
  <2>2. o = [g \in Fd |-> o[g]]
    OBVIOUS
  <2> HIDE DEF o
  <2> QED BY <2>1, <2>2 DEF OpenFiles
<1>3. /\ d \in Dictionary /\ x \in Files /\ d[k] = None
      /\ \A l \in Key : l # k => d[l] = n.fd[l]
      /\ \A l \in Key : x[l] \in {None, n.disk[l]}
  BY <1>1 DEF Dictionary, Files
<1>4. m = [n EXCEPT !.opened = o, !.fd = d, !.disk = x]
  BY DEF RemoveKeyValue
<1>5. \A g \in Fd : o[g] # None => g # f /\ n.opened[g] # None
  BY ConstantsAssumption
<1> HIDE DEF m, o, d, x
<1>6. /\ m \in Shape /\ m.opened = o /\ m.fd = d /\ m.disk = x
      /\ m.up = n.up /\ m.table = n.table /\ m.left = n.left /\ m.status = n.status
      /\ m.pointer = n.pointer /\ m.data = n.data
  BY <1>2, <1>3, <1>4 DEF Shape
<1>7. DescriptorsOwned(m)
  <2> SUFFICES ASSUME NEW g \in Fd, o[g] # None, g # 0
               PROVE  \E l \in Key : d[l] = g
    BY <1>6 DEF DescriptorsOwned
  <2>1. g # f /\ n.opened[g] # None
    BY <1>5
  <2>2. PICK l \in Key : n.fd[l] = g
    BY <2>1 DEF DescriptorsOwned
  <2>3. g # None
    <3>1. g \in Nat
      BY Numbers, FS_CardinalityType DEF Fd
    <3> QED BY <3>1, ConstantsAssumption
  <2>4. l # k
    BY <2>1, <2>2, <2>3
  <2> QED BY <1>3, <2>2, <2>4
<1> QED BY <1>3, <1>6, <1>7 DEF m

\* The nodes that n becomes when keys leave the files.
Removals(n) ==
    {m \in Shape :
        /\ DescriptorsOwned(m)
        /\ m.up = n.up /\ m.table = n.table /\ m.left = n.left /\ m.status = n.status
        /\ m.pointer = n.pointer /\ m.data = n.data
        /\ \A l \in Key : m.disk[l] \in {None, n.disk[l]}}

\* The loop of instance_set over the files of the keys chosen.
LEMMA RemoveAll ==
  ASSUME NEW n \in Shape, DescriptorsOwned(n), NEW s \in Seq(Key)
  PROVE  FoldLeft(RemoveKeyValue, n, s) \in Removals(n)
<1> DEFINE U == Removals(n)
           N == Len(s)
           G == [x \in (1..N) \X U |-> RemoveKeyValue(x[2], s[x[1]])]
<1>1. N \in Nat /\ DOMAIN s = 1..N /\ \A i \in 1..N : s[i] \in Key
  OBVIOUS
<1>2. ASSUME NEW i \in 1..N, NEW m \in U PROVE RemoveKeyValue(m, s[i]) \in U
  <2>1. /\ m \in Shape /\ DescriptorsOwned(m)
        /\ m.up = n.up /\ m.table = n.table /\ m.left = n.left /\ m.status = n.status
        /\ m.pointer = n.pointer /\ m.data = n.data
        /\ \A l \in Key : m.disk[l] \in {None, n.disk[l]}
    BY DEF Removals
  <2>2. s[i] \in Key
    BY <1>1
  <2> DEFINE v == RemoveKeyValue(m, s[i])
  <2>3. /\ v \in Shape /\ DescriptorsOwned(v)
        /\ v.up = m.up /\ v.table = m.table /\ v.left = m.left /\ v.status = m.status
        /\ v.pointer = m.pointer /\ v.data = m.data
        /\ \A l \in Key : v.disk[l] \in {None, m.disk[l]}
    BY <2>1, <2>2, RemoveKeyValueFields
  <2> HIDE DEF v
  <2>4. v \in U
    BY <2>1, <2>3 DEF Removals
  <2> QED BY <2>4 DEF v
<1>3. G \in [(1..N) \X U -> U]
  <2> HIDE DEF U, N
  <2> QED BY <1>2
<1>4. n \in U
  BY DEF Removals
<1>5. PICK f \in [SUBSET (1..N) -> U] : LoopOutcome(f, U, N, n, G)
  <2> HIDE DEF G, U, N
  <2> QED BY <1>1, <1>3, <1>4, LoopHasOutcome
<1> DEFINE rounds(g) == [x \in SUBSET (1..N) |->
                           IF x = {} THEN n ELSE RemoveKeyValue(g[x \ {Max(x)}], s[Max(x)])]
           it == CHOOSE g : g = rounds(g)
<1>6. f = rounds(f)
  <2>1. \A i \in 1..N, m \in U : G[<<i, m>>] = RemoveKeyValue(m, s[i])
    <3> HIDE DEF U, N
    <3> QED OBVIOUS
  <2> HIDE DEF G, U, N
  <2> QED BY <1>5, <2>1 DEF LoopOutcome
<1>7. it = rounds(it)
  <2> HIDE DEF rounds
  <2> QED BY <1>6
<1>8. FoldLeft(RemoveKeyValue, n, s) = it[1..N]
  <2> HIDE DEF N
  <2> QED BY <1>1 DEF FoldLeft, MapThenFoldSet
<1> HIDE DEF it
<1>9. it[{}] \in U
  <2>1. it[{}] = n
    <3> HIDE DEF N
    <3> QED BY <1>7
  <2> QED BY <1>4, <2>1
<1>10. ASSUME NEW i \in 1..N, it[1..(i - 1)] \in U PROVE it[1..i] \in U
  <2> HIDE DEF N, U
  <2>1. /\ 1..i \in SUBSET (1..N) /\ 1..i # {}
        /\ Max(1..i) = i /\ (1..i) \ {i} = 1..(i - 1)
    BY <1>1, FirstNumbers
  <2>2. it[1..i] = RemoveKeyValue(it[1..(i - 1)], s[i])
    BY <1>7, <2>1
  <2> QED BY <1>2, <1>10, <2>2
<1>11. it[1..N] \in U
  <2> HIDE DEF N, U
  <2> QED BY <1>1, <1>9, <1>10, LoopStays
<1> QED BY <1>8, <1>11

\* A node in order may be handed to an algorithm.
LEMMA ChoiceStarts ==
  ASSUME NEW n, Sound(n), NEW replaced \in Seq(Key)
  PROVE  Choice(n, replaced, 0) \in Starts
<1>1. n.status \in Lines /\ n.pointer \in Nat /\ AtomicNamed(n)
  BY DEF Sound, Shape
<1> QED BY <1>1 DEF Choice, Starts, Working, AtomicNamed

\* The replacement leaves the node in order, without the keys chosen.
LEMMA ReplaceSound ==
  ASSUME NEW n, Sound(n), NEW replaced \in Seq(Key), NEW c \in Picks(Choice(n, replaced, 0))
  PROVE  LET m == Replace(n, c) IN
         /\ Sound(m) /\ Stored(m) = Stored(n) \ ToSet(c.replaced)
         /\ \A k \in Stored(m) : m.table[k] = n.table[k]
         /\ m.up = n.up /\ m.status = c.status
         /\ \A k \in Key : m.disk[k] \in {None, n.disk[k]}
<1> DEFINE c0 == Choice(n, replaced, 0)
           d == FoldLeft(Delete, n, c.replaced)
           e == [d EXCEPT !.status = c.status, !.pointer = c.pointer]
           m == Replace(n, c)
<1>1. n \in Shape /\ Apart(n) /\ Counted(n) /\ Whole(n) /\ AtomicNamed(n) /\ DescriptorsOwned(n)
  BY DEF Sound
<1>2. c.status \in Lines /\ c.pointer \in Nat /\ c.replaced \in Seq(Key)
  BY DEF Picks, Working
<1>3. d \in Deletions(n) /\ Stored(d) = Stored(n) \ ToSet(c.replaced)
  BY <1>1, <1>2, DeleteAll
<1>4. m = FoldLeft(RemoveKeyValue, e, c.replaced)
  BY DEF Replace
<1> HIDE DEF d, m
<1>5. /\ d \in Shape /\ Apart(d) /\ Counted(d) /\ Whole(d)
      /\ \A k \in Stored(d) : d.table[k] = n.table[k]
      /\ d.up = n.up /\ d.fd = n.fd /\ d.opened = n.opened /\ d.disk = n.disk
  BY <1>3 DEF Deletions
<1>6. /\ e \in Shape /\ e.status = c.status /\ e.up = d.up /\ e.table = d.table
      /\ e.left = d.left /\ e.data = d.data /\ e.fd = d.fd /\ e.opened = d.opened
      /\ e.disk = d.disk
  BY <1>2, <1>5 DEF Shape
<1> HIDE DEF e
<1>7. DescriptorsOwned(e)
  BY <1>1, <1>5, <1>6 DEF DescriptorsOwned
<1>8. m \in Removals(e)
  BY <1>2, <1>4, <1>6, <1>7, RemoveAll
<1>9. /\ m \in Shape /\ DescriptorsOwned(m) /\ m.up = n.up /\ m.table = d.table
      /\ m.left = d.left /\ m.status = c.status /\ m.data = d.data
      /\ \A k \in Key : m.disk[k] \in {None, n.disk[k]}
  BY <1>5, <1>6, <1>8 DEF Removals
<1>10. Stored(m) = Stored(d) /\ Free(m) = Free(d) /\ Apart(m)
       /\ \A k \in Key : Used(m, k) = Used(d, k)
  BY <1>5, <1>9, SameTable
<1>11. Counted(m)
  BY <1>5, <1>9, <1>10 DEF Counted
<1>12. Whole(m)
  <2>1. Stored(d) \subseteq Key
    BY DEF Stored
  <2> QED BY <1>5, <1>9, <1>10, <2>1 DEF Whole
<1>13. AtomicNamed(m)
  <2> SUFFICES ASSUME NEW i \in Line, c.status[i].st = "ATOMIC" PROVE c.status[i].key \in Key
    BY <1>9 DEF AtomicNamed
  <2>1. n.status[i] \in Status /\ c0.status = n.status
    BY <1>1 DEF Shape, Lines, Choice
  <2>2. c.status[i] = n.status[i] \/ c.status[i] = [n.status[i] EXCEPT !.st = "USED"]
    BY <2>1 DEF Picks
  <2>3. c.status[i] = n.status[i]
    BY <2>1, <2>2 DEF Status
  <2> QED BY <1>1, <2>3 DEF AtomicNamed
<1>14. \A k \in Stored(m) : m.table[k] = n.table[k]
  BY <1>5, <1>9, <1>10
<1>15. Sound(m)
  BY <1>9, <1>10, <1>11, <1>12, <1>13 DEF Sound
<1> QED BY <1>3, <1>9, <1>10, <1>14, <1>15 DEF m

-----------------------------------------------------------------------------
(* instance_set *)

\* Writing a value where entry_table_next_entry says leaves the node in order.
LEMMA WrittenSound ==
  ASSUME NEW n, Sound(n), NEW k \in Key, NEW value \in Value,
         NextEntry(n, k, value.size) # -1,
         NextEntry(n, k, value.size) + ReqEntries(value.size) <= TotalEntries
  PROVE  LET size == value.size
             p == NextEntry(n, k, size)
             m == StatusAdd(Insert(StorageSet(n, p, Parts(value)), k, size, p), k, size, p) IN
         /\ Sound(m) /\ Stored(m) = Stored(n) \cup {k}
         /\ m.table[k] = [number |-> p, size |-> size]
         /\ \A l \in Key : l # k => m.table[l] = n.table[l]
         /\ m.up = n.up /\ m.disk = n.disk
         /\ p \in Line /\ p .. p + ReqEntries(size) - 1 \subseteq Free(Delete(n, k))
         /\ \A i \in Line : i \in p .. p + ReqEntries(size) - 1 => m.status[i] = LineOf(k, size)
         /\ \A i \in Line : i \notin p .. p + ReqEntries(size) - 1 =>
                m.status[i].st = n.status[i].st /\ m.status[i].key = n.status[i].key
<1> DEFINE size == value.size
           p == NextEntry(n, k, size)
           needed == ReqEntries(size)
           row == p .. p + needed - 1
           parts == Parts(value)
           s == StorageSet(n, p, parts)
           a == Insert(s, k, size, p)
           m == StatusAdd(a, k, size, p)
<1>1. n \in Shape /\ Apart(n) /\ Counted(n) /\ Whole(n) /\ AtomicNamed(n) /\ DescriptorsOwned(n)
  BY DEF Sound
<1>2. size \in Sizes /\ needed \in Nat \ {0}
  BY SizesPositive, EntriesOfSize DEF Value
<1>3. p \in Line /\ p + needed <= TotalEntries /\ row \subseteq Free(Delete(n, k))
  <2> HIDE DEF size
  <2> QED BY <1>1, <1>2, NextEntryFree DEF size
<1>4. p \in Nat
  BY <1>3 DEF Line
<1> HIDE DEF p, needed
<1>5. /\ parts \in [0 .. needed - 1 -> Part \cup {None}]
      /\ \A i \in 0 .. needed - 1 : parts[i] = [value |-> value, part |-> i]
  <2>1. parts = [i \in 0 .. needed - 1 |-> [value |-> value, part |-> i]]
    BY DEF Parts, needed
  <2>2. \A i \in 0 .. needed - 1 : [value |-> value, part |-> i] \in Part
    BY <1>2 DEF Part
  <2> HIDE DEF parts
  <2> QED BY <2>1, <2>2
<1> HIDE DEF parts
<1>6. /\ s \in Shape
      /\ \A i \in Line : s.data[i] = IF i - p \in 0 .. needed - 1 THEN parts[i - p] ELSE n.data[i]
      /\ s.up = n.up /\ s.table = n.table /\ s.left = n.left /\ s.status = n.status
      /\ s.pointer = n.pointer /\ s.fd = n.fd /\ s.opened = n.opened /\ s.disk = n.disk
  BY <1>1, <1>2, <1>4, <1>5, StorageSetFields
<1> HIDE DEF s
<1>7. Stored(s) = Stored(n) /\ Free(s) = Free(n) /\ Apart(s) /\ Region(s, k) = Region(n, k)
      /\ Counted(s)
  <2>1. Stored(s) = Stored(n) /\ Free(s) = Free(n) /\ Apart(s) /\ Region(s, k) = Region(n, k)
    BY <1>1, <1>6, SameTable
  <2> QED BY <1>1, <1>6, <2>1 DEF Counted
<1>8. Free(Delete(s, k)) = Free(Delete(n, k))
  BY <1>1, <1>6, <1>7, DeletePlaced
<1>9. Apart(a) /\ Counted(a)
  <2>1. row \subseteq Free(Delete(s, k))
    BY <1>3, <1>8
  <2> HIDE DEF size
  <2> QED BY <1>2, <1>3, <1>6, <1>7, <2>1, InsertPlaced DEF needed
<1>10. /\ a \in Shape /\ Stored(a) = Stored(n) \cup {k}
       /\ a.table[k] = [number |-> p, size |-> size]
       /\ \A l \in Key : l # k => a.table[l] = n.table[l]
       /\ a.up = n.up /\ a.status = n.status /\ a.data = s.data
       /\ a.fd = n.fd /\ a.opened = n.opened /\ a.disk = n.disk
  <2>1. /\ a \in Shape
        /\ Stored(a) = Stored(s) \cup {k}
        /\ a.table[k] = [number |-> p, size |-> size]
        /\ \A l \in Key : l # k => a.table[l] = s.table[l]
        /\ a.up = s.up /\ a.status = s.status /\ a.data = s.data
        /\ a.fd = s.fd /\ a.opened = s.opened /\ a.disk = s.disk
    <3> HIDE DEF size
    <3> QED BY <1>2, <1>3, <1>6, InsertFields
  <2> HIDE DEF a, size
  <2> QED BY <1>6, <1>7, <2>1
<1> HIDE DEF a
<1>11. /\ m \in Shape
       /\ \A i \in Line : i \in row => m.status[i] = LineOf(k, size)
       /\ \A i \in Line : i \notin row => /\ m.status[i].st = a.status[i].st
                                          /\ m.status[i].key = a.status[i].key
       /\ m.up = a.up /\ m.table = a.table /\ m.left = a.left /\ m.data = a.data
       /\ m.fd = a.fd /\ m.opened = a.opened /\ m.disk = a.disk
  <2> HIDE DEF size
  <2> QED BY <1>2, <1>4, <1>10, StatusAddFields DEF needed
<1> HIDE DEF m
<1>12. Stored(m) = Stored(a) /\ Apart(m) /\ Counted(m) /\ Used(m, k) = needed
       /\ m.table[k] = [number |-> p, size |-> size]
       /\ \A l \in Key : l # k => m.table[l] = n.table[l]
  <2>1. Stored(m) = Stored(a) /\ Free(m) = Free(a) /\ Apart(m)
    BY <1>9, <1>11, SameTable
  <2>2. Counted(m)
    BY <1>9, <1>11, <2>1 DEF Counted
  <2>3. Used(m, k) = needed
    BY <1>10, <1>11 DEF Used, needed
  <2> HIDE DEF size
  <2> QED BY <1>10, <1>11, <2>1, <2>2, <2>3
<1>13. Whole(m)
  <2>1. \A i \in Line : m.data[i] =
             IF i - p \in 0 .. needed - 1
             THEN [value |-> value, part |-> i - p] ELSE n.data[i]
    BY <1>5, <1>6, <1>10, <1>11
  <2>2. \A l \in Stored(m) : l # k => l \in Stored(n) /\ m.table[l] = n.table[l]
    <3> TAKE l \in Stored(m)
    <3>1. l \in Key /\ (l # k => l \in Stored(n))
      BY <1>10, <1>12 DEF Stored
    <3> QED BY <1>12, <3>1
  <2>3. /\ m.table[k].number = p /\ m.table[k].size = value.size /\ k \in Stored(m)
    BY <1>10, <1>12
  <2> QED BY <1>1, <1>11, <1>12, <2>1, <2>2, <2>3, WriteWhole
<1>14. AtomicNamed(m)
  <2>1. LineOf(k, size).key = k
    BY DEF LineOf
  <2> HIDE DEF row, size
  <2> QED BY <1>1, <1>10, <1>11, <2>1 DEF AtomicNamed
<1>15. DescriptorsOwned(m)
  BY <1>1, <1>10, <1>11 DEF DescriptorsOwned
<1>16. Sound(m)
  BY <1>11, <1>12, <1>13, <1>14, <1>15 DEF Sound
<1>17. /\ \A i \in Line : i \in row => m.status[i] = LineOf(k, size)
       /\ \A i \in Line : i \notin row => /\ m.status[i].st = n.status[i].st
                                          /\ m.status[i].key = n.status[i].key
  <2> HIDE DEF row, size
  <2> QED BY <1>10, <1>11
<1> QED BY <1>3, <1>10, <1>11, <1>12, <1>16, <1>17 DEF p, needed, m, a, s, parts

\* Deleting a key, its lines too, leaves the node in order.
LEMMA DropSound ==
  ASSUME NEW n, Sound(n), NEW k \in Key, NEW size
  PROVE  LET m == StatusDelete(Delete(n, k), k, size) IN
         /\ Sound(m) /\ Stored(m) = Stored(n) \ {k}
         /\ \A l \in Stored(m) : m.table[l] = n.table[l]
         /\ m.up = n.up /\ m.disk = n.disk
         /\ \A i \in Line : m.status[i] \in {Blank, n.status[i]}
<1> DEFINE d == Delete(n, k)
           m == StatusDelete(d, k, size)
<1>1. n \in Shape /\ Apart(n) /\ Counted(n) /\ Whole(n) /\ AtomicNamed(n) /\ DescriptorsOwned(n)
  BY DEF Sound
<1>2. /\ d \in Shape /\ Stored(d) = Stored(n) \ {k}
      /\ \A l \in Stored(d) : d.table[l] = n.table[l]
      /\ d.up = n.up /\ d.status = n.status /\ d.fd = n.fd /\ d.opened = n.opened
      /\ d.disk = n.disk
  BY <1>1, DeleteFields
<1>3. Apart(d) /\ Counted(d) /\ Whole(d)
  BY <1>1, DeletePlaced, DeleteWhole
<1> HIDE DEF d
<1>4. AtomicNamed(d) /\ DescriptorsOwned(d)
  BY <1>1, <1>2 DEF AtomicNamed, DescriptorsOwned
<1>5. Sound(d)
  BY <1>2, <1>3, <1>4 DEF Sound
<1>6. /\ m \in Shape /\ m.up = d.up /\ m.table = d.table /\ m.left = d.left
      /\ m.data = d.data /\ m.fd = d.fd /\ m.opened = d.opened /\ m.disk = d.disk
  BY <1>2, StatusDeleteFields
<1>7. \A i \in Line : m.status[i] \in {Blank, d.status[i]}
  BY <1>2, StatusDeleteBlanks
<1> HIDE DEF m
<1>8. Stored(m) = Stored(d) /\ Free(m) = Free(d) /\ Apart(m)
      /\ \A l \in Key : Used(m, l) = Used(d, l)
  BY <1>3, <1>6, SameTable
<1>9. Counted(m)
  BY <1>3, <1>6, <1>8 DEF Counted
<1>10. Whole(m)
  <2>1. Stored(d) \subseteq Key
    BY DEF Stored
  <2> QED BY <1>3, <1>6, <1>8, <2>1 DEF Whole
<1>11. AtomicNamed(m) /\ DescriptorsOwned(m)
  BY <1>4, <1>6, <1>7 DEF AtomicNamed, DescriptorsOwned, Blank
<1>12. Sound(m)
  BY <1>6, <1>8, <1>9, <1>10, <1>11 DEF Sound
<1>13. \A i \in Line : m.status[i] \in {Blank, n.status[i]}
  BY <1>2, <1>7
<1> QED BY <1>2, <1>6, <1>8, <1>12, <1>13 DEF m, d

\* instance_set after the replacement: what it answers, and what it leaves.
LEMMA InRoomSound ==
  ASSUME NEW n, Sound(n), NEW k \in Key, NEW value \in Value
  PROVE  LET r == SetInRoom(n, k, value) IN
         /\ Sound(r.node) /\ r.node.up = n.up /\ r.node.disk = n.disk
         /\ r.status \in {"OK", "COMPACT", "ERROR"}
         /\ r.status = "OK" => /\ r.node.table[k] # None
                               /\ r.node.table[k].size = value.size
         /\ r.status = "COMPACT" => k \notin Stored(r.node)
<1> DEFINE size == value.size
           p == NextEntry(n, k, size)
           dropped == StatusDelete(Delete(n, k), k, size)
           written == StatusAdd(Insert(StorageSet(n, p, Parts(value)), k, size, p), k, size, p)
           r == SetInRoom(n, k, value)
<1>1. CASE ~HasContinousEntries(n, k, size)
  <2>1. Sound(dropped) /\ k \notin Stored(dropped) /\ dropped.up = n.up
        /\ dropped.disk = n.disk
    BY DropSound
  <2>2. r = [node |-> IF k \in Stored(n) THEN dropped ELSE n, status |-> "COMPACT"]
    BY <1>1 DEF SetInRoom
  <2> HIDE DEF dropped, r
  <2> QED BY <2>1, <2>2 DEF r
<1>2. CASE HasContinousEntries(n, k, size) /\ (p < 0 \/ p + ReqEntries(size) > TotalEntries)
  <2>1. r = [node |-> n, status |-> "ERROR"]
    BY <1>2 DEF SetInRoom
  <2> HIDE DEF r
  <2> QED BY <2>1 DEF r
<1>3. CASE HasContinousEntries(n, k, size) /\ ~(p < 0 \/ p + ReqEntries(size) > TotalEntries)
  <2>1. r = [node |-> written, status |-> "OK"]
    BY <1>3 DEF SetInRoom
  <2>2. ReqEntries(size) \in Nat /\ n \in Shape /\ size \in Sizes
    BY SizesPositive, EntriesOfSize DEF Value, Sound
  <2>3. p = -1 \/ p \in Nat
    <3>1. Holes(n, Stored(n), ReqEntries(size)) \subseteq Nat
      BY <2>2, StoredEntry DEF Holes
    <3>2. FitsInPlace(n, k, size) => n.table[k].number \in Nat
      BY <2>2, StoredEntry DEF FitsInPlace
    <3>3. Holes(n, Stored(n), ReqEntries(size)) # {} =>
              Minimum(Holes(n, Stored(n), ReqEntries(size))) \in Nat
      BY <3>1, MinimumIsLeast
    <3> QED BY <3>2, <3>3 DEF NextEntry
  <2>4. p # -1 /\ p + ReqEntries(size) <= TotalEntries
    <3> HIDE DEF p, size
    <3> QED BY <1>3, <2>2, <2>3, Numbers
  <2>5. /\ Sound(written) /\ written.table[k] = [number |-> p, size |-> size]
        /\ written.up = n.up /\ written.disk = n.disk
    BY <2>4, WrittenSound
  <2>6. [number |-> p, size |-> size] # None
    <3>1. p \in Nat /\ size \in Nat
      BY <2>2, <2>3, <2>4, SizesPositive
    <3> HIDE DEF p, size
    <3> QED BY <3>1, ConstantsAssumption
  <2> HIDE DEF written, p, r
  <2> QED BY <2>1, <2>5, <2>6 DEF r
<1> QED BY <1>1, <1>2, <1>3

\* Every result of instance_set.
LEMMA SetSound ==
  ASSUME NEW n, Sound(n), NEW k \in Key, NEW value \in Value, NEW replaced \in Seq(Key),
         NEW r \in InstanceSet(n, k, value, replaced)
  PROVE  /\ Sound(r.node) /\ r.node.up = n.up /\ r.replaced \in Seq(Key)
         /\ r.status \in {"OK", "COMPACT", "ERROR", "NO_SPACE"}
         /\ r.status = "OK" => /\ r.node.table[k] # None
                               /\ r.node.table[k].size = value.size
         /\ r.status = "COMPACT" => k \notin Stored(r.node)
         /\ \A l \in Key : r.node.disk[l] \in {None, n.disk[l]}
<1> DEFINE choices == AlgorithmsExec(n, replaced, ReqEntries(value.size))
           with(list, result) == [node |-> result.node, status |-> result.status,
                                  replaced |-> list]
<1>1. \/ r = [node |-> n, status |-> "NO_SPACE", replaced |-> replaced]
      \/ r = with(replaced, SetInRoom(n, k, value))
      \/ r = [node |-> n, status |-> "ERROR", replaced |-> replaced]
      \/ \E c \in choices : r = with(c.replaced, SetInRoom(Replace(n, c), k, value))
  BY DEF InstanceSet
<1>2. ReqEntries(value.size) \in Int /\ n \in Shape
  <2>1. value.size \in Nat \ {0}
    BY SizesPositive DEF Value
  <2>2. ReqEntries(value.size) \in Nat
    BY <2>1, EntriesOfSize
  <2> QED BY <2>2 DEF Sound
<1>3. CASE r = with(replaced, SetInRoom(n, k, value))
  BY <1>3, InRoomSound
<1>4. ASSUME NEW c \in choices, r = with(c.replaced, SetInRoom(Replace(n, c), k, value))
      PROVE  /\ Sound(r.node) /\ r.node.up = n.up /\ r.replaced \in Seq(Key)
             /\ r.status \in {"OK", "COMPACT", "ERROR"}
             /\ r.status = "OK" => /\ r.node.table[k] # None
                                   /\ r.node.table[k].size = value.size
             /\ r.status = "COMPACT" => k \notin Stored(r.node)
             /\ \A l \in Key : r.node.disk[l] \in {None, n.disk[l]}
  <2>1. c \in Picks(Choice(n, replaced, 0))
    BY <1>2, ChoiceStarts, ExecPicks
  <2>2. Sound(Replace(n, c)) /\ Replace(n, c).up = n.up
        /\ \A l \in Key : Replace(n, c).disk[l] \in {None, n.disk[l]}
    BY <2>1, ReplaceSound
  <2>3. c.replaced \in Seq(Key)
    BY <2>1 DEF Picks, Working
  <2> DEFINE m == Replace(n, c)
             q == SetInRoom(m, k, value)
  <2>4. /\ Sound(q.node) /\ q.node.up = m.up /\ q.node.disk = m.disk
        /\ q.status \in {"OK", "COMPACT", "ERROR"}
        /\ q.status = "OK" => q.node.table[k] # None /\ q.node.table[k].size = value.size
        /\ q.status = "COMPACT" => k \notin Stored(q.node)
    <3> HIDE DEF m
    <3> QED BY <2>2, InRoomSound DEF m
  <2>5. r.node = q.node /\ r.status = q.status /\ r.replaced = c.replaced
    BY <1>4
  <2> HIDE DEF choices, q
  <2> QED BY <2>2, <2>3, <2>4, <2>5
<1> HIDE DEF choices, with
<1> QED BY <1>1, <1>3, <1>4

-----------------------------------------------------------------------------
(* The files *)

\* The descriptors are a finite set, with one more than the keys.
LEMMA Descriptors ==
  /\ IsFiniteSet(Key) /\ Cardinality(Key) \in Nat
  /\ Fd \subseteq Nat /\ 0 \in Fd /\ None \notin Fd
  /\ IsFiniteSet(Fd) /\ Cardinality(Fd) = Cardinality(Key) + 1
<1>1. IsFiniteSet(Key) /\ Cardinality(Key) \in Nat
  BY ConstantsAssumption, FS_CardinalityType
<1>2. IsFiniteSet(Fd) /\ Cardinality(Fd) = Cardinality(Key) + 1
  <2> DEFINE c == Cardinality(Key)
  <2> HIDE DEF c
  <2>1. c \in Nat /\ 0 \in Int
    BY <1>1 DEF c
  <2>2. IsFiniteSet(0 .. c) /\ Cardinality(0 .. c) = c + 1
    BY <2>1, FS_Interval
  <2> QED BY <2>2 DEF c, Fd
<1>3. Fd \subseteq Nat /\ 0 \in Fd
  BY <1>1 DEF Fd
<1>4. None \notin Fd
  BY <1>3, ConstantsAssumption
<1> QED BY <1>1, <1>2, <1>3, <1>4

\* A key with no descriptor finds one: the others have at most one each.
LEMMA FreeDescriptor ==
  ASSUME NEW n \in Shape, DescriptorsOwned(n), NEW k \in Key, n.fd[k] = None
  PROVE  Minimum({g \in Fd : n.opened[g] = None}) \in {g \in Fd : n.opened[g] = None}
<1> DEFINE others == Key \ {k}
           taken == {n.fd[l] : l \in others}
           S == {0} \cup taken
           free == {g \in Fd : n.opened[g] = None}
<1>1. IsFiniteSet(others) /\ Cardinality(others) = Cardinality(Key) - 1
  BY Descriptors, FS_RemoveElement
<1> DEFINE h == [l \in others |-> n.fd[l]]
<1>2. IsFiniteSet(taken) /\ Cardinality(taken) <= Cardinality(others)
  <2>1. h \in Surjection(others, taken)
    BY DEF Surjection
  <2> HIDE DEF h, others, taken
  <2> QED BY <1>1, <2>1, FS_Surjection
<1>3. IsFiniteSet(S) /\ Cardinality(S) <= Cardinality(taken) + 1
  <2>1. S = taken \cup {0}
    OBVIOUS
  <2>2. Cardinality(taken) \in Nat
    BY <1>2, FS_CardinalityType
  <2> HIDE DEF S, taken
  <2>3. /\ IsFiniteSet(taken \cup {0})
        /\ \/ Cardinality(taken \cup {0}) = Cardinality(taken)
           \/ Cardinality(taken \cup {0}) = Cardinality(taken) + 1
    BY <1>2, FS_AddElement
  <2> QED BY <2>1, <2>2, <2>3
<1>4. Cardinality(S) < Cardinality(Fd)
  <2>1. Cardinality(S) \in Nat /\ Cardinality(taken) \in Nat
    BY <1>2, <1>3, FS_CardinalityType
  <2> HIDE DEF S, taken, others
  <2> QED BY <1>1, <1>2, <1>3, <2>1, Descriptors
<1>5. ~(Fd \subseteq S)
  <2> SUFFICES ASSUME Fd \in SUBSET S PROVE FALSE
    OBVIOUS
  <2>1. Cardinality(S) \in Nat /\ Cardinality(Fd) \in Nat
    BY <1>3, Descriptors, FS_CardinalityType
  <2> HIDE DEF S
  <2>2. Cardinality(Fd) <= Cardinality(S)
    BY <1>3, FS_Subset
  <2> QED BY <1>4, <2>1, <2>2
<1>6. PICK g \in Fd : g # 0 /\ \A l \in others : n.fd[l] # g
  BY <1>5
<1>7. n.fd[k] # g
  BY Descriptors
<1>8. n.opened[g] = None
  BY <1>6, <1>7 DEF DescriptorsOwned
<1>9. free # {} /\ free \subseteq Nat
  BY <1>8, Descriptors
<1>10. Minimum(free) \in free
  <2> HIDE DEF free
  <2> QED BY <1>9, MinimumIsLeast
<1> QED BY <1>10

\* dumper_create_key_value opens the key's file.
LEMMA CreateKeyValueFields ==
  ASSUME NEW n \in Shape, DescriptorsOwned(n), NEW k \in Key, n.fd[k] = None
  PROVE  LET m == CreateKeyValue(n, k) IN
         /\ m \in Shape /\ DescriptorsOwned(m) /\ m.fd[k] \in Fd
         /\ \A l \in Key : l # k => m.fd[l] = n.fd[l]
         /\ m.up = n.up /\ m.table = n.table /\ m.left = n.left /\ m.status = n.status
         /\ m.pointer = n.pointer /\ m.data = n.data /\ m.disk = n.disk
<1> DEFINE f == Minimum({g \in Fd : n.opened[g] = None})
           d == [n.fd EXCEPT ![k] = f]
           o == [n.opened EXCEPT ![f] = k]
           m == CreateKeyValue(n, k)
<1>1. f \in Fd
  BY FreeDescriptor
<1>2. m = [n EXCEPT !.fd = d, !.opened = o]
  BY DEF CreateKeyValue
<1> HIDE DEF f, m
<1>3. n.fd \in Dictionary /\ n.opened \in OpenFiles
  BY DEF Shape
<1>4. d \in Dictionary /\ d[k] = f /\ \A l \in Key : l # k => d[l] = n.fd[l]
  BY <1>1, <1>3 DEF Dictionary
<1>5. o \in OpenFiles /\ \A g \in Fd : g # f => o[g] = n.opened[g]
  BY <1>1, <1>3 DEF OpenFiles
<1> HIDE DEF d, o
<1>6. /\ m \in Shape /\ m.fd = d /\ m.opened = o
      /\ m.up = n.up /\ m.table = n.table /\ m.left = n.left /\ m.status = n.status
      /\ m.pointer = n.pointer /\ m.data = n.data /\ m.disk = n.disk
  BY <1>2, <1>4, <1>5 DEF Shape
<1>7. DescriptorsOwned(m)
  <2> SUFFICES ASSUME NEW g \in Fd, o[g] # None, g # 0
               PROVE  \E l \in Key : d[l] = g
    BY <1>6 DEF DescriptorsOwned
  <2>1. CASE g = f
    BY <1>4, <2>1
  <2>2. CASE g # f
    <3>1. PICK l \in Key : n.fd[l] = g
      BY <1>5, <2>2 DEF DescriptorsOwned
    <3>2. l # k
      BY <3>1, Descriptors
    <3> QED BY <1>4, <3>1, <3>2
  <2> QED BY <2>1, <2>2
<1> QED BY <1>1, <1>4, <1>6, <1>7 DEF m

\* The process ends, and nothing else changes.
LEMMA CrashSound ==
  ASSUME NEW n, Sound(n)
  PROVE  LET m == Crash(n) IN
         Sound(m) /\ m.up = FALSE /\ m.table = n.table /\ m.left = n.left
         /\ m.status = n.status
<1> DEFINE m == Crash(n)
<1>1. n \in Shape /\ DescriptorsOwned(n)
  BY DEF Sound
<1>2. /\ m \in Shape /\ m.up = FALSE /\ m.table = n.table /\ m.left = n.left
      /\ m.status = n.status /\ m.data = n.data /\ m.fd = n.fd /\ m.opened = n.opened
  BY <1>1 DEF Crash, Shape
<1> HIDE DEF m
<1>3. DescriptorsOwned(m)
  BY <1>1, <1>2 DEF DescriptorsOwned
<1>4. Sound(m)
  BY <1>2, <1>3, SoundElsewhere
<1> QED BY <1>2, <1>4 DEF m

\* dumper_store writes the value of a key to its file, and leaves the tables alone.
LEMMA StoreKeyValueSound ==
  ASSUME NEW n, Sound(n), NEW k \in Stored(n)
  PROVE  LET m == StoreKeyValue(n, k) IN
         /\ Sound(m) /\ m.table = n.table /\ m.left = n.left /\ m.status = n.status
         /\ m.up => n.up
<1> DEFINE m == IF n.fd[k] = None THEN CreateKeyValue(n, k) ELSE n
           file == m.opened[m.fd[k]]
           v == n.data[n.table[k].number].value
           s == StoreKeyValue(n, k)
<1>1. n \in Shape /\ Apart(n) /\ Whole(n) /\ DescriptorsOwned(n) /\ k \in Key
  BY StoredEntry DEF Sound
<1>2. /\ m \in Shape /\ DescriptorsOwned(m) /\ m.fd[k] \in Fd
      /\ m.up = n.up /\ m.table = n.table /\ m.left = n.left /\ m.status = n.status
      /\ m.data = n.data
  <2>1. CASE n.fd[k] = None
    BY <1>1, <2>1, CreateKeyValueFields
  <2>2. CASE n.fd[k] # None
    <3>1. n.fd[k] \in Fd
      BY <1>1, <2>2 DEF Shape, Dictionary
    <3> QED BY <1>1, <2>2, <3>1
  <2> QED BY <2>1, <2>2
<1>3. s = IF file \in {None, "stdin"} THEN Crash(m)
          ELSE IF file = "unlinked" THEN m ELSE [m EXCEPT !.disk[file] = v]
  BY DEF StoreKeyValue
<1> HIDE DEF m
<1>4. Sound(m)
  BY <1>2, SoundElsewhere
<1>5. v \in Value
  <2>1. PICK w \in Value : \A i \in 0 .. Used(n, k) - 1 :
             n.data[n.table[k].number + i] = [value |-> w, part |-> i]
    BY <1>1 DEF Whole
  <2>2. 0 \in 0 .. Used(n, k) - 1 /\ n.table[k].number + 0 = n.table[k].number
    BY <1>1, StoredEntry
  <2>3. n.data[n.table[k].number] = [value |-> w, part |-> 0]
    BY <2>1, <2>2
  <2> QED BY <2>3
<1>6. CASE file \in {None, "stdin"}
  BY <1>2, <1>3, <1>4, <1>6, CrashSound
<1>7. CASE file \notin {None, "stdin"} /\ file = "unlinked"
  BY <1>2, <1>3, <1>4, <1>7
<1>8. CASE file \notin {None, "stdin", "unlinked"}
  <2>1. file \in Key
    BY <1>2, <1>8 DEF Shape, OpenFiles
  <2> DEFINE x == [m.disk EXCEPT ![file] = v]
  <2>2. x \in Files
    BY <1>2, <1>5, <2>1 DEF Shape, Files
  <2>3. s = [m EXCEPT !.disk = x]
    BY <1>3, <1>8
  <2> HIDE DEF x, s, file
  <2>4. /\ s \in Shape /\ s.up = m.up /\ s.table = m.table /\ s.left = m.left
        /\ s.status = m.status /\ s.data = m.data /\ s.fd = m.fd /\ s.opened = m.opened
    BY <1>2, <2>2, <2>3 DEF Shape
  <2>5. DescriptorsOwned(s)
    BY <1>2, <2>4 DEF DescriptorsOwned
  <2>6. Sound(s)
    BY <1>4, <2>4, <2>5, SoundElsewhere
  <2> QED BY <1>2, <2>4, <2>6 DEF s
<1> QED BY <1>6, <1>7, <1>8

\* What the dump thread leaves in memory: the tables it found.
Dumps(n) ==
    {m \in Shape : /\ Sound(m) /\ m.table = n.table /\ m.left = n.left
                   /\ m.status = n.status /\ (m.up => n.up)}

\* The loop of the dump thread over the keys of the table (dumper_thread).
LEMMA DumpAll ==
  ASSUME NEW n, Sound(n)
  PROVE  FoldLeft(LAMBDA m, k : IF m.up THEN StoreKeyValue(m, k) ELSE m, n, ByNumber(n))
             \in Dumps(n)
<1> DEFINE U == Dumps(n)
           s == ByNumber(n)
           N == Cardinality(Stored(n))
           step(m, k) == IF m.up THEN StoreKeyValue(m, k) ELSE m
           G == [x \in (1..N) \X U |-> step(x[2], s[x[1]])]
<1>1. N \in Nat /\ DOMAIN s = 1..N /\ \A i \in 1..N : s[i] \in Stored(n)
  <2>1. N \in Nat /\ s \in [1..N -> Stored(n)]
    BY CompactRun
  <2> HIDE DEF s, N
  <2> QED BY <2>1
<1>2. ASSUME NEW i \in 1..N, NEW m \in U PROVE step(m, s[i]) \in U
  <2>1. /\ m \in Shape /\ Sound(m) /\ m.table = n.table /\ m.left = n.left
        /\ m.status = n.status /\ (m.up => n.up)
    BY DEF Dumps
  <2>2. s[i] \in Stored(m)
    BY <1>1, <2>1 DEF Stored
  <2> DEFINE v == StoreKeyValue(m, s[i])
  <2>3. /\ Sound(v) /\ v.table = m.table /\ v.left = m.left /\ v.status = m.status
        /\ v.up => m.up
    BY <2>1, <2>2, StoreKeyValueSound
  <2> HIDE DEF v
  <2>4. v \in U
    BY <2>1, <2>3 DEF Dumps, Sound
  <2>5. step(m, s[i]) \in {m, v}
    BY DEF v
  <2> QED BY <2>4, <2>5
<1> HIDE DEF step
<1>3. G \in [(1..N) \X U -> U]
  <2> HIDE DEF U, N
  <2> QED BY <1>2
<1>4. n \in U
  BY DEF Dumps, Sound
<1>5. PICK f \in [SUBSET (1..N) -> U] : LoopOutcome(f, U, N, n, G)
  <2> HIDE DEF G, U, N
  <2> QED BY <1>1, <1>3, <1>4, LoopHasOutcome
<1> DEFINE rounds(g) == [x \in SUBSET (1..N) |->
                           IF x = {} THEN n ELSE step(g[x \ {Max(x)}], s[Max(x)])]
           it == CHOOSE g : g = rounds(g)
<1>6. f = rounds(f)
  <2>1. \A i \in 1..N, m \in U : G[<<i, m>>] = step(m, s[i])
    <3> HIDE DEF U, N, s
    <3> QED OBVIOUS
  <2> HIDE DEF G, U, N, s
  <2> QED BY <1>5, <2>1 DEF LoopOutcome
<1>7. it = rounds(it)
  <2> HIDE DEF rounds
  <2> QED BY <1>6
<1>8. FoldLeft(LAMBDA m, k : IF m.up THEN StoreKeyValue(m, k) ELSE m, n, ByNumber(n)) = it[1..N]
  <2>1. FoldLeft(LAMBDA m, k : step(m, k), n, s) = it[1..N]
    <3> HIDE DEF N, s
    <3> QED BY <1>1 DEF FoldLeft, MapThenFoldSet
  <2> QED BY <2>1 DEF step
<1> HIDE DEF it
<1>9. it[{}] \in U
  <2>1. it[{}] = n
    <3> HIDE DEF N, s
    <3> QED BY <1>7
  <2> QED BY <1>4, <2>1
<1>10. ASSUME NEW i \in 1..N, it[1..(i - 1)] \in U PROVE it[1..i] \in U
  <2> HIDE DEF N, U, s
  <2>1. /\ 1..i \in SUBSET (1..N) /\ 1..i # {}
        /\ Max(1..i) = i /\ (1..i) \ {i} = 1..(i - 1)
    BY <1>1, FirstNumbers
  <2>2. it[1..i] = step(it[1..(i - 1)], s[i])
    BY <1>7, <2>1
  <2> QED BY <1>2, <1>10, <2>2
<1>11. it[1..N] \in U
  <2> HIDE DEF N, U
  <2> QED BY <1>1, <1>9, <1>10, LoopStays
<1> QED BY <1>8, <1>11

-----------------------------------------------------------------------------
(* The recovery *)

\* A node that starts is in order.
LEMMA EmptySound ==
  ASSUME NEW disk \in Files
  PROVE  Sound(Empty(disk)) /\ Stored(Empty(disk)) = {} /\ Empty(disk).up = TRUE
         /\ \A k \in Key : Empty(disk).fd[k] = None
<1> DEFINE n == Empty(disk)
           table == [k \in Key |-> None]
           status == [i \in Line |-> Blank]
           data == [i \in Line |-> None]
           fd == [k \in Key |-> None]
           opened == [f \in Fd |-> IF f = 0 THEN "stdin" ELSE None]
<1>1. table \in Tables /\ status \in Lines /\ data \in Contents /\ fd \in Dictionary
      /\ opened \in OpenFiles
  BY DEF Tables, Lines, Contents, Dictionary, OpenFiles, Blank, Status
<1>2. n = [up |-> TRUE, table |-> table, left |-> TotalEntries, status |-> status,
           pointer |-> 0, data |-> data, fd |-> fd, opened |-> opened, disk |-> disk]
  BY DEF Empty
<1>3. TotalEntries \in Int
  BY Numbers
<1> HIDE DEF n
<1>4. n \in Shape
  <2> HIDE DEF table, status, data, fd, opened
  <2> QED BY <1>1, <1>2, <1>3 DEF Shape
<1>5. Stored(n) = {}
  BY <1>2 DEF Stored
<1>6. Counted(n)
  <2>1. Free(n) = Line
    BY <1>5 DEF Free
  <2>2. n.left = TotalEntries
    BY <1>2
  <2> QED BY <2>1, <2>2, LineSets DEF Counted
<1>7. AtomicNamed(n)
  BY <1>2 DEF AtomicNamed, Blank
<1>8. DescriptorsOwned(n)
  BY <1>2 DEF DescriptorsOwned
<1>9. Sound(n)
  BY <1>4, <1>5, <1>6, <1>7, <1>8 DEF Sound, Apart, Whole
<1>10. n.up = TRUE /\ \A k \in Key : n.fd[k] = None
  BY <1>2
<1> QED BY <1>5, <1>9, <1>10 DEF n

\* The nodes that n becomes when files are opened.
Openings(n) ==
    {m \in Shape :
        /\ DescriptorsOwned(m)
        /\ m.up = n.up /\ m.table = n.table /\ m.left = n.left /\ m.status = n.status
        /\ m.data = n.data}

\* The loop that opens the files of the keys to recover (dumper_recover).
LEMMA OpenAll ==
  ASSUME NEW n \in Shape, DescriptorsOwned(n), \A k \in Key : n.fd[k] = None,
         NEW N \in Nat, NEW s \in [1..N -> Key], \A i, j \in 1..N : i # j => s[i] # s[j]
  PROVE  FoldLeft(CreateKeyValue, n, s) \in Openings(n)
<1> DEFINE none == Minimum({})
           U == [up : BOOLEAN, table : Tables, left : Int, status : Lines, pointer : Nat,
                 data : Contents, fd : [Key -> Fd \cup {None, none}], opened : OpenFiles,
                 disk : Files]
           G == [x \in (1..N) \X U |-> CreateKeyValue(x[2], s[x[1]])]
<1> HIDE DEF none
<1>1. DOMAIN s = 1..N /\ \A i \in 1..N : s[i] \in Key
  OBVIOUS
<1>2. ASSUME NEW i \in 1..N, NEW m \in U PROVE CreateKeyValue(m, s[i]) \in U
  <2> DEFINE f == Minimum({g \in Fd : m.opened[g] = None})
             d == [m.fd EXCEPT ![s[i]] = f]
             o == [m.opened EXCEPT ![f] = s[i]]
  <2>1. f \in Fd \cup {none}
    <3> DEFINE free == {g \in Fd : m.opened[g] = None}
    <3>1. free \subseteq Fd /\ free \subseteq Nat /\ f = Minimum(free)
      BY Descriptors
    <3> HIDE DEF free, f
    <3>2. CASE free = {}
      BY <3>1, <3>2 DEF none
    <3>3. CASE free # {}
      BY <3>1, <3>3, MinimumIsLeast
    <3> QED BY <3>2, <3>3
  <2>2. CreateKeyValue(m, s[i]) = [m EXCEPT !.fd = d, !.opened = o]
    BY DEF CreateKeyValue
  <2> HIDE DEF f
  <2>3. d \in [Key -> Fd \cup {None, none}]
    BY <2>1
  <2>4. o \in OpenFiles
    BY <1>1 DEF OpenFiles
  <2> HIDE DEF d, o
  <2> QED BY <2>2, <2>3, <2>4
<1>3. G \in [(1..N) \X U -> U]
  <2> HIDE DEF U
  <2> QED BY <1>2
<1>4. n \in U
  BY DEF Shape, Dictionary
<1>5. PICK f \in [SUBSET (1..N) -> U] : LoopOutcome(f, U, N, n, G)
  <2> HIDE DEF G, U
  <2> QED BY <1>3, <1>4, LoopHasOutcome
<1> DEFINE rounds(g) == [x \in SUBSET (1..N) |->
                           IF x = {} THEN n ELSE CreateKeyValue(g[x \ {Max(x)}], s[Max(x)])]
           it == CHOOSE g : g = rounds(g)
<1>6. f = rounds(f)
  <2>1. \A i \in 1..N, m \in U : G[<<i, m>>] = CreateKeyValue(m, s[i])
    <3> HIDE DEF U
    <3> QED OBVIOUS
  <2> HIDE DEF G, U
  <2> QED BY <1>5, <2>1 DEF LoopOutcome
<1>7. it = rounds(it)
  <2> HIDE DEF rounds
  <2> QED BY <1>6
<1>8. FoldLeft(CreateKeyValue, n, s) = it[1..N]
  BY <1>1 DEF FoldLeft, MapThenFoldSet
<1> HIDE DEF it, U, G, rounds
<1> DEFINE O == Openings(n)
           At == {x \in (0..N) \X O : \A j \in 1..N : j > x[1] => x[2].fd[s[j]] = None}
<1>9. <<0, it[{}]>> \in At
  <2>1. it[{}] = n
    BY <1>7 DEF rounds
  <2>2. n \in O
    BY DEF Openings
  <2> HIDE DEF O
  <2> QED BY <1>1, <2>1, <2>2
<1>10. ASSUME NEW i \in 1..N, <<i - 1, it[1..(i - 1)]>> \in At PROVE <<i, it[1..i]>> \in At
  <2>1. /\ 1..i \in SUBSET (1..N) /\ 1..i # {}
        /\ Max(1..i) = i /\ (1..i) \ {i} = 1..(i - 1)
    BY FirstNumbers
  <2> DEFINE m == it[1..(i - 1)]
             c == CreateKeyValue(m, s[i])
  <2>2. it[1..i] = c
    BY <1>7, <2>1 DEF rounds
  <2>3. m \in O /\ \A j \in 1..N : j > i - 1 => m.fd[s[j]] = None
    <3> HIDE DEF O
    <3> QED BY <1>10
  <2> HIDE DEF m
  <2>4. m.fd[s[i]] = None
    BY <2>3
  <2>5. /\ m \in Shape /\ DescriptorsOwned(m)
        /\ m.up = n.up /\ m.table = n.table /\ m.left = n.left /\ m.status = n.status
        /\ m.data = n.data
    BY <2>3 DEF Openings
  <2>6. /\ c \in Shape /\ DescriptorsOwned(c)
        /\ \A l \in Key : l # s[i] => c.fd[l] = m.fd[l]
        /\ c.up = m.up /\ c.table = m.table /\ c.left = m.left /\ c.status = m.status
        /\ c.data = m.data
    BY <1>1, <2>4, <2>5, CreateKeyValueFields
  <2> HIDE DEF c
  <2>7. c \in O
    BY <2>5, <2>6 DEF Openings
  <2>8. \A j \in 1..N : j > i => c.fd[s[j]] = None
    BY <1>1, <2>3, <2>6
  <2>9. i \in 0..N
    OBVIOUS
  <2> HIDE DEF O
  <2> QED BY <2>2, <2>7, <2>8, <2>9
<1>11. <<N, it[1..N]>> \in At
  <2> HIDE DEF At
  <2> QED BY <1>9, <1>10, LoopStaysAt
<1>12. it[1..N] \in O
  <2> HIDE DEF O
  <2> QED BY <1>11
<1> QED BY <1>8, <1>12

\* A result of instance_set is a record of three fields.
LEMMA SetForm ==
  ASSUME NEW n, NEW k, NEW value, NEW replaced, NEW r \in InstanceSet(n, k, value, replaced)
  PROVE  r = [node |-> r.node, status |-> r.status, replaced |-> r.replaced]
<1> DEFINE choices == AlgorithmsExec(n, replaced, ReqEntries(value.size))
           with(list, result) == [node |-> result.node, status |-> result.status,
                                  replaced |-> list]
<1>1. \/ r = [node |-> n, status |-> "NO_SPACE", replaced |-> replaced]
      \/ r = with(replaced, SetInRoom(n, k, value))
      \/ r = [node |-> n, status |-> "ERROR", replaced |-> replaced]
      \/ \E c \in choices : r = with(c.replaced, SetInRoom(Replace(n, c), k, value))
  BY DEF InstanceSet
<1> HIDE DEF choices
<1> QED BY <1>1

\* What an attempt to set a recovered key leaves.
Attempts ==
    LET nodes == {m \in Shape : Sound(m) /\ m.up} IN
    [node : nodes, replaced : Seq(Key)]
        \cup [node : nodes, status : {"OK", "COMPACT", "ERROR", "NO_SPACE"}, replaced : Seq(Key)]

\* Setting one more key.
LEMMA AttemptAgain ==
  ASSUME NEW R \in SUBSET Attempts, NEW k \in Key, NEW value \in Value
  PROVE  UNION {InstanceSet(r.node, k, value, r.replaced) : r \in R} \in SUBSET Attempts
<1> SUFFICES ASSUME NEW r \in R, NEW x \in InstanceSet(r.node, k, value, r.replaced)
             PROVE  x \in Attempts
  OBVIOUS
<1>1. Sound(r.node) /\ r.node.up /\ r.replaced \in Seq(Key)
  BY DEF Attempts
<1>2. /\ Sound(x.node) /\ x.node.up = r.node.up /\ x.replaced \in Seq(Key)
      /\ x.status \in {"OK", "COMPACT", "ERROR", "NO_SPACE"}
  BY <1>1, SetSound
<1>3. x.node \in Shape
  BY <1>2 DEF Sound
<1>4. x = [node |-> x.node, status |-> x.status, replaced |-> x.replaced]
  BY SetForm
<1> QED BY <1>1, <1>2, <1>3, <1>4 DEF Attempts

\* The node that comes up after the recovery is in order.
LEMMA RecoverSound ==
  ASSUME node.disk \in Files, known \subseteq Key,
         NEW keys \in SetToSeqs({k \in known : node.disk[k] # None}),
         NEW m \in Recover(keys)
  PROVE  Sound(m) /\ m.up
<1> DEFINE S == {k \in known : node.disk[k] # None}
           N == Cardinality(S)
           begin == Empty(node.disk)
           opened == FoldLeft(CreateKeyValue, begin, keys)
           base == {[node |-> opened, replaced |-> <<>>]}
           setAll(R, k) == UNION {InstanceSet(r.node, k, node.disk[k], r.replaced) : r \in R}
           U == SUBSET Attempts
           G == [x \in (1..N) \X U |-> setAll(x[2], keys[x[1]])]
<1>1. N \in Nat
  <2>1. S \in SUBSET Key
    OBVIOUS
  <2> HIDE DEF S
  <2> QED BY <2>1, Descriptors, FS_Subset, FS_CardinalityType
<1>2. keys \in [1..N -> S] /\ \A i, j \in 1..N : i # j => keys[i] # keys[j]
  BY DEF SetToSeqs
<1>3. \A i \in 1..N : keys[i] \in Key /\ node.disk[keys[i]] \in Value
  <2>1. \A k \in S : k \in Key /\ node.disk[k] \in Value
    BY DEF Files
  <2> HIDE DEF S, N
  <2> QED BY <1>2, <2>1
<1>4. DOMAIN keys = 1..N /\ keys \in [1..N -> Key]
  <2> HIDE DEF S, N
  <2> QED BY <1>2, <1>3
<1>5. opened \in Shape /\ Sound(opened) /\ opened.up
  <2>1. Sound(begin) /\ begin.up /\ (\A k \in Key : begin.fd[k] = None) /\ begin \in Shape
    BY EmptySound DEF Sound
  <2>2. opened \in Openings(begin)
    <3> HIDE DEF begin, N
    <3> QED BY <1>1, <1>2, <1>4, <2>1, OpenAll DEF Sound
  <2> HIDE DEF opened, begin
  <2>3. /\ opened \in Shape /\ DescriptorsOwned(opened) /\ opened.up = begin.up
        /\ opened.table = begin.table /\ opened.left = begin.left
        /\ opened.status = begin.status /\ opened.data = begin.data
    BY <2>2 DEF Openings
  <2> QED BY <2>1, <2>3, SoundElsewhere
<1>6. base \in U
  <2>1. <<>> \in Seq(Key)
    OBVIOUS
  <2> HIDE DEF opened
  <2> QED BY <1>5, <2>1 DEF Attempts
<1>7. ASSUME NEW i \in 1..N, NEW R \in U PROVE setAll(R, keys[i]) \in U
  BY <1>3, AttemptAgain
<1>8. Recover(keys) = {r.node : r \in FoldLeft(setAll, base, keys)}
  BY DEF Recover
<1> HIDE DEF base, setAll, N
<1>9. G \in [(1..N) \X U -> U]
  <2> HIDE DEF U
  <2> QED BY <1>7
<1>10. PICK f \in [SUBSET (1..N) -> U] : LoopOutcome(f, U, N, base, G)
  <2> HIDE DEF G, U
  <2> QED BY <1>1, <1>6, <1>9, LoopHasOutcome
<1> DEFINE rounds(g) == [x \in SUBSET (1..N) |->
                           IF x = {} THEN base ELSE setAll(g[x \ {Max(x)}], keys[Max(x)])]
           it == CHOOSE g : g = rounds(g)
<1>11. f = rounds(f)
  <2>1. \A i \in 1..N, R \in U : G[<<i, R>>] = setAll(R, keys[i])
    <3> HIDE DEF U
    <3> QED OBVIOUS
  <2> HIDE DEF G, U
  <2> QED BY <1>10, <2>1 DEF LoopOutcome
<1>12. it = rounds(it)
  <2> HIDE DEF rounds
  <2> QED BY <1>11
<1>13. FoldLeft(setAll, base, keys) = it[1..N]
  BY <1>4 DEF FoldLeft, MapThenFoldSet
<1> HIDE DEF it, U
<1>14. it[{}] \in U
  BY <1>6, <1>12
<1>15. ASSUME NEW i \in 1..N, it[1..(i - 1)] \in U PROVE it[1..i] \in U
  <2>1. /\ 1..i \in SUBSET (1..N) /\ 1..i # {}
        /\ Max(1..i) = i /\ (1..i) \ {i} = 1..(i - 1)
    BY <1>1, FirstNumbers
  <2>2. it[1..i] = setAll(it[1..(i - 1)], keys[i])
    BY <1>12, <2>1
  <2> QED BY <1>7, <1>15, <2>2
<1>16. it[1..N] \in U
  BY <1>1, <1>14, <1>15, LoopStays
<1>17. PICK r \in it[1..N] : m = r.node
  BY <1>8, <1>13
<1>18. r \in Attempts
  BY <1>16, <1>17 DEF U
<1> QED BY <1>17, <1>18 DEF Attempts

-----------------------------------------------------------------------------
(* The compaction packs *)

\* After i rounds over the list s of N keys: the first i keys fill the entries before b,
\* the others are where they were, from b on.
PackedBefore(n, m, s, N, i, b) ==
    /\ b = 0 \/ \E j \in 1..i : b = EndOf(m, s[j])
    /\ \A j \in 1..i : EndOf(m, s[j]) <= b
    /\ \A x \in Line : x < b => \E j \in 1..i : x \in Region(m, s[j])
    /\ \A j \in 1..N : j > i => m.table[s[j]] = n.table[s[j]] /\ m.table[s[j]].number >= b

\* A round moves the next key to the end of those before it.
LEMMA RoundPacks ==
  ASSUME NEW n, Sound(n), NEW m \in Packings(n), NEW N \in Nat, NEW s \in [1..N -> Stored(n)],
         \A k \in Stored(n) : \E j \in 1..N : s[j] = k,
         \A j, l \in 1..N : j < l => n.table[s[j]].number < n.table[s[l]].number,
         NEW i \in 1..N, NEW b \in 0..TotalEntries, PackedBefore(n, m, s, N, i - 1, b)
  PROVE  /\ b + Used(m, s[i]) \in 0..TotalEntries
         /\ PackedBefore(n, CompactKey(m, s[i]), s, N, i, b + Used(m, s[i]))
<1> DEFINE k == s[i]
           c == CompactKey(m, k)
           u == Used(m, k)
           S == Stored(m) \ {k}
           p == Target(m, k)
<1>1. /\ m \in Shape /\ Apart(m) /\ Counted(m) /\ Whole(m) /\ Stored(m) = Stored(n)
      /\ k \in Stored(m) /\ k \in Key
      /\ \A j \in 1..N : s[j] \in Stored(m) /\ s[j] \in Key
  BY DEF Packings, Sound, Stored
<1>2. /\ m.table[k] = n.table[k] /\ m.table[k].number >= b
      /\ m.table[k].number \in Nat /\ u \in Nat \ {0}
      /\ EndOf(m, k) = m.table[k].number + u /\ EndOf(m, k) <= TotalEntries
  <2>1. i > i - 1
    OBVIOUS
  <2>2. m.table[k] = n.table[k] /\ m.table[k].number >= b
    BY <2>1 DEF PackedBefore
  <2> QED BY <1>1, <2>2, StoredEntry DEF Apart
<1>3. b + u \in 0..TotalEntries
  <2> HIDE DEF u, k
  <2> QED BY <1>2, Numbers
<1>4. /\ p \in Holes(m, S, u) /\ \A x \in Holes(m, S, u) : p <= x
      /\ p .. p + u - 1 \subseteq Free(Delete(m, k))
      /\ c \in Shape /\ Stored(c) = Stored(m)
      /\ c.table[k] = [number |-> p, size |-> m.table[k].size]
      /\ \A l \in Key : l # k => c.table[l] = m.table[l]
  BY <1>1, CompactKeyFields
<1>5. \A j \in 1..N : j # i => s[j] # k
  <2> SUFFICES ASSUME NEW j \in 1..N, j # i, s[j] = k PROVE FALSE
    OBVIOUS
  <2>1. j < i \/ i < j
    OBVIOUS
  <2>2. n.table[k].number < n.table[k].number
    BY <2>1
  <2> QED BY <1>2, <2>2
<1>6. ASSUME NEW j \in 1..N, j < i
      PROVE  /\ s[j] \in S /\ EndOf(m, s[j]) <= b
             /\ m.table[s[j]].number \in Nat /\ m.table[s[j]].number < b
  <2>1. j \in 1..(i - 1)
    BY <1>6
  <2>2. EndOf(m, s[j]) <= b
    BY <2>1 DEF PackedBefore
  <2>3. /\ EndOf(m, s[j]) = m.table[s[j]].number + Used(m, s[j])
        /\ Used(m, s[j]) \in Nat \ {0} /\ m.table[s[j]].number \in Nat
    BY <1>1, StoredEntry
  <2>4. s[j] \in S
    BY <1>1, <1>5, <1>6
  <2> QED BY <2>2, <2>3, <2>4
<1>7. ASSUME NEW j \in 1..N, j > i
      PROVE  /\ m.table[s[j]] = n.table[s[j]] /\ m.table[s[j]].number \in Nat
             /\ m.table[s[j]].number >= b + u
  <2>1. m.table[s[j]] = n.table[s[j]]
    <3>1. j > i - 1
      BY <1>7
    <3> QED BY <3>1 DEF PackedBefore
  <2>2. m.table[k].number < m.table[s[j]].number
    BY <1>2, <1>7, <2>1
  <2>3. /\ EndOf(m, s[j]) = m.table[s[j]].number + Used(m, s[j])
        /\ Used(m, s[j]) \in Nat \ {0} /\ m.table[s[j]].number \in Nat
    BY <1>1, StoredEntry
  <2>4. EndOf(m, k) <= m.table[s[j]].number \/ EndOf(m, s[j]) <= m.table[k].number
    BY <1>1, <1>5, <1>7 DEF Apart
  <2>5. m.table[s[j]].number >= b + u
    <3> DEFINE x == m.table[k].number
               y == m.table[s[j]].number
               v == Used(m, s[j])
    <3>1. /\ x \in Nat /\ y \in Nat /\ u \in Nat /\ v \in Nat \ {0} /\ b \in Int
          /\ x >= b /\ x < y /\ (x + u <= y \/ y + v <= x)
      BY <1>2, <2>2, <2>3, <2>4, Numbers
    <3> HIDE DEF x, y, u, v
    <3>2. y >= b + u
      BY <3>1
    <3> QED BY <3>2 DEF y
  <2> HIDE DEF u, k
  <2> QED BY <2>1, <2>3, <2>5
<1>8. p = b
  <2>1. b \in Holes(m, S, u)
    <3>1. b \in {0} \cup {EndOf(m, l) : l \in S}
      <4>1. CASE b = 0
        BY <4>1
      <4>2. ASSUME NEW j \in 1..(i - 1), b = EndOf(m, s[j]) PROVE b \in {EndOf(m, l) : l \in S}
        <5>1. j \in 1..N /\ j < i
          OBVIOUS
        <5> QED BY <1>6, <4>2, <5>1
      <4> QED BY <4>1, <4>2 DEF PackedBefore
    <3>2. ASSUME NEW l \in S, m.table[l].number >= b PROVE m.table[l].number - b >= u
      <4>1. PICK j \in 1..N : s[j] = l
        BY <1>1
      <4>2. j # i
        BY <4>1
      <4>3. ~(j < i)
        <5>1. j < i => m.table[l].number < b /\ m.table[l].number \in Nat
          BY <1>6, <4>1
        <5> QED BY <3>2, <5>1
      <4>4. m.table[l].number >= b + u /\ m.table[l].number \in Nat
        BY <1>7, <4>1, <4>2, <4>3
      <4> HIDE DEF u
      <4> QED BY <1>2, <4>4
    <3>3. b + u <= TotalEntries
      BY <1>3
    <3> HIDE DEF u, S
    <3> QED BY <3>1, <3>2, <3>3 DEF Holes
  <2>2. p \in Nat /\ p <= b
    <3>1. p \in Nat
      <4>1. p \in Line
        BY <1>1, CompactKeyFields
      <4> HIDE DEF p
      <4> QED BY <4>1 DEF Line
    <3> QED BY <1>4, <2>1, <3>1
  <2>3. ~(p < b)
    <3> SUFFICES ASSUME p < b PROVE FALSE
      OBVIOUS
    <3>1. p \in Line
      BY <1>1, CompactKeyFields
    <3>2. PICK j \in 1..(i - 1) : p \in Region(m, s[j])
      BY <3>1 DEF PackedBefore
    <3>3. j \in 1..N /\ j < i
      OBVIOUS
    <3>4. s[j] \in S /\ s[j] \in Key /\ s[j] # k
      BY <1>6, <3>3 DEF Stored
    <3>5. p \in Free(Delete(m, k))
      <4>1. p \in p .. p + u - 1
        <5> HIDE DEF p, u
        <5> QED BY <1>2, <2>2
      <4> QED BY <1>4, <4>1
    <3>6. Stored(Delete(m, k)) = S /\ Delete(m, k).table[s[j]] = m.table[s[j]]
      BY <1>1, <3>4, DeleteFields
    <3>7. Region(Delete(m, k), s[j]) = Region(m, s[j])
      BY <3>6 DEF Region, EndOf, Used
    <3> QED BY <3>2, <3>4, <3>5, <3>6, <3>7 DEF Free
  <2> HIDE DEF p
  <2> QED BY <2>2, <2>3
<1> HIDE DEF p, c
<1>9. EndOf(c, k) = b + u /\ Region(c, k) = b .. b + u - 1
  <2>1. c.table[k].number = b /\ c.table[k].size = m.table[k].size
    BY <1>4, <1>8
  <2>2. Used(c, k) = u
    BY <2>1 DEF Used
  <2>3. EndOf(c, k) = c.table[k].number + Used(c, k) /\ Region(c, k) = c.table[k].number .. EndOf(c, k) - 1
    BY DEF EndOf, Region
  <2>4. EndOf(c, k) = b + u
    BY <2>1, <2>2, <2>3
  <2>5. (b + u) - 1 = b + u - 1
    <3>1. u \in Int /\ b \in Int
      BY <1>2, Numbers
    <3> HIDE DEF u
    <3> QED BY <3>1
  <2> HIDE DEF u, k
  <2> QED BY <2>1, <2>3, <2>4, <2>5
<1>10. ASSUME NEW j \in 1..N, j # i
       PROVE  /\ c.table[s[j]] = m.table[s[j]] /\ EndOf(c, s[j]) = EndOf(m, s[j])
              /\ Region(c, s[j]) = Region(m, s[j])
  <2>1. c.table[s[j]] = m.table[s[j]]
    BY <1>1, <1>4, <1>5, <1>10
  <2> QED BY <2>1 DEF EndOf, Region, Used
<1>11. \A j \in 1..i : j \in 1..N /\ (j = i \/ j < i) /\ (j = i \/ j \in 1..(i - 1))
  OBVIOUS
<1>12. \A j \in 1..i : EndOf(c, s[j]) <= b + u
  <2> TAKE j \in 1..i
  <2>1. CASE j = i
    <3> HIDE DEF u
    <3> QED BY <1>2, <1>9, <2>1
  <2>2. CASE j # i
    <3>1. EndOf(c, s[j]) <= b /\ EndOf(c, s[j]) \in Nat
      BY <1>1, <1>6, <1>10, <1>11, <2>2, StoredEntry
    <3> HIDE DEF u
    <3> QED BY <1>2, <3>1
  <2> QED BY <2>1, <2>2
<1>13. ASSUME NEW x \in Line, x < b + u PROVE \E j \in 1..i : x \in Region(c, s[j])
  <2>0. x \in Nat
    BY DEF Line
  <2>1. CASE x < b
    <3>1. PICK j \in 1..(i - 1) : x \in Region(m, s[j])
      BY <2>1 DEF PackedBefore
    <3>2. j \in 1..i /\ j \in 1..N /\ j # i
      OBVIOUS
    <3> QED BY <1>10, <3>1, <3>2
  <2>2. CASE ~(x < b)
    <3> HIDE DEF u
    <3>1. x \in b .. b + u - 1 /\ i \in 1..i
      BY <1>2, <1>13, <2>0, <2>2
    <3> QED BY <1>9, <3>1
  <2> QED BY <2>1, <2>2
<1>14. ASSUME NEW j \in 1..N, j > i
       PROVE  c.table[s[j]] = n.table[s[j]] /\ c.table[s[j]].number >= b + u
  <2>1. j # i
    BY <1>14
  <2> QED BY <1>7, <1>10, <1>14, <2>1
<1>15. \E j \in 1..i : b + u = EndOf(c, s[j])
  <2>1. i \in 1..i
    OBVIOUS
  <2> QED BY <1>9, <2>1
<1>16. PackedBefore(n, c, s, N, i, b + u)
  <2> HIDE DEF u
  <2> QED BY <1>12, <1>13, <1>14, <1>15 DEF PackedBefore
<1> QED BY <1>3, <1>16 DEF c

\* The entries before b are those of the keys, and entries_left counts the others.
PackedTo(m, b) ==
    /\ b \in 0..TotalEntries /\ m.left = TotalEntries - b
    /\ b = 0 \/ \E k \in Stored(m) : b = EndOf(m, k)
    /\ \A k \in Stored(m) : EndOf(m, k) <= b
    /\ \A x \in Line : x < b => \E k \in Stored(m) : x \in Region(m, k)

\* compactation_compact leaves the free entries behind the last key.
LEMMA CompactPacked ==
  ASSUME NEW n, Sound(n)
  PROVE  \E b \in 0..TotalEntries : PackedTo(Compact(n), b)
<1> DEFINE s == ByNumber(n)
           S == Stored(n)
           N == Cardinality(S)
           C == Compact(n)
<1>1. N \in Nat /\ s \in [1..N -> S] /\ \A k \in S : \E i \in 1..N : s[i] = k
  BY CompactRun
<1>2. PICK r \in [0..N -> Packings(n)] :
         r[0] = n /\ r[N] = C /\ \A i \in 1..N : r[i] = CompactKey(r[i - 1], s[i])
  BY CompactRun
<1>3. \A i, j \in 1..N : i < j => n.table[s[i]].number < n.table[s[j]].number
  <2>1. \A i, j \in DOMAIN s : i < j => n.table[s[i]].number < n.table[s[j]].number
    BY SortedKeys DEF Sound
  <2> HIDE DEF s, N, S
  <2> QED BY <1>1, <2>1
<1> HIDE DEF s, N, C
<1> DEFINE P == {i \in 0..N : \E b \in 0..TotalEntries : PackedBefore(n, r[i], s, N, i, b)}
<1>4. 0 \in P
  <2>1. \A j \in 1..N : n.table[s[j]].number \in Nat
    BY <1>1, StoredEntry DEF Sound
  <2>2. PackedBefore(n, n, s, N, 0, 0)
    BY <2>1 DEF PackedBefore, Line
  <2>3. 0 \in 0..TotalEntries /\ 0 \in 0..N
    BY <1>1, Numbers
  <2> QED BY <1>2, <2>2, <2>3
<1>5. ASSUME NEW i \in 1..N, i - 1 \in P PROVE i \in P
  <2>1. i - 1 \in 0..N /\ i \in 0..N
    BY <1>1
  <2> DEFINE m == r[i - 1]
  <2>2. PICK b \in 0..TotalEntries : PackedBefore(n, m, s, N, i - 1, b)
    BY <1>5
  <2>3. m \in Packings(n) /\ r[i] = CompactKey(m, s[i])
    BY <1>2, <2>1
  <2> HIDE DEF m
  <2>4. /\ b + Used(m, s[i]) \in 0..TotalEntries
        /\ PackedBefore(n, CompactKey(m, s[i]), s, N, i, b + Used(m, s[i]))
    BY <1>1, <1>3, <2>2, <2>3, RoundPacks
  <2> QED BY <2>1, <2>3, <2>4
<1>6. N \in P
  <2>1. \A i \in 0..N : i \in P
    <3> HIDE DEF P
    <3> QED BY <1>1, <1>4, <1>5, UpTo
  <2> QED BY <1>1, <2>1
<1>7. PICK b \in 0..TotalEntries : PackedBefore(n, C, s, N, N, b)
  BY <1>2, <1>6
<1>8. C \in Shape /\ Counted(C) /\ Stored(C) = S
  BY CompactPacking DEF Packings, Sound, C
<1>9. \A k \in Stored(C) : EndOf(C, k) <= b
  BY <1>1, <1>7, <1>8 DEF PackedBefore
<1>10. \A x \in Line : x < b => \E k \in Stored(C) : x \in Region(C, k)
  BY <1>1, <1>7, <1>8 DEF PackedBefore
<1>11. b = 0 \/ \E k \in Stored(C) : b = EndOf(C, k)
  BY <1>1, <1>7, <1>8 DEF PackedBefore
<1>12. Free(C) = b .. TotalEntries - 1
  <2>1. ASSUME NEW x \in b .. TotalEntries - 1, NEW k \in Stored(C) PROVE x \notin Region(C, k)
    <3>1. EndOf(C, k) <= b /\ EndOf(C, k) \in Nat /\ C.table[k].number \in Nat
      BY <1>8, <1>9, StoredEntry
    <3> QED BY <3>1 DEF Region
  <2>2. b .. TotalEntries - 1 \subseteq Line
    BY Numbers DEF Line
  <2>3. \A x \in Line : x < b \/ x \in b .. TotalEntries - 1
    BY Numbers DEF Line
  <2> QED BY <1>10, <2>1, <2>2, <2>3 DEF Free
<1>13. C.left = TotalEntries - b
  <2>1. b \in Int /\ TotalEntries - 1 \in Int /\ TotalEntries \in Nat /\ b <= TotalEntries
    BY Numbers
  <2>2. Cardinality(b .. TotalEntries - 1) =
            IF b > TotalEntries - 1 THEN 0 ELSE TotalEntries - 1 - b + 1
    BY <2>1, FS_Interval
  <2> QED BY <1>8, <1>12, <2>1, <2>2 DEF Counted
<1>14. PackedTo(C, b)
  BY <1>9, <1>10, <1>11, <1>13 DEF PackedTo
<1> QED BY <1>14 DEF C

-----------------------------------------------------------------------------
(* The inductive invariant *)

\* The SET that waits for the compaction is of a key that the table no longer has, and
\* was answered COMPACT.
Waiting ==
    node.up /\ request # None =>
        request.key \notin Stored(node) /\ answer.status = "COMPACT"

NodeInv ==
    /\ algorithm \in Algorithms
    /\ Sound(node)
    /\ request \in [key : Key, size : Sizes, replaced : Seq(Key)] \cup {None}
    /\ answer \in [key : Key, size : Sizes, status :
                   {"none", "OK", "COMPACT", "REPLACED", "NO_SPACE", "ERROR"}] \cup {None}
    /\ known \subseteq Key
    /\ requests \in Nat /\ kills \in Nat
    /\ Waiting /\ AcknowledgedOk

\* The invariant holds at the start.
LEMMA InitInv == Init => NodeInv
<1> SUFFICES ASSUME Init PROVE NodeInv
  OBVIOUS
<1> DEFINE disk == [k \in Key |-> None]
<1>1. disk \in Files
  BY DEF Files
<1>2. Sound(node)
  <2>1. node = Empty(disk)
    BY DEF Init
  <2> HIDE DEF disk
  <2> QED BY <1>1, <2>1, EmptySound
<1>3. Waiting /\ AcknowledgedOk
  BY DEF Init, Waiting, AcknowledgedOk
<1> QED BY <1>2, <1>3 DEF Init, NodeInv

\* A SET keeps the invariant.
LEMMA SetInv ==
  ASSUME NodeInv, NEW k \in Key, NEW size \in SizesOf[k], Set(k, size)
  PROVE  NodeInv'
<1>1. size \in Sizes
  BY DEF Sizes
<1>2. algorithm' = algorithm /\ requests' = requests + 1 /\ kills' = kills /\ node.up
      /\ request = None
  BY DEF Set, Serving
<1> DEFINE results == InstanceSet(node, k, [of |-> k, size |-> size], <<>>)
<1>3. CASE /\ k \in known /\ k \notin Stored(node)
           /\ Reply(k, size, "REPLACED")
           /\ UNCHANGED <<node, request>>
  <2>1. /\ answer' = [key |-> k, size |-> size, status |-> "REPLACED"]
        /\ known' = known \ {k}
    BY <1>3 DEF Reply
  <2>2. Sound(node)' /\ Waiting' /\ AcknowledgedOk'
    BY <1>2, <1>3, <2>1 DEF NodeInv, Waiting, AcknowledgedOk
  <2> QED BY <1>1, <1>2, <1>3, <2>1, <2>2 DEF NodeInv
<1>4. ASSUME NEW r \in results,
             Reply(k, size, r.status),
             node' = IF r.status \in {"OK", "COMPACT"} THEN r.node ELSE Crash(r.node),
             request' = IF r.status = "COMPACT"
                        THEN [key |-> k, size |-> size, replaced |-> r.replaced]
                        ELSE None
      PROVE  NodeInv'
  <2> DEFINE v == [of |-> k, size |-> size]
  <2> DEFINE list == <<>>
  <2>1. v \in Value /\ list \in Seq(Key) /\ v.size = size
        /\ Sound(node) /\ r \in InstanceSet(node, k, v, list)
    BY <1>1 DEF Value, NodeInv
  <2> HIDE DEF v, results, list
  <2>2. /\ Sound(r.node) /\ r.replaced \in Seq(Key)
        /\ r.status \in {"OK", "COMPACT", "ERROR", "NO_SPACE"}
        /\ r.status = "OK" => r.node.table[k] # None /\ r.node.table[k].size = size
        /\ r.status = "COMPACT" => k \notin Stored(r.node)
    BY <2>1, SetSound
  <2>3. /\ answer' = [key |-> k, size |-> size, status |-> r.status]
        /\ known' \subseteq Key
    BY <1>4 DEF Reply, NodeInv
  <2> HIDE DEF results
  <2>4. CASE r.status \in {"OK", "COMPACT"}
    <3>1. node' = r.node
      BY <1>4, <2>4
    <3>2. Waiting'
      BY <1>4, <2>2, <2>3, <3>1 DEF Waiting, Stored
    <3>3. AcknowledgedOk'
      BY <2>2, <2>3, <3>1 DEF AcknowledgedOk
    <3>4. Sound(node)'
      BY <2>2, <3>1
    <3>5. request' \in [key : Key, size : Sizes, replaced : Seq(Key)] \cup {None}
      BY <1>1, <1>4, <2>2
    <3> QED BY <1>1, <1>2, <2>2, <2>3, <3>2, <3>3, <3>4, <3>5 DEF NodeInv
  <2>5. CASE r.status \notin {"OK", "COMPACT"}
    <3>1. node' = Crash(r.node) /\ request' = None
      BY <1>4, <2>5
    <3>2. Sound(node') /\ node'.up = FALSE
      BY <2>2, <3>1, CrashSound
    <3>3. Waiting' /\ AcknowledgedOk'
      BY <3>2 DEF Waiting, AcknowledgedOk
    <3> QED BY <1>1, <1>2, <2>2, <2>3, <3>1, <3>2, <3>3 DEF NodeInv
  <2> QED BY <2>4, <2>5
<1> HIDE DEF results
<1> QED BY <1>3, <1>4 DEF Set, results

\* The compaction that a SET waited for, and the SET after it, keep the invariant.
LEMMA CompactAndSetInv ==
  ASSUME NodeInv, CompactAndSet
  PROVE  NodeInv'
<1> DEFINE v == [of |-> request.key, size |-> request.size]
<1>1. /\ node.up /\ request # None /\ request' = None
      /\ UNCHANGED <<algorithm, answer, known, requests, kills>>
  BY DEF CompactAndSet
<1>2. PICK r \in InstanceSet(Compact(node), request.key, v, request.replaced) : node' = r.node
  BY DEF CompactAndSet
<1>3. v \in Value /\ request.key \in Key /\ request.replaced \in Seq(Key)
  BY <1>1 DEF NodeInv, Value
<1> HIDE DEF v
<1>4. Sound(Compact(node))
  BY CompactPacking DEF NodeInv, Packings
<1>5. Sound(node')
  BY <1>2, <1>3, <1>4, SetSound
<1>6. answer.status = "COMPACT"
  BY <1>1 DEF NodeInv, Waiting
<1>7. Waiting' /\ AcknowledgedOk'
  BY <1>1, <1>6 DEF Waiting, AcknowledgedOk
<1> QED BY <1>1, <1>5, <1>7 DEF NodeInv

\* The compaction that the coordinator orders keeps the invariant.
LEMMA CompactRequestedInv ==
  ASSUME NodeInv, CompactRequested
  PROVE  NodeInv'
<1>1. /\ node.up /\ request = None /\ requests' = requests + 1 /\ node' = Compact(node)
      /\ UNCHANGED <<algorithm, request, answer, known, kills>>
  BY DEF CompactRequested, Serving
<1>2. /\ Sound(node') /\ Stored(node') = Stored(node)
      /\ \A k \in Stored(node) : node'.table[k].size = node.table[k].size
  BY <1>1, CompactPacking DEF NodeInv, Packings
<1>3. AcknowledgedOk'
  <2> SUFFICES ASSUME answer # None, answer.status = "OK"
               PROVE  /\ node'.table[answer.key] # None
                      /\ node'.table[answer.key].size = answer.size
    BY <1>1 DEF AcknowledgedOk
  <2>1. /\ answer.key \in Key
        /\ node.table[answer.key] # None /\ node.table[answer.key].size = answer.size
    BY <1>1 DEF NodeInv, AcknowledgedOk
  <2>2. answer.key \in Stored(node)
    BY <2>1 DEF Stored
  <2> QED BY <1>2, <2>1, <2>2 DEF Stored
<1>4. Waiting'
  BY <1>1 DEF Waiting
<1> QED BY <1>1, <1>2, <1>3, <1>4 DEF NodeInv

\* What keeps the table, and does not start the process, keeps the invariant.
LEMMA SameTableInv ==
  ASSUME NodeInv, Sound(node'), node'.table = node.table, node'.up => node.up,
         known' \subseteq Key, kills' \in Nat,
         UNCHANGED <<algorithm, request, answer, requests>>
  PROVE  NodeInv'
<1>1. Stored(node') = Stored(node)
  BY DEF Stored
<1>2. Waiting' /\ AcknowledgedOk'
  BY <1>1 DEF NodeInv, Waiting, AcknowledgedOk
<1> QED BY <1>2 DEF NodeInv

\* A STORE keeps the invariant.
LEMMA StoreInv ==
  ASSUME NodeInv, NEW k \in Key, Store(k)
  PROVE  NodeInv'
<1>1. /\ node' = IF k \in Stored(node) THEN StoreKeyValue(node, k) ELSE node
      /\ known' = IF k \in Stored(node) THEN known ELSE known \ {k}
      /\ UNCHANGED <<algorithm, request, answer, requests, kills>>
  BY DEF Store
<1>2. known' \subseteq Key /\ Sound(node)
  BY <1>1 DEF NodeInv
<1>3. Sound(node') /\ node'.table = node.table /\ (node'.up => node.up)
  BY <1>1, <1>2, StoreKeyValueSound
<1> QED BY <1>1, <1>2, <1>3, SameTableInv DEF NodeInv

\* A dump keeps the invariant.
LEMMA DumpInv ==
  ASSUME NodeInv, Dump
  PROVE  NodeInv'
<1>1. UNCHANGED <<algorithm, request, answer, known, requests, kills>>
  BY DEF Dump
<1>2. node' \in Dumps(node)
  BY DumpAll DEF Dump, NodeInv
<1>3. Sound(node') /\ node'.table = node.table /\ (node'.up => node.up)
  BY <1>2 DEF Dumps
<1> QED BY <1>1, <1>3, SameTableInv DEF NodeInv

\* A signal keeps the invariant, and so does the coordinator while the node is gone.
LEMMA GoneInv ==
  ASSUME NodeInv, Kill \/ \E k \in Key : Elsewhere(k)
  PROVE  NodeInv'
<1>1. CASE Kill
  <2>1. /\ node' = Crash(node) /\ kills' = kills + 1
        /\ UNCHANGED <<algorithm, request, answer, known, requests>>
    BY <1>1 DEF Kill
  <2>2. Sound(node') /\ node'.table = node.table /\ node'.up = FALSE
    BY <2>1, CrashSound DEF NodeInv
  <2> QED BY <2>1, <2>2, SameTableInv DEF NodeInv
<1>2. ASSUME NEW k \in Key, Elsewhere(k) PROVE NodeInv'
  <2>1. /\ known' = known \ {k}
        /\ UNCHANGED <<algorithm, node, request, answer, requests, kills>>
    BY <1>2 DEF Elsewhere
  <2> QED BY <2>1, SameTableInv DEF NodeInv
<1> QED BY <1>1, <1>2

\* A start keeps the invariant.
LEMMA RestartInv ==
  ASSUME NodeInv, Restart
  PROVE  NodeInv'
<1>1. /\ request' = None /\ answer' = None
      /\ UNCHANGED <<algorithm, known, requests, kills>>
  BY DEF Restart
<1>2. PICK keys \in SetToSeqs({k \in known : node.disk[k] # None}) : node' \in Recover(keys)
  BY DEF Restart
<1>3. node.disk \in Files /\ known \subseteq Key
  BY DEF NodeInv, Sound, Shape
<1>4. Sound(node')
  BY <1>2, <1>3, RecoverSound
<1>5. Waiting' /\ AcknowledgedOk'
  BY <1>1 DEF Waiting, AcknowledgedOk
<1> QED BY <1>1, <1>4, <1>5 DEF NodeInv

\* Every step keeps the invariant.
LEMMA NextInv == NodeInv /\ [Next]_vars => NodeInv'
<1> SUFFICES ASSUME NodeInv, [Next]_vars PROVE NodeInv'
  OBVIOUS
<1>1. ASSUME NEW k \in Key, NEW size \in SizesOf[k], Set(k, size) PROVE NodeInv'
  BY <1>1, SetInv
<1>2. CASE CompactAndSet
  BY <1>2, CompactAndSetInv
<1>3. CASE CompactRequested
  BY <1>3, CompactRequestedInv
<1>4. ASSUME NEW k \in Key, Store(k) PROVE NodeInv'
  BY <1>4, StoreInv
<1>5. CASE Dump
  BY <1>5, DumpInv
<1>6. CASE Kill \/ \E k \in Key : Elsewhere(k)
  BY <1>6, GoneInv
<1>7. CASE Restart
  BY <1>7, RestartInv
<1>8. CASE UNCHANGED vars
  BY <1>8 DEF vars, NodeInv, Waiting, AcknowledgedOk, Sound, Stored
<1> QED BY <1>1, <1>2, <1>3, <1>4, <1>5, <1>6, <1>7, <1>8 DEF Next

\* The invariant holds throughout.
THEOREM InstanciaInvariant == Spec => []NodeInv
<1>1. Init => NodeInv
  BY InitInv
<1>2. NodeInv /\ [Next]_vars => NodeInv'
  BY NextInv
<1> QED BY <1>1, <1>2, PTL DEF Spec

-----------------------------------------------------------------------------
(* The properties *)

\* The tables, the storage and the descriptors have their types, entries_left between
\* none and all of the entries.
THEOREM InstanciaTypes == Spec => []TypeOK
<1>1. NodeInv => TypeOK
  <2> SUFFICES ASSUME NodeInv PROVE TypeOK
    OBVIOUS
  <2>1. node \in Shape /\ node.left \in 0 .. TotalEntries
    BY LeftIsCount DEF NodeInv, Sound
  <2>2. node \in Node
    BY <2>1 DEF Shape, Node, Tables, Lines, Contents, Dictionary, OpenFiles, Files
  <2> QED BY <2>2 DEF NodeInv, TypeOK
<1> QED BY <1>1, InstanciaInvariant, PTL

\* No two keys share an entry, and none reaches past the end.
THEOREM EntriesAreDisjoint == Spec => []EntriesDisjoint
<1>1. NodeInv => EntriesDisjoint
  BY DEF NodeInv, Sound, Apart, EntriesDisjoint
<1> QED BY <1>1, InstanciaInvariant, PTL

\* entries_left is the number of entries that no key occupies.
THEOREM EntriesAreCounted == Spec => []EntriesCounted
<1>1. NodeInv => EntriesCounted
  BY DEF NodeInv, Sound, Counted, Free, Region, EntriesCounted
<1> QED BY <1>1, InstanciaInvariant, PTL

\* Where the table says a key is, the storage holds one whole value of its size.
THEOREM ValuesAreIntact == Spec => []ValuesIntact
<1>1. NodeInv => ValuesIntact
  BY DEF NodeInv, Sound, Whole, ValuesIntact
<1> QED BY <1>1, InstanciaInvariant, PTL

\* A SET answered OK stays in the table, with its size, until the next one.
THEOREM OkIsKept == Spec => []AcknowledgedOk
<1>1. NodeInv => AcknowledgedOk
  BY DEF NodeInv
<1> QED BY <1>1, InstanciaInvariant, PTL

\* The compaction that the coordinator orders keeps every key and packs them all.
THEOREM CompactionIsPacking == Spec => CompactionPacks
<1> DEFINE Packs == CompactRequested =>
              /\ Stored(node') = Stored(node)
              /\ \A i \in Line : i < TotalEntries - node'.left =>
                     \E k \in Stored(node') : i \in node'.table[k].number .. EndOf(node', k) - 1
<1>1. NodeInv /\ [Next]_vars => [Packs]_vars
  <2> SUFFICES ASSUME NodeInv, CompactRequested PROVE Packs
    OBVIOUS
  <2>1. node' = Compact(node) /\ Sound(node)
    BY DEF CompactRequested, NodeInv
  <2> DEFINE c == Compact(node)
  <2>2. Stored(c) = Stored(node)
    BY <2>1, CompactPacking DEF Packings
  <2>3. PICK b \in 0..TotalEntries : PackedTo(c, b)
    BY <2>1, CompactPacked
  <2> HIDE DEF c
  <2>4. TotalEntries - c.left = b
    BY <2>3, Numbers DEF PackedTo
  <2>5. \A i \in Line : i < b =>
            \E k \in Stored(c) : i \in c.table[k].number .. EndOf(c, k) - 1
    BY <2>3 DEF PackedTo, Region
  <2> QED BY <2>1, <2>2, <2>4, <2>5 DEF c
<1> QED BY <1>1, InstanciaInvariant, PTL DEF Spec, CompactionPacks

\* If its entries were free, the value that waited for the compaction is in the table after
\* the second attempt.
LEMMA CompactedFits ==
  ASSUME NodeInv, CompactAndSet, ReqEntries(request.size) <= node.left
  PROVE  /\ node'.table[request.key] # None
         /\ node'.table[request.key].size = request.size
<1> DEFINE v == [of |-> request.key, size |-> request.size]
           k == request.key
           size == request.size
           c == Compact(node)
           needed == ReqEntries(size)
<1>1. /\ node.up /\ request # None
      /\ \E r \in InstanceSet(c, k, v, request.replaced) : node' = r.node
  BY DEF CompactAndSet
<1>2. Sound(node) /\ k \in Key /\ size \in Sizes /\ k \notin Stored(node) /\ v \in Value
  BY <1>1 DEF NodeInv, Waiting, Value
<1>3. needed \in Nat \ {0}
  BY <1>2, SizesPositive, EntriesOfSize
<1>4. c \in Packings(node)
  BY <1>2, CompactPacking
<1>5. c \in Shape /\ Sound(c) /\ k \notin Stored(c) /\ c.left = node.left /\ Apart(c)
  BY <1>2, <1>4 DEF Packings, Sound
<1>6. PICK b \in 0..TotalEntries : PackedTo(c, b)
  BY <1>2, CompactPacked
<1> HIDE DEF c, k, size
<1>7. needed <= c.left
  BY <1>5 DEF size
<1>8. b \in Holes(c, Stored(c), needed)
  <2>1. b \in {0} \cup {EndOf(c, l) : l \in Stored(c)}
    BY <1>6 DEF PackedTo
  <2>2. b + needed <= TotalEntries
    <3> HIDE DEF needed
    <3> QED BY <1>3, <1>6, <1>7, Numbers DEF PackedTo
  <2>3. \A l \in Stored(c) : ~(c.table[l].number >= b)
    <3> TAKE l \in Stored(c)
    <3>1. /\ EndOf(c, l) = c.table[l].number + Used(c, l)
          /\ Used(c, l) \in Nat \ {0} /\ c.table[l].number \in Nat
      BY <1>5, StoredEntry
    <3>2. EndOf(c, l) <= b
      BY <1>6 DEF PackedTo
    <3> QED BY <3>1, <3>2
  <2> HIDE DEF needed
  <2> QED BY <2>1, <2>2, <2>3 DEF Holes
<1>9. Diff(c, k, size) = needed - 0 /\ needed - 0 = needed
  <2>1. needed - 0 = needed
    <3> HIDE DEF needed
    <3> QED BY <1>3
  <2> QED BY <1>5, <2>1 DEF Diff
<1>10. NewValueFitsWithReplaced(c, k, size)
  <2>1. Cardinality(AtomicKeys(c)) \in Nat
    <3>1. AtomicKeys(c) \in SUBSET Key
      BY DEF AtomicKeys, Stored
    <3> QED BY <3>1, Descriptors, FS_Subset, FS_CardinalityType
  <2>2. c.left \in Int
    BY <1>5 DEF Shape
  <2> HIDE DEF needed
  <2> QED BY <1>3, <1>7, <1>9, <2>1, <2>2 DEF NewValueFitsWithReplaced
<1>11. v.size = size /\ v.of = k
  BY DEF k, size
<1> HIDE DEF v
<1>12. node' = SetInRoom(c, k, v).node
  <2>1. PICK r \in InstanceSet(c, k, v, request.replaced) : node' = r.node
    BY <1>1 DEF c, k, v, size
  <2>2. Diff(c, k, v.size) <= c.left /\ NewValueFitsWithReplaced(c, k, v.size)
    <3> HIDE DEF needed
    <3> QED BY <1>7, <1>9, <1>10, <1>11
  <2>3. InstanceSet(c, k, v, request.replaced) =
            {[node |-> SetInRoom(c, k, v).node, status |-> SetInRoom(c, k, v).status,
              replaced |-> request.replaced]}
    BY <2>2 DEF InstanceSet
  <2> QED BY <2>1, <2>3
<1> DEFINE p == NextEntry(c, k, size)
<1>13. p = Minimum(Holes(c, Stored(c), needed))
  <2>1. ~FitsInPlace(c, k, size)
    BY <1>5 DEF FitsInPlace
  <2>2. ~(needed > c.left)
    <3>1. c.left \in Int
      BY <1>5 DEF Shape
    <3> HIDE DEF needed
    <3> QED BY <1>3, <1>7, <3>1
  <2> QED BY <1>8, <2>1, <2>2 DEF NextEntry
<1>14. p \in Nat /\ p + needed <= TotalEntries
  <2>1. Holes(c, Stored(c), needed) \subseteq Nat
    BY <1>5, StoredEntry DEF Holes
  <2>2. p \in Holes(c, Stored(c), needed)
    <3> DEFINE H == Holes(c, Stored(c), needed)
    <3> HIDE DEF H, p
    <3>1. p = Minimum(H) /\ H # {} /\ H \in SUBSET Nat
      BY <1>8, <1>13, <2>1 DEF H
    <3>2. p \in H
      BY <3>1, MinimumIsLeast
    <3> QED BY <3>2 DEF H
  <2> HIDE DEF p
  <2> QED BY <2>1, <2>2 DEF Holes
<1>15. Holes(c, Stored(c) \ {k}, needed) # {}
  <2>1. Stored(c) \ {k} = Stored(c)
    BY <1>5
  <2> QED BY <1>8, <2>1
<1>16. HasContinousEntries(c, k, v.size)
  BY <1>11, <1>15 DEF HasContinousEntries
<1>17. ~(p < 0 \/ p + needed > TotalEntries) /\ p # -1
  <2> HIDE DEF p, needed
  <2> QED BY <1>3, <1>14, Numbers
<1>18. SetInRoom(c, k, v).node =
           StatusAdd(Insert(StorageSet(c, p, Parts(v)), k, size, p), k, size, p)
  BY <1>11, <1>16, <1>17 DEF SetInRoom
<1>19. node'.table[k] = [number |-> p, size |-> size]
  <2>1. v \in Value
    BY <1>2 DEF v
  <2> HIDE DEF p
  <2> QED BY <1>2, <1>5, <1>11, <1>12, <1>14, <1>17, <1>18, <2>1, WrittenSound DEF p
<1>20. [number |-> p, size |-> size] # None
  <2>1. p \in Nat /\ size \in Nat
    BY <1>2, <1>14, SizesPositive
  <2> HIDE DEF p
  <2> QED BY <2>1, ConstantsAssumption
<1> HIDE DEF p
<1> QED BY <1>19, <1>20 DEF k, size

\* The second attempt to set a value succeeds if its entries were free.
THEOREM SecondAttemptSucceeds == Spec => EnoughForCompacted
<1>1. NodeInv /\ [Next]_vars =>
          [CompactAndSet /\ ReqEntries(request.size) <= node.left =>
              /\ node'.table[request.key] # None
              /\ node'.table[request.key].size = request.size]_vars
  BY CompactedFits
<1> QED BY <1>1, InstanciaInvariant, PTL DEF Spec, EnoughForCompacted

-----------------------------------------------------------------------------
(* The status table, where a key is always atomic or never *)

\* The scripts give a key values that fit in one entry, or values that do not.
OneEntry(k) == \A size \in SizesOf[k] : size <= EntrySize
KindsApart == \A k \in Key : OneEntry(k) \/ \A size \in SizesOf[k] : size > EntrySize

\* The lines that say ATOMIC are those of the atomic keys, those given up are of free
\* entries, every atomic key has its line, and no line before an atomic key's own names
\* it, so that deleting the first line that names it (entry_table_status_delete_kv) deletes
\* its own.
LinesAgree(n) ==
    /\ \A k \in Stored(n) : n.table[k].size \in SizesOf[k]
    /\ \A i \in Line : n.status[i].st = "ATOMIC" =>
           LET k == n.status[i].key IN k \in Stored(n) /\ OneEntry(k) /\ n.table[k].number = i
    /\ \A i \in Line : n.status[i].st = "USED" => i \in Free(n)
    /\ \A i \in Line : n.status[i].st = "NON_ATOMIC" => ~OneEntry(n.status[i].key)
    /\ \A i \in Line : n.status[i].st = "FREE" => n.status[i].key = None
    /\ \A k \in Stored(n) : OneEntry(k) =>
           /\ \A i \in Line : i < n.table[k].number => n.status[i].key # k
           /\ n.status[n.table[k].number].st = "ATOMIC"
           /\ n.status[n.table[k].number].key = k

\* Where an entry is free, a hole for one entry starts there or before.
LEMMA HoleBefore ==
  ASSUME NEW n \in Shape, Apart(n), NEW x \in Free(n)
  PROVE  \E h \in Holes(n, Stored(n), 1) : h <= x
<1> DEFINE S == Stored(n)
           ends == {0} \cup {EndOf(n, l) : l \in S}
           gaps == {x - e : e \in {y \in ends : y <= x}}
<1>1. x \in Nat /\ x < TotalEntries
  BY Numbers DEF Free, Line
<1>2. ends \subseteq Nat
  BY StoredEntry
<1>3. gaps \subseteq Nat /\ gaps # {}
  <2>1. 0 \in ends /\ 0 <= x
    BY <1>1
  <2> HIDE DEF ends
  <2>2. gaps \subseteq Nat
    BY <1>1, <1>2
  <2> QED BY <2>1, <2>2
<1>4. PICK e \in ends : e <= x /\ \A g \in gaps : x - e <= g
  <2>1. Minimum(gaps) \in gaps /\ \A g \in gaps : Minimum(gaps) <= g
    <3> HIDE DEF gaps
    <3> QED BY <1>3, MinimumIsLeast
  <2>2. PICK e \in {y \in ends : y <= x} : Minimum(gaps) = x - e
    BY <2>1
  <2> QED BY <2>1, <2>2
<1>5. \A y \in ends : y <= x => y <= e
  <2> SUFFICES ASSUME NEW y \in ends, y <= x PROVE y <= e
    OBVIOUS
  <2>1. x - y \in gaps
    BY <1>2
  <2>2. x - e <= x - y
    BY <1>4, <2>1
  <2> HIDE DEF ends
  <2> QED BY <1>1, <1>2, <2>2
<1>6. ASSUME NEW l \in S, n.table[l].number >= e PROVE n.table[l].number - e >= 1
  <2>1. /\ n.table[l].number \in Nat /\ Used(n, l) \in Nat \ {0}
        /\ EndOf(n, l) = n.table[l].number + Used(n, l)
    BY StoredEntry
  <2>2. x \notin Region(n, l)
    BY DEF Free
  <2>3. EndOf(n, l) <= x => EndOf(n, l) <= e
    BY <1>5
  <2>4. e \in Nat /\ e <= x
    BY <1>2, <1>4
  <2>5. n.table[l].number # e
    <3> SUFFICES ASSUME n.table[l].number = e PROVE FALSE
      OBVIOUS
    <3> QED BY <1>1, <2>1, <2>2, <2>3, <2>4 DEF Region
  <2> HIDE DEF ends
  <2> QED BY <1>6, <2>1, <2>4, <2>5
<1>7. e + 1 <= TotalEntries
  <2>1. e \in Nat /\ e <= x /\ TotalEntries \in Nat
    BY <1>2, <1>4, Numbers
  <2> HIDE DEF ends, gaps
  <2> QED BY <1>1, <2>1
<1>8. e \in Holes(n, S, 1)
  BY <1>6, <1>7 DEF Holes
<1> QED BY <1>4, <1>8

\* The kind of a key that is stored is that of its size.
LEMMA KindOfSize ==
  ASSUME KindsApart, NEW k \in Key, NEW size \in SizesOf[k]
  PROVE  /\ size \in Sizes /\ size \in Nat \ {0}
         /\ OneEntry(k) <=> size <= EntrySize
         /\ OneEntry(k) => ReqEntries(size) = 1
<1>1. size \in Sizes /\ size \in Nat \ {0}
  BY SizesPositive DEF Sizes
<1>2. OneEntry(k) <=> size <= EntrySize
  BY <1>1, Numbers DEF KindsApart, OneEntry
<1> QED BY <1>1, <1>2, EntriesOfSize

\* Putting a key into entries that are free, or its own, keeps the tables in agreement:
\* in place if it is an atomic key that is stored, in the first entry that is free if not.
LEMMA PlaceAgrees ==
  ASSUME KindsApart, NEW n \in Shape, LinesAgree(n), NEW m \in Shape,
         NEW k \in Key, NEW size \in SizesOf[k], NEW p \in Line,
         p .. p + ReqEntries(size) - 1 \subseteq Free(Delete(n, k)),
         Stored(m) = Stored(n) \cup {k}, m.table[k] = [number |-> p, size |-> size],
         \A l \in Key : l # k => m.table[l] = n.table[l],
         \A i \in Line : i \in p .. p + ReqEntries(size) - 1 => m.status[i] = LineOf(k, size),
         \A i \in Line : i \notin p .. p + ReqEntries(size) - 1 =>
             m.status[i].st = n.status[i].st /\ m.status[i].key = n.status[i].key,
         OneEntry(k) => \/ k \in Stored(n) /\ p = n.table[k].number
                        \/ k \notin Stored(n) /\ \A x \in Free(n) : p <= x
  PROVE  LinesAgree(m)
<1> DEFINE row == p .. p + ReqEntries(size) - 1
           line == LineOf(k, size)
<1>1. /\ size \in Sizes /\ size \in Nat \ {0} /\ (OneEntry(k) <=> size <= EntrySize)
      /\ OneEntry(k) => ReqEntries(size) = 1
  BY KindOfSize
<1>2. line.key = k /\ line.st = (IF size <= EntrySize THEN "ATOMIC" ELSE "NON_ATOMIC")
  BY DEF LineOf
<1>3. p \in Nat /\ ReqEntries(size) \in Nat \ {0} /\ p \in row
      /\ (OneEntry(k) => row = {p})
  <2>1. p \in Nat /\ ReqEntries(size) \in Nat \ {0}
    BY <1>1, EntriesOfSize DEF Line
  <2> QED BY <1>1, <2>1
<1>4. m.table[k].number = p /\ m.table[k].size = size
  OBVIOUS
<1>5. Region(m, k) = row
  <2>1. EndOf(m, k) = p + ReqEntries(size) /\ Region(m, k) = p .. EndOf(m, k) - 1
    BY <1>4 DEF Region, EndOf, Used
  <2>2. (p + ReqEntries(size)) - 1 = p + ReqEntries(size) - 1
    BY <1>3
  <2> QED BY <2>1, <2>2
<1>6. \A l \in Key : l # k => Region(m, l) = Region(n, l)
  BY DEF Region, EndOf, Used
<1>7. \A l \in Stored(m) : l \in Key /\ (l # k => l \in Stored(n))
  BY DEF Stored
<1>8. \A i \in Line : n.status[i].st \in {"ATOMIC", "NON_ATOMIC", "FREE", "USED"}
                      /\ n.status[i].key \in Key \cup {None}
  BY DEF Shape, Lines, Status
<1> HIDE DEF row, line
<1>9. /\ \A i \in Line : i \in row => m.status[i] = line
      /\ \A i \in Line : i \notin row =>
             m.status[i].st = n.status[i].st /\ m.status[i].key = n.status[i].key
  BY DEF row, line
<1>10. \A l \in Stored(m) : m.table[l].size \in SizesOf[l]
  <2> TAKE l \in Stored(m)
  <2>1. CASE l = k
    BY <1>4, <2>1
  <2>2. CASE l # k
    BY <1>7, <2>2 DEF LinesAgree
  <2> QED BY <2>1, <2>2
<1>11. ASSUME NEW i \in Line, m.status[i].st = "ATOMIC"
       PROVE  LET l == m.status[i].key IN
              l \in Stored(m) /\ OneEntry(l) /\ m.table[l].number = i
  <2>1. CASE i \in row
    <3>1. m.status[i].key = k /\ OneEntry(k)
      BY <1>1, <1>2, <1>9, <1>11, <2>1
    <3> QED BY <1>3, <1>4, <2>1, <3>1
  <2>2. CASE i \notin row
    <3> DEFINE l == n.status[i].key
    <3>1. n.status[i].st = "ATOMIC" /\ m.status[i].key = l
      BY <1>9, <1>11, <2>2
    <3>2. l \in Stored(n) /\ OneEntry(l) /\ n.table[l].number = i
      BY <3>1 DEF LinesAgree
    <3> HIDE DEF l
    <3>3. l # k
      BY <1>3, <2>2, <3>2
    <3>4. l \in Stored(m) /\ m.table[l] = n.table[l]
      <4>1. l \in Key
        BY <3>2 DEF Stored
      <4> QED BY <3>2, <3>3, <4>1
    <3> QED BY <3>1, <3>2, <3>4
  <2> QED BY <2>1, <2>2
<1>12. ASSUME NEW i \in Line, m.status[i].st = "USED" PROVE i \in Free(m)
  <2>1. i \notin row
    BY <1>2, <1>9, <1>12
  <2>2. i \in Free(n)
    BY <1>9, <1>12, <2>1 DEF LinesAgree
  <2>3. ASSUME NEW l \in Stored(m) PROVE i \notin Region(m, l)
    BY <1>5, <1>6, <1>7, <2>1, <2>2 DEF Free
  <2> QED BY <2>3 DEF Free
<1>13. ASSUME NEW i \in Line, m.status[i].st = "NON_ATOMIC" PROVE ~OneEntry(m.status[i].key)
  <2>1. CASE i \in row
    BY <1>1, <1>2, <1>9, <1>13, <2>1
  <2>2. CASE i \notin row
    BY <1>9, <1>13, <2>2 DEF LinesAgree
  <2> QED BY <2>1, <2>2
<1>14. ASSUME NEW i \in Line, m.status[i].st = "FREE" PROVE m.status[i].key = None
  <2>1. i \notin row
    BY <1>2, <1>9, <1>14
  <2> QED BY <1>9, <1>14, <2>1 DEF LinesAgree
<1>15. ASSUME NEW l \in Stored(m), OneEntry(l), NEW i \in Line, i < m.table[l].number
       PROVE  m.status[i].key # l
  <2>1. CASE l # k
    <3>1. l \in Stored(n) /\ m.table[l] = n.table[l]
      BY <1>7, <2>1
    <3>2. n.status[i].key # l
      BY <1>15, <3>1 DEF LinesAgree
    <3> QED BY <1>2, <1>9, <2>1, <3>2
  <2>2. CASE l = k
    <3>1. i < p /\ i \notin row /\ m.status[i].key = n.status[i].key
      <4>1. i < p /\ i \in Nat
        BY <1>4, <1>15, <2>2 DEF Line
      <4>2. i \notin row
        BY <1>3, <1>15, <2>2, <4>1
      <4> QED BY <1>9, <4>1, <4>2
    <3>2. CASE k \in Stored(n) /\ p = n.table[k].number
      <4>1. n.status[i].key # k
        BY <1>15, <2>2, <3>1, <3>2 DEF LinesAgree
      <4> QED BY <2>2, <3>1, <4>1
    <3>3. CASE k \notin Stored(n) /\ \A x \in Free(n) : p <= x
      <4> SUFFICES ASSUME n.status[i].key = k PROVE FALSE
        BY <2>2, <3>1
      <4>1. n.status[i].st # "ATOMIC"
        BY <3>3 DEF LinesAgree
      <4>2. n.status[i].st # "USED"
        <5>1. i \notin Free(n)
          <6>1. i \in Free(n) => p <= i
            BY <3>3
          <6>2. i \in Nat
            BY DEF Line
          <6> QED BY <1>3, <3>1, <6>1, <6>2
        <5> QED BY <5>1 DEF LinesAgree
      <4>3. n.status[i].st # "NON_ATOMIC"
        BY <1>15, <2>2 DEF LinesAgree
      <4>4. n.status[i].st # "FREE"
        BY ConstantsAssumption DEF LinesAgree
      <4> QED BY <1>8, <4>1, <4>2, <4>3, <4>4
    <3> QED BY <1>15, <2>2, <3>2, <3>3
  <2> QED BY <2>1, <2>2
<1>16. ASSUME NEW l \in Stored(m), OneEntry(l)
       PROVE  LET i == m.table[l].number IN m.status[i].st = "ATOMIC" /\ m.status[i].key = l
  <2>1. CASE l = k
    BY <1>1, <1>2, <1>3, <1>4, <1>9, <1>16, <2>1
  <2>2. CASE l # k
    <3> DEFINE i == n.table[l].number
               d == Delete(n, k)
    <3>1. l \in Stored(n) /\ l \in Key /\ m.table[l] = n.table[l]
      BY <1>7, <2>2
    <3>2. n.status[i].st = "ATOMIC" /\ n.status[i].key = l
      BY <1>16, <3>1 DEF LinesAgree
    <3>3. /\ i \in Line /\ i \in Nat /\ EndOf(n, l) = i + Used(n, l) /\ Used(n, l) \in Nat \ {0}
      BY <3>1, StoredEntry
    <3>4. i \in Region(n, l)
      <4> HIDE DEF i
      <4> QED BY <3>3 DEF Region, i
    <3>5. l \in Stored(d) /\ d.table[l] = n.table[l]
      <4> HIDE DEF d
      <4> QED BY <2>2, <3>1, DeleteFields DEF d
    <3>6. Region(d, l) = Region(n, l)
      BY <3>5 DEF Region, EndOf, Used
    <3>7. i \notin row
      <4> HIDE DEF i, d
      <4>1. i \notin Free(d)
        BY <3>4, <3>5, <3>6 DEF Free
      <4> QED BY <4>1 DEF row, d
    <3> HIDE DEF i
    <3> QED BY <1>9, <3>1, <3>2, <3>3, <3>7 DEF i
  <2> QED BY <2>1, <2>2
<1> QED BY <1>10, <1>11, <1>12, <1>13, <1>14, <1>15, <1>16 DEF LinesAgree

\* entry_table_status_delete_kv frees the first line of a key.
LEMMA FirstLineBlank ==
  ASSUME NEW n \in Shape, NEW k, NEW size, ReqEntries(size) \in Nat \ {0},
         NEW i \in Line, n.status[i].key = k, \A j \in Line : j < i => n.status[j].key # k
  PROVE  StatusDelete(n, k, size).status[i] = Blank
<1> DEFINE m == StatusDelete(n, k, size)
           lines == {x \in Line : n.status[x].key = k}
           gone == i \in lines /\ Cardinality({j \in lines : j < i}) < ReqEntries(size)
<1>1. m.status[i] = IF gone THEN Blank ELSE n.status[i]
  BY StatusDeleteFields
<1>2. gone
  <2>1. {j \in lines : j < i} = {}
    OBVIOUS
  <2>2. Cardinality({j \in lines : j < i}) = 0
    BY <2>1, FS_EmptySet
  <2>3. i \in lines
    OBVIOUS
  <2> HIDE DEF lines
  <2> QED BY <2>2, <2>3
<1> HIDE DEF gone
<1> QED BY <1>1, <1>2

\* Deleting a key, its lines too, keeps the tables in agreement.
LEMMA DropAgrees ==
  ASSUME KindsApart, NEW n, Sound(n), LinesAgree(n), NEW k \in Key, NEW size \in SizesOf[k]
  PROVE  LinesAgree(StatusDelete(Delete(n, k), k, size))
<1> DEFINE d == Delete(n, k)
           m == StatusDelete(d, k, size)
<1>1. /\ n \in Shape /\ Sound(m) /\ Stored(m) = Stored(n) \ {k}
      /\ \A l \in Stored(m) : m.table[l] = n.table[l]
      /\ \A i \in Line : m.status[i] \in {Blank, n.status[i]}
  BY DropSound DEF Sound
<1>2. d \in Shape /\ d.status = n.status
  BY <1>1, DeleteFields
<1>3. ASSUME NEW i \in Line, n.status[i].key = k,
             \A j \in Line : j < i => n.status[j].key # k
      PROVE  m.status[i] = Blank
  <2>1. ReqEntries(size) \in Nat \ {0}
    BY KindOfSize, EntriesOfSize
  <2> HIDE DEF d
  <2> QED BY <1>2, <1>3, <2>1, FirstLineBlank
<1>4. Blank.st = "FREE" /\ Blank.key = None
  BY DEF Blank
<1>5. Free(n) \subseteq Free(m)
  <2>1. \A l \in Stored(m) : l \in Stored(n) /\ Region(m, l) = Region(n, l)
    BY <1>1 DEF Region, EndOf, Used
  <2> QED BY <2>1 DEF Free
<1> HIDE DEF m
<1>6. \A l \in Stored(m) : m.table[l].size \in SizesOf[l]
  BY <1>1 DEF LinesAgree
<1>7. ASSUME NEW i \in Line, m.status[i].st = "ATOMIC"
      PROVE  LET l == m.status[i].key IN
             l \in Stored(m) /\ OneEntry(l) /\ m.table[l].number = i
  <2>1. m.status[i] = n.status[i] /\ m.status[i] # Blank
    BY <1>1, <1>4, <1>7
  <2> DEFINE l == n.status[i].key
  <2>2. l \in Stored(n) /\ OneEntry(l) /\ n.table[l].number = i
    BY <1>7, <2>1 DEF LinesAgree
  <2>3. l # k
    <3> SUFFICES ASSUME l = k PROVE FALSE
      OBVIOUS
    <3>1. \A j \in Line : j < i => n.status[j].key # k
      BY <2>2 DEF LinesAgree
    <3> QED BY <1>3, <2>1, <3>1
  <2> HIDE DEF l
  <2>4. l \in Stored(m) /\ m.table[l] = n.table[l]
    BY <1>1, <2>2, <2>3
  <2> QED BY <2>1, <2>2, <2>4 DEF l
<1>8. ASSUME NEW i \in Line
      PROVE  /\ m.status[i].st = "USED" => i \in Free(m)
             /\ m.status[i].st = "NON_ATOMIC" => ~OneEntry(m.status[i].key)
             /\ m.status[i].st = "FREE" => m.status[i].key = None
  <2>1. m.status[i] = Blank \/ m.status[i] = n.status[i]
    BY <1>1
  <2> QED BY <1>4, <1>5, <2>1 DEF LinesAgree
<1>9. ASSUME NEW l \in Stored(m), OneEntry(l), NEW i \in Line, i < m.table[l].number
      PROVE  m.status[i].key # l
  <2>1. l \in Stored(n) /\ m.table[l] = n.table[l] /\ l \in Key
    BY <1>1 DEF Stored
  <2>2. n.status[i].key # l
    BY <1>9, <2>1 DEF LinesAgree
  <2>3. None # l
    BY <2>1, ConstantsAssumption
  <2> QED BY <1>1, <1>4, <2>2, <2>3
<1>10. ASSUME NEW l \in Stored(m), OneEntry(l)
       PROVE  LET i == m.table[l].number IN m.status[i].st = "ATOMIC" /\ m.status[i].key = l
  <2> DEFINE i == n.table[l].number
  <2>1. l \in Stored(n) /\ l # k /\ m.table[l] = n.table[l]
    BY <1>1
  <2>2. n.status[i].st = "ATOMIC" /\ n.status[i].key = l /\ i \in Line
    BY <1>1, <1>10, <2>1, StoredEntry DEF LinesAgree
  <2> HIDE DEF i
  <2>3. m.status[i] = n.status[i]
    <3> HIDE DEF d
    <3> QED BY <1>2, <2>1, <2>2, OthersStay DEF m
  <2> QED BY <2>1, <2>2, <2>3 DEF i
<1>11. LinesAgree(m)
  BY <1>6, <1>7, <1>8, <1>9, <1>10 DEF LinesAgree
<1> QED BY <1>11 DEF m

\* Replacing keeps the tables in agreement and takes away atomic keys only: no key of the
\* caller's list is stored, and each key added to it had the line given up.
LEMMA ReplaceAgrees ==
  ASSUME KindsApart, NEW n, Sound(n), LinesAgree(n), NEW replaced \in Seq(Key),
         \A k \in Stored(n) : k \notin ToSet(replaced),
         NEW c \in Picks(Choice(n, replaced, 0))
  PROVE  /\ LinesAgree(Replace(n, c))
         /\ \A k \in Stored(n) : k \in ToSet(c.replaced) => n.table[k].size <= EntrySize
<1> DEFINE m == Replace(n, c)
           c0 == Choice(n, replaced, 0)
<1>1. /\ n \in Shape /\ Apart(n) /\ Sound(m) /\ Stored(m) = Stored(n) \ ToSet(c.replaced)
      /\ \A k \in Stored(m) : m.table[k] = n.table[k]
      /\ m.status = c.status
  BY ReplaceSound DEF Sound
<1> HIDE DEF m
<1>2. \A i \in Line : n.status[i] \in Status
  BY <1>1 DEF Shape, Lines
<1>3. ASSUME NEW i \in Line
      PROVE  /\ c.status[i].key = n.status[i].key
             /\ \/ c.status[i].st = n.status[i].st
                \/ /\ n.status[i].st = "ATOMIC" /\ c.status[i].st = "USED"
                   /\ n.status[i].key \in ToSet(c.replaced)
  <2>1. n.status[i] \in Status /\ c0.status = n.status
    BY <1>2 DEF Choice
  <2>2. \/ c.status[i] = n.status[i]
        \/ /\ n.status[i].st = "ATOMIC" /\ n.status[i].key \in ToSet(c.replaced)
           /\ c.status[i] = [n.status[i] EXCEPT !.st = "USED"]
    BY <2>1 DEF Picks
  <2> QED BY <2>1, <2>2 DEF Status
<1>4. ASSUME NEW k \in ToSet(c.replaced), k \in Stored(n)
      PROVE  \E i \in Line : /\ n.status[i].st = "ATOMIC" /\ n.status[i].key = k
                             /\ c.status[i].st = "USED"
  <2>1. c0.status = n.status /\ c0.replaced = replaced
    BY DEF Choice
  <2>2. k \notin ToSet(c0.replaced)
    BY <1>4, <2>1
  <2> QED BY <2>1, <2>2 DEF Picks
<1>5. ASSUME NEW k \in Stored(n), k \in ToSet(c.replaced) PROVE n.table[k].size <= EntrySize
  <2>1. PICK i \in Line : n.status[i].st = "ATOMIC" /\ n.status[i].key = k
    BY <1>4, <1>5
  <2>2. OneEntry(k) /\ n.table[k].size \in SizesOf[k]
    BY <2>1 DEF LinesAgree
  <2> QED BY <2>2 DEF OneEntry
<1>6. \A k \in Stored(m) : k \in Stored(n) /\ k \in Key /\ Region(m, k) = Region(n, k)
  BY <1>1 DEF Stored, Region, EndOf, Used
<1>7. Free(n) \subseteq Free(m)
  BY <1>6 DEF Free
<1>8. \A k \in Stored(m) : m.table[k].size \in SizesOf[k]
  BY <1>1, <1>6 DEF LinesAgree
<1>9. ASSUME NEW i \in Line, c.status[i].st = "ATOMIC"
      PROVE  LET k == c.status[i].key IN
             k \in Stored(m) /\ OneEntry(k) /\ m.table[k].number = i
  <2> DEFINE k == n.status[i].key
  <2>1. n.status[i].st = "ATOMIC" /\ c.status[i].key = k
    BY <1>3, <1>9
  <2>2. k \in Stored(n) /\ OneEntry(k) /\ n.table[k].number = i
    BY <2>1 DEF LinesAgree
  <2> HIDE DEF k
  <2>3. k \notin ToSet(c.replaced)
    <3> SUFFICES ASSUME k \in ToSet(c.replaced) PROVE FALSE
      OBVIOUS
    <3>1. PICK j \in Line : n.status[j].st = "ATOMIC" /\ n.status[j].key = k
                            /\ c.status[j].st = "USED"
      BY <1>4, <2>2
    <3>2. n.table[k].number = j
      BY <3>1 DEF LinesAgree
    <3> QED BY <1>9, <2>2, <3>1, <3>2
  <2> QED BY <1>1, <2>1, <2>2, <2>3
<1>10. ASSUME NEW i \in Line, c.status[i].st = "USED" PROVE i \in Free(m)
  <2>1. CASE n.status[i].st = "USED"
    BY <1>7, <2>1 DEF LinesAgree
  <2>2. CASE n.status[i].st # "USED"
    <3> DEFINE k == n.status[i].key
    <3>1. n.status[i].st = "ATOMIC" /\ k \in ToSet(c.replaced)
      BY <1>3, <1>10, <2>2
    <3>2. k \in Stored(n) /\ n.table[k].number = i
      BY <3>1 DEF LinesAgree
    <3> HIDE DEF k
    <3>3. k \notin Stored(m)
      BY <1>1, <3>1
    <3>4. ASSUME NEW l \in Stored(m) PROVE i \notin Region(m, l)
      <4>1. l \in Stored(n) /\ l # k /\ Region(m, l) = Region(n, l)
        BY <1>6, <3>3
      <4>2. /\ n.table[l].number \in Nat /\ EndOf(n, l) \in Nat
            /\ EndOf(n, k) = n.table[k].number + Used(n, k) /\ Used(n, k) \in Nat \ {0}
            /\ n.table[k].number \in Nat
        BY <1>1, <3>2, <4>1, StoredEntry
      <4>3. EndOf(n, k) <= n.table[l].number \/ EndOf(n, l) <= n.table[k].number
        BY <1>1, <3>2, <4>1 DEF Apart
      <4>4. i \notin Region(n, l)
        BY <3>2, <4>2, <4>3 DEF Region
      <4> QED BY <4>1, <4>4
    <3> QED BY <3>4 DEF Free
  <2> QED BY <2>1, <2>2
<1>11. ASSUME NEW i \in Line
       PROVE  /\ c.status[i].st = "NON_ATOMIC" => ~OneEntry(c.status[i].key)
              /\ c.status[i].st = "FREE" => c.status[i].key = None
  BY <1>3 DEF LinesAgree
<1>12. ASSUME NEW k \in Stored(m), OneEntry(k), NEW i \in Line, i < m.table[k].number
       PROVE  c.status[i].key # k
  <2>1. n.status[i].key # k
    BY <1>1, <1>6, <1>12 DEF LinesAgree
  <2> QED BY <1>3, <2>1
<1>13. ASSUME NEW k \in Stored(m), OneEntry(k)
       PROVE  LET i == m.table[k].number IN c.status[i].st = "ATOMIC" /\ c.status[i].key = k
  <2> DEFINE i == n.table[k].number
  <2>1. m \in Shape /\ k \in Stored(n) /\ m.table[k] = n.table[k]
    BY <1>1, <1>6 DEF Sound
  <2>2. n.status[i].st = "ATOMIC" /\ n.status[i].key = k
    BY <1>13, <2>1 DEF LinesAgree
  <2>3. /\ i \in Line /\ i \in Nat /\ EndOf(m, k) = i + Used(m, k) /\ Used(m, k) \in Nat \ {0}
    BY <2>1, StoredEntry
  <2>4. i \in Region(m, k)
    <3> HIDE DEF i
    <3> QED BY <2>1, <2>3 DEF Region, i
  <2> HIDE DEF i
  <2>5. i \notin Free(m)
    BY <2>4 DEF Free
  <2>6. c.status[i].st = "ATOMIC" /\ c.status[i].key = k
    BY <1>3, <1>10, <2>2, <2>3, <2>5
  <2> QED BY <2>1, <2>6 DEF i
<1>14. LinesAgree(m)
  BY <1>1, <1>8, <1>9, <1>10, <1>11, <1>12, <1>13 DEF LinesAgree
<1> QED BY <1>5, <1>14 DEF m

\* A value of a key that is stored and atomic fits where it is.
LEMMA OneEntryFits ==
  ASSUME KindsApart, NEW n, Sound(n), LinesAgree(n), NEW k \in Stored(n), OneEntry(k),
         NEW size \in SizesOf[k]
  PROVE  FitsInPlace(n, k, size)
<1>1. n \in Shape /\ Counted(n) /\ n.left \in 0 .. TotalEntries /\ k \in Key
  BY LeftIsCount DEF Sound, Stored
<1>2. n.table[k].size \in SizesOf[k]
  BY DEF LinesAgree
<1>3. Used(n, k) = 1 /\ ReqEntries(size) = 1
  BY <1>1, <1>2, KindOfSize DEF Used
<1>4. Diff(n, k, size) = 0
  <2>1. Diff(n, k, size) = ReqEntries(size) - Used(n, k)
    BY DEF Diff
  <2> QED BY <1>3, <2>1
<1>5. EndOf(n, k) .. EndOf(n, k) + 0 - 1 = {} /\ 0 <= n.left
  <2>1. EndOf(n, k) \in Nat
    BY <1>1, StoredEntry
  <2> QED BY <1>1, <2>1, Numbers
<1> QED BY <1>4, <1>5 DEF FitsInPlace

\* instance_set after the replacement keeps the tables in agreement, and takes away the
\* key it is asked to set if it answers COMPACT.
LEMMA InRoomAgrees ==
  ASSUME KindsApart, NEW n, Sound(n), LinesAgree(n), NEW k \in Key, NEW value \in Value,
         value.size \in SizesOf[k]
  PROVE  LET r == SetInRoom(n, k, value) IN
         /\ LinesAgree(r.node) /\ Stored(r.node) \subseteq Stored(n) \cup {k}
         /\ \A l \in Stored(n) : l \in Stored(r.node) \/ (l = k /\ r.status = "COMPACT")
<1> DEFINE size == value.size
           p == NextEntry(n, k, size)
           dropped == StatusDelete(Delete(n, k), k, size)
           written == StatusAdd(Insert(StorageSet(n, p, Parts(value)), k, size, p), k, size, p)
           r == SetInRoom(n, k, value)
<1>0. n \in Shape /\ Apart(n)
  BY DEF Sound
<1>1. CASE ~HasContinousEntries(n, k, size)
  <2>1. LinesAgree(dropped)
    BY DropAgrees
  <2>2. r = [node |-> IF k \in Stored(n) THEN dropped ELSE n, status |-> "COMPACT"]
    BY <1>1 DEF SetInRoom
  <2>3. Stored(dropped) = Stored(n) \ {k}
    BY DropSound
  <2> HIDE DEF dropped, r
  <2> QED BY <2>1, <2>2, <2>3 DEF r
<1>2. CASE HasContinousEntries(n, k, size) /\ (p < 0 \/ p + ReqEntries(size) > TotalEntries)
  <2>1. r = [node |-> n, status |-> "ERROR"]
    BY <1>2 DEF SetInRoom
  <2> HIDE DEF r
  <2> QED BY <2>1 DEF r
<1>3. CASE HasContinousEntries(n, k, size) /\ ~(p < 0 \/ p + ReqEntries(size) > TotalEntries)
  <2>1. r = [node |-> written, status |-> "OK"]
    BY <1>3 DEF SetInRoom
  <2>2. ReqEntries(size) \in Nat \ {0} /\ size \in Sizes
    BY SizesPositive, EntriesOfSize DEF Value
  <2>3. Holes(n, Stored(n), ReqEntries(size)) \subseteq Nat
    BY <1>0, <2>2, StoredEntry DEF Holes
  <2>4. p = -1 \/ p \in Nat
    <3>1. FitsInPlace(n, k, size) => n.table[k].number \in Nat
      BY <1>0, <2>2, StoredEntry DEF FitsInPlace
    <3>2. Holes(n, Stored(n), ReqEntries(size)) # {} =>
              Minimum(Holes(n, Stored(n), ReqEntries(size))) \in Nat
      BY <2>3, MinimumIsLeast
    <3> QED BY <3>1, <3>2 DEF NextEntry
  <2>5. p # -1 /\ p + ReqEntries(size) <= TotalEntries
    <3> HIDE DEF p, size
    <3> QED BY <1>3, <2>2, <2>4, Numbers
  <2>6. /\ written \in Shape /\ Stored(written) = Stored(n) \cup {k}
        /\ written.table[k] = [number |-> p, size |-> size]
        /\ \A l \in Key : l # k => written.table[l] = n.table[l]
        /\ p \in Line /\ p .. p + ReqEntries(size) - 1 \subseteq Free(Delete(n, k))
        /\ \A i \in Line : i \in p .. p + ReqEntries(size) - 1 =>
               written.status[i] = LineOf(k, size)
        /\ \A i \in Line : i \notin p .. p + ReqEntries(size) - 1 =>
               written.status[i].st = n.status[i].st /\ written.status[i].key = n.status[i].key
    BY <2>5, WrittenSound DEF Sound
  <2>7. OneEntry(k) => \/ k \in Stored(n) /\ p = n.table[k].number
                       \/ k \notin Stored(n) /\ \A x \in Free(n) : p <= x
    <3>1. CASE FitsInPlace(n, k, size)
      BY <3>1 DEF NextEntry, FitsInPlace
    <3>2. CASE ~FitsInPlace(n, k, size)
      <4> SUFFICES ASSUME OneEntry(k) PROVE k \notin Stored(n) /\ \A x \in Free(n) : p <= x
        OBVIOUS
      <4>1. k \notin Stored(n)
        BY <3>2, OneEntryFits
      <4>2. ReqEntries(size) = 1
        BY KindOfSize
      <4>3. p = Minimum(Holes(n, Stored(n), 1)) /\ Holes(n, Stored(n), 1) # {}
        BY <2>5, <3>2, <4>2 DEF NextEntry
      <4>4. ASSUME NEW x \in Free(n) PROVE p <= x
        <5>1. PICK h \in Holes(n, Stored(n), 1) : h <= x
          BY <1>0, HoleBefore
        <5>2. Holes(n, Stored(n), 1) \subseteq Nat
          BY <2>3, <4>2
        <5>3. p <= h /\ p \in Nat
          <6> HIDE DEF p
          <6> QED BY <4>3, <5>1, <5>2, MinimumIsLeast
        <5>4. h \in Nat /\ x \in Nat
          BY <5>2 DEF Free, Line
        <5> HIDE DEF p
        <5> QED BY <5>1, <5>3, <5>4
      <4> QED BY <4>1, <4>4
    <3> QED BY <3>1, <3>2
  <2>8. LinesAgree(written)
    <3> HIDE DEF written, p, size
    <3>1. size \in SizesOf[k]
      BY DEF size
    <3> QED BY <1>0, <2>6, <2>7, <3>1, PlaceAgrees
  <2> HIDE DEF written, p, r
  <2> QED BY <2>1, <2>6, <2>8 DEF r
<1> QED BY <1>1, <1>2, <1>3

\* Every result of instance_set.
LEMMA SetAgrees ==
  ASSUME KindsApart, NEW n, Sound(n), LinesAgree(n), NEW k \in Key, NEW value \in Value,
         value.size \in SizesOf[k], NEW replaced \in Seq(Key),
         \A l \in Stored(n) : l \notin ToSet(replaced),
         NEW r \in InstanceSet(n, k, value, replaced)
  PROVE  /\ LinesAgree(r.node)
         /\ \A l \in Stored(n) : \/ l \in Stored(r.node) \/ n.table[l].size <= EntrySize
                                 \/ l = k /\ r.status = "COMPACT"
         /\ r.status = "COMPACT" => \A l \in Stored(r.node) : l \notin ToSet(r.replaced)
<1> DEFINE choices == AlgorithmsExec(n, replaced, ReqEntries(value.size))
           with(list, result) == [node |-> result.node, status |-> result.status,
                                  replaced |-> list]
<1>1. \/ r = [node |-> n, status |-> "NO_SPACE", replaced |-> replaced]
      \/ r = with(replaced, SetInRoom(n, k, value))
      \/ r = [node |-> n, status |-> "ERROR", replaced |-> replaced]
      \/ \E c \in choices : r = with(c.replaced, SetInRoom(Replace(n, c), k, value))
  BY DEF InstanceSet
<1>2. ReqEntries(value.size) \in Int /\ n \in Shape
  <2>1. value.size \in Nat \ {0}
    BY SizesPositive DEF Value
  <2>2. ReqEntries(value.size) \in Nat
    BY <2>1, EntriesOfSize
  <2> QED BY <2>2 DEF Sound
<1>3. r.status = "COMPACT" => k \notin Stored(r.node)
  BY SetSound
<1>4. CASE r = with(replaced, SetInRoom(n, k, value))
  <2> DEFINE q == SetInRoom(n, k, value)
  <2>1. /\ LinesAgree(q.node) /\ Stored(q.node) \subseteq Stored(n) \cup {k}
        /\ \A l \in Stored(n) : l \in Stored(q.node) \/ (l = k /\ q.status = "COMPACT")
    BY InRoomAgrees
  <2>2. r.node = q.node /\ r.status = q.status /\ r.replaced = replaced
    BY <1>4
  <2> HIDE DEF q
  <2> QED BY <1>3, <2>1, <2>2
<1>5. ASSUME NEW c \in choices, r = with(c.replaced, SetInRoom(Replace(n, c), k, value))
      PROVE  /\ LinesAgree(r.node)
             /\ \A l \in Stored(n) : \/ l \in Stored(r.node) \/ n.table[l].size <= EntrySize
                                     \/ l = k /\ r.status = "COMPACT"
             /\ r.status = "COMPACT" => \A l \in Stored(r.node) : l \notin ToSet(r.replaced)
  <2> DEFINE m == Replace(n, c)
             q == SetInRoom(m, k, value)
  <2>1. c \in Picks(Choice(n, replaced, 0))
    BY <1>2, ChoiceStarts, ExecPicks
  <2>2. /\ Sound(m) /\ Stored(m) = Stored(n) \ ToSet(c.replaced)
        /\ LinesAgree(m)
        /\ \A l \in Stored(n) : l \in ToSet(c.replaced) => n.table[l].size <= EntrySize
    BY <2>1, ReplaceSound, ReplaceAgrees
  <2> HIDE DEF m
  <2>3. /\ LinesAgree(q.node) /\ Stored(q.node) \subseteq Stored(m) \cup {k}
        /\ \A l \in Stored(m) : l \in Stored(q.node) \/ (l = k /\ q.status = "COMPACT")
    BY <2>2, InRoomAgrees
  <2>4. r.node = q.node /\ r.status = q.status /\ r.replaced = c.replaced
    BY <1>5 DEF m
  <2> HIDE DEF q, choices
  <2> QED BY <1>3, <2>2, <2>3, <2>4
<1> HIDE DEF choices, with
<1>6. CASE r.node = n /\ r.status # "COMPACT"
  BY <1>6
<1> QED BY <1>1, <1>4, <1>5, <1>6

\* A round of the compaction keeps the tables in agreement.
LEMMA CompactKeyAgrees ==
  ASSUME KindsApart, NEW n, Sound(n), LinesAgree(n), NEW k \in Stored(n)
  PROVE  LinesAgree(CompactKey(n, k))
<1> DEFINE size == n.table[k].size
           m == StatusDelete(Delete(n, k), k, size)
           c == CompactKey(n, k)
           p == Target(n, k)
           S == Stored(n) \ {k}
<1>1. /\ n \in Shape /\ Apart(n) /\ Counted(n) /\ Whole(n) /\ k \in Key
      /\ size \in SizesOf[k] /\ Used(n, k) = ReqEntries(size)
  BY DEF Sound, Stored, LinesAgree, Used
<1>2. /\ c \in Shape /\ Stored(c) = Stored(n) /\ p \in Line
      /\ c.table[k] = [number |-> p, size |-> size]
      /\ \A l \in Key : l # k => c.table[l] = n.table[l]
      /\ p .. p + Used(n, k) - 1 \subseteq Free(Delete(n, k))
      /\ \A x \in Holes(n, S, Used(n, k)) : p <= x
      /\ \A i \in Line : i \in p .. p + Used(n, k) - 1 => c.status[i] = LineOf(k, size)
      /\ \A i \in Line : i \notin p .. p + Used(n, k) - 1 =>
             c.status[i].st = m.status[i].st /\ c.status[i].key = m.status[i].key
  BY <1>1, CompactKeyFields
<1>3. LinesAgree(m)
  <2> HIDE DEF size
  <2> QED BY <1>1, DropAgrees
<1>4. Sound(m) /\ m \in Shape /\ Apart(m) /\ Stored(m) = S
      /\ \A l \in S : m.table[l] = n.table[l]
  BY <1>1, DropSound DEF Sound
<1>5. Delete(m, k) = m
  <2> HIDE DEF m
  <2> QED BY <1>4 DEF Delete
<1>6. Free(m) = Free(Delete(n, k)) /\ m.table = Delete(n, k).table
  <2> DEFINE d == Delete(n, k)
  <2>1. d \in Shape
    BY <1>1, DeleteFields
  <2>2. m.table = d.table
    <3> HIDE DEF d, size
    <3>1. StatusDelete(d, k, size).table = d.table
      BY <2>1, StatusDeleteFields
    <3> QED BY <3>1 DEF d
  <2> HIDE DEF d, m
  <2> QED BY <2>2, SameTable DEF d
<1>7. \A l \in Key : l # k => m.table[l] = c.table[l]
  <2>1. \A l \in Key : l # k => Delete(n, k).table[l] = n.table[l]
    BY <1>1, DeleteFields
  <2> HIDE DEF m, c
  <2> QED BY <1>2, <1>6, <2>1
<1> HIDE DEF m, c, p
<1>8. OneEntry(k) => \A x \in Free(m) : p <= x
  <2> SUFFICES ASSUME OneEntry(k), NEW x \in Free(m) PROVE p <= x
    OBVIOUS
  <2>1. Used(n, k) = 1
    BY <1>1, KindOfSize
  <2>2. PICK h \in Holes(m, S, 1) : h <= x
    BY <1>4, HoleBefore
  <2>3. Holes(m, S, 1) = Holes(n, S, 1)
    <3> HIDE DEF S
    <3> QED BY <1>4, SameHoles
  <2>4. p <= h
    BY <1>2, <2>1, <2>2, <2>3
  <2>5. h \in Nat
    BY <1>1, <2>2, <2>3, StoredEntry DEF Holes
  <2>6. x \in Nat /\ p \in Nat
    BY <1>2 DEF Free, Line
  <2> QED BY <2>2, <2>4, <2>5, <2>6
<1>9. Stored(c) = Stored(m) \cup {k} /\ k \notin Stored(m)
  BY <1>2, <1>4
<1>10. LinesAgree(c)
  <2> HIDE DEF size
  <2> QED BY <1>1, <1>2, <1>3, <1>4, <1>5, <1>6, <1>7, <1>8, <1>9, PlaceAgrees
<1> QED BY <1>10 DEF c

\* So does the compaction.
LEMMA CompactAgrees ==
  ASSUME KindsApart, NEW n, Sound(n), LinesAgree(n)
  PROVE  LinesAgree(Compact(n))
<1> DEFINE s == ByNumber(n)
           N == Cardinality(Stored(n))
<1>1. N \in Nat /\ s \in [1..N -> Stored(n)]
  BY CompactRun
<1>2. PICK r \in [0..N -> Packings(n)] :
          /\ r[0] = n /\ r[N] = Compact(n)
          /\ \A i \in 1..N : r[i] = CompactKey(r[i - 1], s[i])
  BY CompactRun
<1> HIDE DEF N, s
<1> DEFINE P == {i \in 0..N : LinesAgree(r[i])}
<1>3. 0 \in P
  BY <1>1, <1>2
<1>4. ASSUME NEW i \in 1..N, i - 1 \in P PROVE i \in P
  <2>1. i \in 0..N /\ i - 1 \in 0..N /\ s[i] \in Stored(n) /\ LinesAgree(r[i - 1])
    BY <1>1, <1>4
  <2>2. Sound(r[i - 1]) /\ Stored(r[i - 1]) = Stored(n)
    BY <2>1 DEF Packings
  <2>3. LinesAgree(CompactKey(r[i - 1], s[i]))
    BY <2>1, <2>2, CompactKeyAgrees
  <2> QED BY <1>2, <2>1, <2>3
<1>5. \A i \in 0..N : i \in P
  <2> HIDE DEF P
  <2> QED BY <1>1, <1>3, <1>4, UpTo
<1> QED BY <1>1, <1>2, <1>5

\* The tables agree, no key has a file, and the SET that waits for the compaction has a
\* size of its key's and a list of keys that are gone.
AgreeInv ==
    /\ NodeInv /\ LinesAgree(node)
    /\ \A k \in Key : node.disk[k] = None
    /\ request # None =>
           /\ request.size \in SizesOf[request.key]
           /\ \A k \in Stored(node) : k \notin ToSet(request.replaced)

\* The keys that a step takes away from a node that runs.
AtomicLeave ==
    \A k \in Stored(node) : k \notin Stored(node') /\ node'.up /\ node.up =>
        node.table[k].size <= EntrySize \/ request' # None

\* What a change of other fields leaves in agreement.
LEMMA SameLinesAgree ==
  ASSUME NEW n, LinesAgree(n), NEW m, m.table = n.table, m.status = n.status
  PROVE  LinesAgree(m) /\ Stored(m) = Stored(n)
<1>1. Stored(m) = Stored(n) /\ Free(m) = Free(n)
  BY SameTable
<1> QED BY <1>1 DEF LinesAgree

\* The tables agree at the start.
LEMMA AgreeInit == Init => AgreeInv
<1> SUFFICES ASSUME Init PROVE AgreeInv
  OBVIOUS
<1>1. /\ \A k \in Key : node.table[k] = None /\ node.disk[k] = None
      /\ \A i \in Line : node.status[i] = Blank
      /\ request = None
  BY DEF Init, Empty
<1>2. Stored(node) = {}
  BY <1>1 DEF Stored
<1>3. LinesAgree(node)
  BY <1>1, <1>2 DEF LinesAgree, Blank
<1> QED BY <1>1, <1>3, InitInv DEF AgreeInv

\* A SET keeps the tables in agreement and takes away atomic keys only.
LEMMA SetKeepsAgreement ==
  ASSUME KindsApart, AgreeInv, NEW k \in Key, NEW size \in SizesOf[k], Set(k, size)
  PROVE  AgreeInv' /\ AtomicLeave
<1>1. NodeInv' /\ Sound(node) /\ LinesAgree(node)
  BY SetInv DEF AgreeInv, NodeInv
<1>2. CASE /\ k \in known /\ k \notin Stored(node)
           /\ Reply(k, size, "REPLACED")
           /\ UNCHANGED <<node, request>>
  BY <1>1, <1>2 DEF AgreeInv, AtomicLeave, Stored, LinesAgree
<1> DEFINE v == [of |-> k, size |-> size]
           list == <<>>
           results == InstanceSet(node, k, v, list)
<1>3. ASSUME NEW r \in results,
             Reply(k, size, r.status),
             node' = IF r.status \in {"OK", "COMPACT"} THEN r.node ELSE Crash(r.node),
             request' = IF r.status = "COMPACT"
                        THEN [key |-> k, size |-> size, replaced |-> r.replaced]
                        ELSE None
      PROVE  AgreeInv' /\ AtomicLeave
  <2>1. v \in Value /\ list \in Seq(Key) /\ v.size = size
        /\ \A l \in Stored(node) : l \notin ToSet(list)
    BY DEF Value, Sizes, ToSet
  <2>2. /\ LinesAgree(r.node)
        /\ \A l \in Stored(node) : \/ l \in Stored(r.node) \/ node.table[l].size <= EntrySize
                                   \/ l = k /\ r.status = "COMPACT"
        /\ r.status = "COMPACT" => \A l \in Stored(r.node) : l \notin ToSet(r.replaced)
    <3> HIDE DEF v, list
    <3> QED BY <1>1, <2>1, SetAgrees
  <2>3. \A l \in Key : r.node.disk[l] \in {None, node.disk[l]}
    <3> HIDE DEF v, list
    <3> QED BY <1>1, <2>1, SetSound
  <2>4. Sound(r.node)
    <3> HIDE DEF v, list
    <3> QED BY <1>1, <2>1, SetSound
  <2> HIDE DEF results
  <2>5. node'.table = r.node.table /\ node'.status = r.node.status /\ node'.disk = r.node.disk
    <3>1. /\ Crash(r.node).table = r.node.table /\ Crash(r.node).status = r.node.status
          /\ Crash(r.node).disk = r.node.disk
      BY <2>4 DEF Crash, Sound, Shape
    <3> QED BY <1>3, <3>1
  <2>6. LinesAgree(node') /\ Stored(node') = Stored(r.node)
    BY <2>2, <2>5, SameLinesAgree
  <2>7. \A l \in Key : node'.disk[l] = None
    BY <2>3, <2>5 DEF AgreeInv
  <2>8. request' # None => /\ request'.size \in SizesOf[request'.key]
                           /\ \A l \in Stored(node') : l \notin ToSet(request'.replaced)
    BY <1>3, <2>2, <2>6
  <2>9. AtomicLeave
    <3>1. r.replaced \in Seq(Key) /\ size \in Nat
      <4>1. r.replaced \in Seq(Key)
        <5> HIDE DEF v, list
        <5> QED BY <1>1, <2>1, SetSound DEF results
      <4> QED BY <4>1, KindOfSize
    <3>2. [key |-> k, size |-> size, replaced |-> r.replaced] # None
      BY <3>1, ConstantsAssumption
    <3>3. r.status = "COMPACT" => request' # None
      BY <1>3, <3>2
    <3> QED BY <2>2, <2>6, <3>3 DEF AtomicLeave
  <2> QED BY <1>1, <2>6, <2>7, <2>8, <2>9 DEF AgreeInv
<1>4. \/ /\ k \in known /\ k \notin Stored(node)
         /\ Reply(k, size, "REPLACED")
         /\ UNCHANGED <<node, request>>
      \/ \E r \in results :
            /\ Reply(k, size, r.status)
            /\ node' = IF r.status \in {"OK", "COMPACT"} THEN r.node ELSE Crash(r.node)
            /\ request' = IF r.status = "COMPACT"
                          THEN [key |-> k, size |-> size, replaced |-> r.replaced]
                          ELSE None
  BY DEF Set
<1> HIDE DEF results
<1> QED BY <1>2, <1>3, <1>4

\* So do the compaction that a SET waited for and the SET after it.
LEMMA CompactAndSetKeepsAgreement ==
  ASSUME KindsApart, AgreeInv, CompactAndSet
  PROVE  AgreeInv' /\ AtomicLeave
<1> DEFINE v == [of |-> request.key, size |-> request.size]
           c == Compact(node)
<1>1. /\ node.up /\ request # None /\ request' = None /\ NodeInv' /\ Sound(node)
      /\ LinesAgree(node) /\ request.key \notin Stored(node)
  BY CompactAndSetInv DEF CompactAndSet, AgreeInv, NodeInv, Waiting
<1>2. PICK r \in InstanceSet(c, request.key, v, request.replaced) : node' = r.node
  BY DEF CompactAndSet
<1>3. /\ v \in Value /\ request.key \in Key /\ request.replaced \in Seq(Key)
      /\ v.size \in SizesOf[request.key]
  BY <1>1 DEF AgreeInv, NodeInv, Value
<1>4. /\ Sound(c) /\ Stored(c) = Stored(node) /\ c.disk = node.disk
      /\ \A l \in Stored(node) : c.table[l].size = node.table[l].size
  BY <1>1, CompactPacking DEF Packings
<1>5. LinesAgree(c)
  BY <1>1, CompactAgrees
<1> HIDE DEF v, c
<1>6. \A l \in Stored(c) : l \notin ToSet(request.replaced)
  BY <1>1, <1>4 DEF AgreeInv
<1>7. /\ LinesAgree(r.node)
      /\ \A l \in Stored(c) : \/ l \in Stored(r.node) \/ c.table[l].size <= EntrySize
                              \/ l = request.key /\ r.status = "COMPACT"
  BY <1>3, <1>4, <1>5, <1>6, SetAgrees
<1>8. \A l \in Key : r.node.disk[l] \in {None, c.disk[l]}
  BY <1>3, <1>4, SetSound
<1>9. \A l \in Key : node'.disk[l] = None
  BY <1>2, <1>4, <1>8 DEF AgreeInv
<1>10. AtomicLeave
  BY <1>1, <1>2, <1>4, <1>7 DEF AtomicLeave
<1> QED BY <1>1, <1>2, <1>7, <1>9, <1>10 DEF AgreeInv

\* So does every step, if there is no file to recover the node from.
LEMMA StepKeepsAgreement ==
  ASSUME KindsApart, ~Persist, AgreeInv, [Next]_vars
  PROVE  AgreeInv' /\ (AtomicLeave \/ UNCHANGED vars)
<1>0. NodeInv' /\ Sound(node) /\ LinesAgree(node)
  BY NextInv DEF AgreeInv, NodeInv
<1>1. ASSUME NEW k \in Key, NEW size \in SizesOf[k], Set(k, size)
      PROVE  AgreeInv' /\ AtomicLeave
  BY <1>1, SetKeepsAgreement
<1>2. CASE CompactAndSet
  BY <1>2, CompactAndSetKeepsAgreement
<1>3. CASE CompactRequested
  <2>1. request = None /\ request' = None /\ node' = Compact(node)
    BY <1>3 DEF CompactRequested, Serving
  <2>2. Stored(node') = Stored(node) /\ node'.disk = node.disk
    BY <1>0, <2>1, CompactPacking DEF Packings
  <2>3. LinesAgree(node')
    BY <1>0, <2>1, CompactAgrees
  <2> QED BY <1>0, <2>1, <2>2, <2>3 DEF AgreeInv, AtomicLeave
<1>4. ~Dump /\ \A k \in Key : ~Store(k)
  BY DEF Dump, Store
<1>5. ASSUME Kill \/ \E k \in Key : Elsewhere(k) PROVE AgreeInv' /\ AtomicLeave
  <2>1. /\ node'.table = node.table /\ node'.status = node.status /\ node'.disk = node.disk
        /\ request' = request
    <3>1. /\ Crash(node).table = node.table /\ Crash(node).status = node.status
          /\ Crash(node).disk = node.disk
      BY <1>0 DEF Crash, Sound, Shape
    <3> QED BY <1>5, <3>1 DEF Kill, Elsewhere
  <2>2. LinesAgree(node') /\ Stored(node') = Stored(node)
    BY <1>0, <2>1, SameLinesAgree
  <2> QED BY <1>0, <2>1, <2>2 DEF AgreeInv, AtomicLeave
<1>6. CASE Restart
  <2>1. ~node.up /\ request' = None
    BY <1>6 DEF Restart
  <2>2. PICK keys \in SetToSeqs({k \in known : node.disk[k] # None}) : node' \in Recover(keys)
    BY <1>6 DEF Restart
  <2>3. {k \in known : node.disk[k] # None} = {}
    BY DEF AgreeInv, NodeInv
  <2>4. keys = <<>>
    <3>1. Cardinality({}) = 0
      BY FS_EmptySet
    <3>2. keys \in [1..0 -> {}]
      BY <2>2, <2>3, <3>1 DEF SetToSeqs
    <3> QED BY <3>2
  <2>5. node' = Empty(node.disk)
    <3> DEFINE opened == FoldLeft(CreateKeyValue, Empty(node.disk), keys)
               base == {[node |-> opened, replaced |-> <<>>]}
               setAll(R, k) == UNION {InstanceSet(r.node, k, node.disk[k], r.replaced) : r \in R}
               create(g) == [x \in SUBSET {} |-> IF x = {} THEN Empty(node.disk)
                                ELSE CreateKeyValue(g[x \ {Max(x)}], keys[Max(x)])]
               rounds(g) == [x \in SUBSET {} |-> IF x = {} THEN base
                                ELSE setAll(g[x \ {Max(x)}], keys[Max(x)])]
    <3>1. DOMAIN keys = {}
      BY <2>4
    <3>2. opened = Empty(node.disk)
      <4> DEFINE it == CHOOSE g : g = create(g)
                 e == Empty(node.disk)
                 f == [x \in SUBSET {} |-> e]
      <4>1. f = create(f)
        <5>1. \A x \in SUBSET {} : x = {}
          OBVIOUS
        <5> HIDE DEF e
        <5> QED BY <5>1 DEF e
      <4>2. it = create(it)
        <5> HIDE DEF create, f
        <5> QED BY <4>1
      <4>3. opened = it[{}]
        BY <3>1 DEF FoldLeft, MapThenFoldSet
      <4> HIDE DEF it
      <4> QED BY <4>2, <4>3
    <3>3. Recover(keys) = {r.node : r \in base}
      <4> HIDE DEF opened
      <4> DEFINE it == CHOOSE g : g = rounds(g)
                 f == [x \in SUBSET {} |-> base]
      <4>1. f = rounds(f)
        <5>1. \A x \in SUBSET {} : x = {}
          OBVIOUS
        <5> HIDE DEF base, setAll
        <5> QED BY <5>1
      <4>2. it = rounds(it)
        <5> HIDE DEF rounds, f
        <5> QED BY <4>1
      <4>3. Recover(keys) = {r.node : r \in it[{}]}
        BY <3>1 DEF Recover, opened, FoldLeft, MapThenFoldSet
      <4>4. it[{}] = base
        <5> HIDE DEF it, base, setAll
        <5> QED BY <4>2
      <4> HIDE DEF it
      <4> QED BY <4>3, <4>4
    <3> HIDE DEF opened
    <3> QED BY <2>2, <3>2, <3>3
  <2>6. /\ \A k \in Key : node'.table[k] = None /\ node'.disk[k] = None
        /\ \A i \in Line : node'.status[i] = Blank
    BY <2>5 DEF Empty, AgreeInv
  <2>7. Stored(node') = {}
    BY <2>6 DEF Stored
  <2>8. LinesAgree(node')
    BY <2>6, <2>7 DEF LinesAgree, Blank
  <2> QED BY <1>0, <2>1, <2>6, <2>8 DEF AgreeInv, AtomicLeave
<1>7. CASE UNCHANGED vars
  <2>1. node' = node /\ request' = request
    BY <1>7 DEF vars
  <2>2. LinesAgree(node') /\ Stored(node') = Stored(node)
    BY <1>0, <2>1, SameLinesAgree
  <2> QED BY <1>0, <1>7, <2>1, <2>2 DEF AgreeInv
<1> QED BY <1>1, <1>2, <1>3, <1>4, <1>5, <1>6, <1>7 DEF Next

\* The tables agree throughout.
THEOREM TablesAgree ==
  ASSUME KindsApart, ~Persist
  PROVE  Spec => []AgreeInv
<1>1. Init => AgreeInv
  BY AgreeInit
<1>2. AgreeInv /\ [Next]_vars => AgreeInv'
  BY StepKeepsAgreement
<1> QED BY <1>1, <1>2, PTL DEF Spec

\* A line of the status table that says ATOMIC is that of an atomic key, where the entry
\* table has it, if no key is sometimes atomic and sometimes not and nothing is persisted.
THEOREM StatusFollowsTable ==
  ASSUME KindsApart, ~Persist
  PROVE  Spec => []StatusAgrees
<1>1. AgreeInv => StatusAgrees
  <2> SUFFICES ASSUME AgreeInv, NEW i \in Line, node.status[i].st = "ATOMIC"
               PROVE  /\ node.status[i].key \in AtomicKeys(node)
                      /\ node.table[node.status[i].key].number = i
    BY DEF StatusAgrees
  <2> DEFINE k == node.status[i].key
  <2>1. k \in Stored(node) /\ OneEntry(k) /\ node.table[k].number = i
        /\ node.table[k].size \in SizesOf[k]
    BY DEF AgreeInv, LinesAgree
  <2> HIDE DEF k
  <2>2. k \in AtomicKeys(node)
    BY <2>1 DEF AtomicKeys, OneEntry
  <2> QED BY <2>1, <2>2 DEF k
<1> QED BY <1>1, TablesAgree, PTL

\* A replacement takes away atomic keys only, under the same conditions.
THEOREM ReplacedAreAtomic ==
  ASSUME KindsApart, ~Persist
  PROVE  Spec => OnlyAtomicReplaced
<1>1. AgreeInv /\ [Next]_vars => [AtomicLeave]_vars
  BY StepKeepsAgreement
<1>2. AtomicLeave <=> \A k \in Stored(node) : k \notin Stored(node') /\ node'.up /\ node.up =>
          node.table[k].size <= EntrySize \/ request' # None
  BY DEF AtomicLeave
<1> QED BY <1>1, <1>2, TablesAgree, PTL DEF Spec, OnlyAtomicReplaced

-----------------------------------------------------------------------------
(* What was answered, where a key keeps its number of entries *)

\* The lines given up since c0.
GivenUp(c0, c) == {i \in Line : c0.status[i].st = "ATOMIC" /\ c.status[i].st = "USED"}

\* What is still needed and what was given up are as many as were needed at first.
Balanced(c0, c, W) == c.wanted \in Nat /\ c.wanted + Cardinality(GivenUp(c0, c)) = W

\* A visit gives up at most the line visited, and no longer needs its entry.
LEMMA VisitBalances ==
  ASSUME NEW c0 \in Starts, NEW c \in Picks(c0), NEW i \in Line, NEW W, Balanced(c0, c, W)
  PROVE  LET v == Visit(c, i) IN
         /\ Balanced(c0, v, W)
         /\ c.wanted = 0 => v.wanted = 0
         /\ v.wanted = 0 \/ v.status[i].st # "ATOMIC"
         /\ \A j \in Line : c.status[j].st # "ATOMIC" => v.status[j].st # "ATOMIC"
<1> DEFINE x == c.status[i]
           y == [x EXCEPT !.st = "USED"]
           s == [c.status EXCEPT ![i] = y]
           r == Append(c.replaced, x.key)
           w == c.wanted - 1
           v == Visit(c, i)
<1>1. /\ c \in Working /\ c.status \in Lines /\ c.status[i] \in Status /\ c0.status[i] \in Status
      /\ c.wanted \in Nat
  BY DEF Picks, Working, Lines, Starts, Balanced
<1>2. CASE c.wanted = 0 \/ x.st # "ATOMIC"
  BY <1>2 DEF Visit
<1>3. CASE c.wanted # 0 /\ x.st = "ATOMIC"
  <2>1. y.st = "USED"
    BY <1>1 DEF Status
  <2>2. s[i] = y /\ \A j \in Line : j # i => s[j] = c.status[j]
    <3> HIDE DEF y
    <3> QED BY <1>1 DEF Lines
  <2>3. v = [c EXCEPT !.status = s, !.wanted = w, !.replaced = r]
    BY <1>3 DEF Visit
  <2>4. w \in Nat /\ w + 1 = c.wanted
    BY <1>1, <1>3
  <2> HIDE DEF v, s, w, r, y
  <2>5. v.status = s /\ v.wanted = w
    BY <1>1, <2>3 DEF Working
  <2>6. c0.status[i].st = "ATOMIC"
    <3>1. \/ c.status[i] = c0.status[i]
          \/ c0.status[i].st = "ATOMIC"
      BY DEF Picks
    <3> QED BY <1>3, <3>1
  <2>7. GivenUp(c0, v) = GivenUp(c0, c) \cup {i} /\ i \notin GivenUp(c0, c)
    BY <1>3, <2>1, <2>2, <2>5, <2>6 DEF GivenUp
  <2>8. Cardinality(GivenUp(c0, v)) = Cardinality(GivenUp(c0, c)) + 1
        /\ Cardinality(GivenUp(c0, c)) \in Nat
    <3> DEFINE S == GivenUp(c0, c)
    <3>1. IsFiniteSet(S) /\ Cardinality(S) \in Nat
      BY LineSets DEF GivenUp
    <3> HIDE DEF S
    <3>2. Cardinality(S \cup {i}) = IF i \in S THEN Cardinality(S) ELSE Cardinality(S) + 1
      BY <3>1, FS_AddElement
    <3> QED BY <2>7, <3>1, <3>2 DEF S
  <2>9. Balanced(c0, v, W)
    BY <2>4, <2>5, <2>8 DEF Balanced
  <2>10. v.status[i].st # "ATOMIC"
    BY <2>1, <2>2, <2>5
  <2>11. \A j \in Line : c.status[j].st # "ATOMIC" => v.status[j].st # "ATOMIC"
    BY <2>2, <2>5, <2>10
  <2> QED BY <1>3, <2>9, <2>10, <2>11 DEF v
<1> QED BY <1>2, <1>3

\* The cursor's visit gives up what a visit does.
LEMMA CursorVisits ==
  ASSUME NEW c \in Working, NEW i \in Line
  PROVE  /\ VisitAtPointer(c, i).status = Visit(c, i).status
         /\ VisitAtPointer(c, i).wanted = Visit(c, i).wanted
<1>1. CASE c.wanted = 0
  BY <1>1 DEF VisitAtPointer, Visit
<1>2. CASE c.wanted # 0
  <2> DEFINE v == Visit(c, i)
             p == v.pointer + 1
  <2>1. VisitAtPointer(c, i) = [v EXCEPT !.pointer = p]
    BY <1>2 DEF VisitAtPointer
  <2>2. DOMAIN v = DOMAIN c
    BY DEF Visit
  <2>3. DOMAIN c = {"status", "pointer", "replaced", "wanted"}
    BY DEF Working
  <2> HIDE DEF v, p
  <2> QED BY <2>1, <2>2, <2>3 DEF v
<1> QED BY <1>1, <1>2

\* What is no longer to be given up, after lines were visited: nothing is needed, or none
\* of these lines still says ATOMIC.
Exhausted(c, S) == c.wanted = 0 \/ \A i \in S : c.status[i].st # "ATOMIC"

\* Each choice is the one before it after a visit, wherever the cursor is.
VisitsInTurn(r, s, N) ==
    \A i \in 1..N : /\ r[i].status = Visit(r[i - 1], s[i]).status
                    /\ r[i].wanted = Visit(r[i - 1], s[i]).wanted

\* A loop of visits gives up what is needed, or all there is.
LEMMA VisitsBalance ==
  ASSUME NEW c0 \in Starts, NEW W, NEW N \in Nat, NEW s \in [1..N -> Line],
         NEW r \in [0..N -> Picks(c0)], Balanced(c0, r[0], W), VisitsInTurn(r, s, N)
  PROVE  /\ Balanced(c0, r[N], W)
         /\ r[0].wanted = 0 => r[N].wanted = 0
         /\ \A j \in Line : r[0].status[j].st # "ATOMIC" => r[N].status[j].st # "ATOMIC"
         /\ Exhausted(r[N], {s[i] : i \in 1..N})
<1> DEFINE Good(i) ==
             /\ Balanced(c0, r[i], W)
             /\ r[0].wanted = 0 => r[i].wanted = 0
             /\ \A j \in Line : r[0].status[j].st # "ATOMIC" => r[i].status[j].st # "ATOMIC"
             /\ r[i].wanted = 0 \/ \A h \in 1..i : r[i].status[s[h]].st # "ATOMIC"
           P == {i \in 0..N : Good(i)}
<1>1. 0 \in P
  OBVIOUS
<1>2. ASSUME NEW i \in 1..N, i - 1 \in P PROVE i \in P
  <2> DEFINE c == r[i - 1]
             v == Visit(c, s[i])
  <2>1. i \in 0..N /\ i - 1 \in 0..N /\ s[i] \in Line /\ Good(i - 1)
        /\ c \in Picks(c0) /\ Balanced(c0, c, W)
    BY <1>2
  <2>2. /\ Balanced(c0, v, W)
        /\ c.wanted = 0 => v.wanted = 0
        /\ v.wanted = 0 \/ v.status[s[i]].st # "ATOMIC"
        /\ \A j \in Line : c.status[j].st # "ATOMIC" => v.status[j].st # "ATOMIC"
    <3> HIDE DEF c, Good
    <3> QED BY <2>1, VisitBalances
  <2>3. r[i].status = v.status /\ r[i].wanted = v.wanted
    BY DEF VisitsInTurn
  <2> HIDE DEF v
  <2>4. Balanced(c0, r[i], W)
    BY <2>2, <2>3 DEF Balanced, GivenUp
  <2>5. ASSUME r[i].wanted # 0, NEW h \in 1..i PROVE r[i].status[s[h]].st # "ATOMIC"
    <3>1. CASE h = i
      BY <2>2, <2>3, <2>5, <3>1
    <3>2. CASE h # i
      <4>1. h \in 1..(i - 1) /\ s[h] \in Line
        BY <2>1, <2>5, <3>2
      <4>2. c.wanted # 0
        BY <2>2, <2>3, <2>5
      <4> QED BY <2>1, <2>2, <2>3, <4>1, <4>2
    <3> QED BY <3>1, <3>2
  <2>6. Good(i)
    BY <2>1, <2>2, <2>3, <2>4, <2>5
  <2> HIDE DEF Good
  <2> QED BY <2>1, <2>6
<1>3. N \in P
  <2>1. \A i \in 0..N : i \in P
    <3> HIDE DEF P
    <3> QED BY <1>1, <1>2, UpTo
  <2> HIDE DEF P
  <2> QED BY <2>1
<1>4. Good(N)
  BY <1>3
<1> QED BY <1>4 DEF Exhausted

\* The loop over a list of lines, and that of the cursor, give up what is needed, or all
\* there is.
LEMMA VisitsGiveUp ==
  ASSUME NEW c0 \in Starts, NEW c \in Picks(c0), NEW s \in Seq(Line), NEW W, Balanced(c0, c, W)
  PROVE  LET v == FoldLeft(Visit, c, s) IN
         /\ Balanced(c0, v, W)
         /\ c.wanted = 0 => v.wanted = 0
         /\ \A j \in Line : c.status[j].st # "ATOMIC" => v.status[j].st # "ATOMIC"
         /\ Exhausted(v, {s[i] : i \in 1..Len(s)})
<1> DEFINE v == FoldLeft(Visit, c, s)
           N == Len(s)
<1>1. PICK r \in [0..Len(s) -> Picks(c0)] :
          /\ r[0] = c /\ r[Len(s)] = v
          /\ \A i \in 1..Len(s) : r[i] = Visit(r[i - 1], s[i])
  BY VisitsRun
<1>2. N \in Nat /\ s \in [1..N -> Line]
  OBVIOUS
<1> HIDE DEF v, N
<1>3. r \in [0..N -> Picks(c0)] /\ r[0] = c /\ r[N] = v
      /\ \A i \in 1..N : r[i] = Visit(r[i - 1], s[i])
  BY <1>1 DEF N
<1>4. VisitsInTurn(r, s, N) /\ Balanced(c0, r[0], W)
  BY <1>3 DEF VisitsInTurn
<1>5. /\ Balanced(c0, r[N], W)
      /\ r[0].wanted = 0 => r[N].wanted = 0
      /\ \A j \in Line : r[0].status[j].st # "ATOMIC" => r[N].status[j].st # "ATOMIC"
      /\ Exhausted(r[N], {s[i] : i \in 1..N})
  <2>1. r \in [0..N -> Picks(c0)]
    BY <1>3
  <2> QED BY <1>2, <1>4, <2>1, VisitsBalance
<1> QED BY <1>3, <1>5 DEF v, N

\* The same with the cursor.
LEMMA VisitsAtPointerGiveUp ==
  ASSUME NEW c0 \in Starts, NEW c \in Picks(c0), NEW s \in Seq(Line), NEW W, Balanced(c0, c, W)
  PROVE  LET v == FoldLeft(VisitAtPointer, c, s) IN
         /\ Balanced(c0, v, W)
         /\ c.wanted = 0 => v.wanted = 0
         /\ \A j \in Line : c.status[j].st # "ATOMIC" => v.status[j].st # "ATOMIC"
         /\ Exhausted(v, {s[i] : i \in 1..Len(s)})
<1> DEFINE v == FoldLeft(VisitAtPointer, c, s)
           N == Len(s)
<1>1. PICK r \in [0..Len(s) -> Picks(c0)] :
          /\ r[0] = c /\ r[Len(s)] = v
          /\ \A i \in 1..Len(s) : r[i] = VisitAtPointer(r[i - 1], s[i])
  BY VisitsAtPointerRun
<1>2. N \in Nat /\ s \in [1..N -> Line]
  OBVIOUS
<1> HIDE DEF v, N
<1>3. r \in [0..N -> Picks(c0)] /\ r[0] = c /\ r[N] = v
      /\ \A i \in 1..N : r[i] = VisitAtPointer(r[i - 1], s[i])
  BY <1>1 DEF N
<1>4. ASSUME NEW i \in 1..N
      PROVE  /\ r[i].status = Visit(r[i - 1], s[i]).status
             /\ r[i].wanted = Visit(r[i - 1], s[i]).wanted
  <2>1. i - 1 \in 0..N /\ s[i] \in Line
    BY <1>2
  <2>2. r[i - 1] \in Working
    BY <1>3, <2>1 DEF Picks
  <2> QED BY <1>3, <2>1, <2>2, CursorVisits
<1>5. /\ Balanced(c0, r[N], W)
      /\ r[0].wanted = 0 => r[N].wanted = 0
      /\ \A j \in Line : r[0].status[j].st # "ATOMIC" => r[N].status[j].st # "ATOMIC"
      /\ Exhausted(r[N], {s[i] : i \in 1..N})
  <2>1. VisitsInTurn(r, s, N) /\ Balanced(c0, r[0], W)
    BY <1>3, <1>4 DEF VisitsInTurn
  <2>2. r \in [0..N -> Picks(c0)]
    BY <1>3
  <2> QED BY <1>2, <2>1, <2>2, VisitsBalance
<1> QED BY <1>3, <1>5 DEF v, N

\* At the start nothing is given up.
LEMMA NothingGivenUp ==
  ASSUME NEW c0 \in Starts, NEW c, c.status = c0.status, NEW W \in Nat, c.wanted = W
  PROVE  Balanced(c0, c, W)
<1>1. GivenUp(c0, c) = {}
  BY DEF GivenUp
<1>2. Cardinality(GivenUp(c0, c)) = 0
  BY <1>1, FS_EmptySet
<1> QED BY <1>2 DEF Balanced

\* algorithm_circular comes round to every line.
LEMMA CircularGivesUp ==
  ASSUME NEW n \in Shape, NEW c0 \in Starts, NEW lines \in [1..TotalEntries -> Line],
         \A i \in Line : \E j \in 1..TotalEntries : lines[j] = i,
         NEW needed \in Int, needed > n.left, NewValueFits(n, needed)
  PROVE  LET c == Circular(n, c0, lines, needed).choice IN
         Balanced(c0, c, needed - n.left) /\ Exhausted(c, Line)
<1> DEFINE size  == Len(lines)
           start == IF c0.pointer >= size THEN 0 ELSE c0.pointer
           begin == [c0 EXCEPT !.pointer = start, !.wanted = needed - n.left]
           back  == SubSeq(lines, start + 1, size)
           front == SubSeq(lines, 1, start)
           first == FoldLeft(VisitAtPointer, begin, back)
           again == FoldLeft(Visit, first, front)
           W == needed - n.left
<1>1. /\ c0 \in Working /\ c0.pointer \in Nat /\ n.left \in Int /\ W \in Nat
      /\ size = TotalEntries /\ size \in Nat /\ lines \in Seq(Line)
      /\ \A i \in 1..size : lines[i] \in Line
  BY Numbers DEF Starts, Working, Shape
<1>2. start \in 0..size
  <2> HIDE DEF size
  <2> QED BY <1>1
<1>3. /\ back \in Seq(Line) /\ front \in Seq(Line)
      /\ Len(back) = size - start /\ \A i \in 1 .. size - start : back[i] = lines[start + i]
      /\ Len(front) = start /\ \A i \in 1 .. start : front[i] = lines[i]
  <2>1. /\ start + 1 \in 1 .. size + 1 /\ start \in 0..size
        /\ \A i \in start + 1 .. size : lines[i] \in Line
        /\ \A i \in 1 .. start : lines[i] \in Line
        /\ size - (start + 1) + 1 = size - start /\ start - 1 + 1 = start
        /\ \A i \in Int : start + 1 + i - 1 = start + i /\ 1 + i - 1 = i
    <3> HIDE DEF start, size
    <3> QED BY <1>1, <1>2
  <2> HIDE DEF start, size
  <2> QED BY <1>1, <2>1, SubSeqProperties
<1>4. begin \in Picks(c0) /\ begin.status = c0.status /\ begin.wanted = W
  <2>1. start \in Nat /\ W \in Int
    <3> HIDE DEF start, W
    <3> QED BY <1>1, <1>2
  <2>2. c0 \in Picks(c0)
    BY DEF Picks, Starts
  <2> HIDE DEF start, W
  <2>3. [c0 EXCEPT !.pointer = start, !.wanted = W] \in Picks(c0)
    BY <2>1, <2>2, CursorPicks
  <2>4. begin = [c0 EXCEPT !.pointer = start, !.wanted = W]
    BY DEF W
  <2> HIDE DEF begin
  <2> QED BY <1>1, <2>3, <2>4 DEF Working
<1>5. Balanced(c0, begin, W)
  <2> HIDE DEF begin, W
  <2> QED BY <1>1, <1>4, NothingGivenUp
<1>6. /\ first \in Picks(c0) /\ Balanced(c0, first, W)
      /\ Exhausted(first, {back[i] : i \in 1..Len(back)})
  <2> HIDE DEF begin, W, back
  <2> QED BY <1>3, <1>4, <1>5, VisitsAtPointerPick, VisitsAtPointerGiveUp
<1>7. /\ Balanced(c0, again, W)
      /\ first.wanted = 0 => again.wanted = 0
      /\ \A j \in Line : first.status[j].st # "ATOMIC" => again.status[j].st # "ATOMIC"
      /\ Exhausted(again, {front[i] : i \in 1..Len(front)})
  <2> HIDE DEF first, W, front
  <2> QED BY <1>3, <1>6, VisitsGiveUp
<1>8. Exhausted(again, Line)
  <2> HIDE DEF first, again, back, front, size, start
  <2> SUFFICES ASSUME again.wanted # 0, NEW l \in Line PROVE again.status[l].st # "ATOMIC"
    BY DEF Exhausted
  <2>1. PICK j \in 1..size : lines[j] = l
    BY <1>1
  <2>2. CASE j <= start
    <3>1. j \in 1..Len(front) /\ front[j] = l
      BY <1>1, <1>2, <1>3, <2>1, <2>2
    <3> QED BY <1>7, <3>1 DEF Exhausted
  <2>3. CASE j > start
    <3>1. j - start \in 1..Len(back) /\ back[j - start] = l
      BY <1>1, <1>2, <1>3, <2>1, <2>3
    <3>2. first.wanted # 0
      BY <1>7
    <3> QED BY <1>6, <1>7, <3>1, <3>2 DEF Exhausted
  <2> QED BY <1>1, <1>2, <2>2, <2>3
<1>9. Circular(n, c0, lines, needed) =
          [choice |-> again, total |-> Len(again.replaced) - Len(c0.replaced)]
  BY DEF Circular
<1> HIDE DEF again, W
<1>10. Circular(n, c0, lines, needed).choice = again
  BY <1>9
<1> QED BY <1>7, <1>8, <1>10 DEF W

\* algorithm_lru comes to every line.
LEMMA LruGivesUp ==
  ASSUME NEW n \in Shape, NEW replaced \in Seq(Key), NEW needed \in Int, needed > n.left,
         Choice(n, replaced, 0) \in Starts, NEW c \in Lru(n, replaced, needed)
  PROVE  /\ Balanced(Choice(n, replaced, 0), c, needed - n.left)
         /\ Exhausted(c, Line)
<1> DEFINE c0 == Choice(n, replaced, 0)
           W == needed - n.left
           b == Choice(n, replaced, W)
           rank == [i \in Line |-> n.status[i].last_referenced]
<1>1. W \in Nat
  BY DEF Shape
<1>2. b \in Picks(c0) /\ b.status = c0.status /\ b.wanted = W
  <2> HIDE DEF W
  <2>1. c0 \in Picks(c0)
    BY DEF Picks, Starts
  <2>2. b = [c0 EXCEPT !.wanted = W] /\ W \in Int
    BY <1>1 DEF Choice
  <2>3. b.status = c0.status /\ b.wanted = W
    BY DEF Choice
  <2> HIDE DEF b, c0
  <2>4. [c0 EXCEPT !.wanted = W] \in Picks(c0)
    BY <2>1, <2>2, CursorPicks DEF c0
  <2> QED BY <2>2, <2>3, <2>4
<1>3. PICK o \in Orders(rank) : c = FoldLeft(Visit, b, o)
  BY DEF Lru
<1> HIDE DEF rank
<1>4. o \in Seq(Line) /\ Len(o) = TotalEntries /\ o \in [1..TotalEntries -> Line]
  BY OrderOfLines
<1>5. \A i \in Line : \E j \in 1..TotalEntries : o[j] = i
  <2>1. o \in Injection(1..TotalEntries, Line)
    BY <1>4, LineSets DEF Orders, SetToSeqs, Injection, IsInjective
  <2>2. IsFiniteSet(1..TotalEntries) /\ Cardinality(1..TotalEntries) = TotalEntries
    BY Numbers, FS_Interval
  <2>3. o \in Surjection(1..TotalEntries, Line)
    BY <2>1, <2>2, LineSets, FS_Injection
  <2> QED BY <2>3 DEF Surjection
<1>6. Balanced(c0, b, W)
  <2> HIDE DEF b, c0, W
  <2> QED BY <1>1, <1>2, NothingGivenUp DEF c0
<1>7. Balanced(c0, c, W) /\ Exhausted(c, {o[i] : i \in 1..Len(o)})
  <2> HIDE DEF b, c0, W
  <2> QED BY <1>2, <1>3, <1>4, <1>6, VisitsGiveUp DEF c0
<1>8. {o[i] : i \in 1..Len(o)} = Line
  BY <1>4, <1>5
<1> HIDE DEF c0, W
<1> QED BY <1>7, <1>8 DEF c0, W

\* An atomic key has a line that says so.
LEMMA AtomicLines ==
  ASSUME KindsApart, NEW n \in Shape, LinesAgree(n)
  PROVE  LET lines == {i \in Line : n.status[i].st = "ATOMIC"} IN
         /\ IsFiniteSet(lines) /\ Cardinality(lines) \in Nat
         /\ Cardinality(AtomicKeys(n)) \in Nat
         /\ Cardinality(AtomicKeys(n)) <= Cardinality(lines)
<1> DEFINE lines == {i \in Line : n.status[i].st = "ATOMIC"}
           S == AtomicKeys(n)
           f == [k \in S |-> n.table[k].number]
<1>1. IsFiniteSet(lines) /\ Cardinality(lines) \in Nat
  BY LineSets
<1>2. ASSUME NEW k \in S
      PROVE  n.table[k].number \in lines /\ n.status[n.table[k].number].key = k
  <2>1. k \in Stored(n) /\ k \in Key /\ n.table[k].size <= EntrySize
    BY DEF AtomicKeys, Stored
  <2>2. OneEntry(k)
    BY <2>1, KindOfSize DEF LinesAgree
  <2> QED BY <2>1, <2>2, StoredEntry DEF LinesAgree
<1>3. f \in Injection(S, lines)
  <2>1. f \in [S -> lines]
    <3> HIDE DEF S, lines
    <3> QED BY <1>2
  <2>2. \A k, l \in S : f[k] = f[l] => k = l
    <3> HIDE DEF S, lines
    <3>1. \A k \in S : f[k] = n.table[k].number
      OBVIOUS
    <3> QED BY <1>2, <3>1
  <2> HIDE DEF S, lines, f
  <2> QED BY <2>1, <2>2 DEF Injection, IsInjective
<1>4. IsFiniteSet(S) /\ Cardinality(S) <= Cardinality(lines)
  <2> HIDE DEF S, lines, f
  <2> QED BY <1>1, <1>3, FS_Injection
<1>5. Cardinality(S) \in Nat
  <2> HIDE DEF S
  <2> QED BY <1>4, FS_CardinalityType
<1> HIDE DEF S, lines
<1> QED BY <1>1, <1>4, <1>5 DEF S, lines

\* Deleting the keys of the lines given up makes the room that was missing.
LEMMA ReplaceMakesRoom ==
  ASSUME KindsApart, NEW n, Sound(n), LinesAgree(n), NEW replaced \in Seq(Key),
         \A k \in Stored(n) : k \notin ToSet(replaced),
         NEW c \in Picks(Choice(n, replaced, 0)),
         NEW needed \in Nat, needed > n.left, NewValueFits(n, needed),
         Balanced(Choice(n, replaced, 0), c, needed - n.left), Exhausted(c, Line)
  PROVE  needed <= Replace(n, c).left
<1> DEFINE m == Replace(n, c)
           c0 == Choice(n, replaced, 0)
           W == needed - n.left
           given == GivenUp(c0, c)
           lines == {i \in Line : n.status[i].st = "ATOMIC"}
<1>1. /\ n \in Shape /\ Counted(n) /\ n.left \in Nat /\ n.left <= TotalEntries
      /\ W \in Nat /\ c0.status = n.status
  <2>1. n \in Shape /\ Counted(n)
    BY DEF Sound
  <2>2. n.left \in 0 .. TotalEntries
    BY <2>1, LeftIsCount
  <2>3. n.left \in Nat /\ n.left <= TotalEntries
    BY <2>2, Numbers
  <2> QED BY <2>1, <2>3 DEF Choice
<1>2. /\ Sound(m) /\ LinesAgree(m) /\ m.status = c.status
      /\ Stored(m) \subseteq Stored(n) /\ \A k \in Stored(m) : m.table[k] = n.table[k]
  BY ReplaceSound, ReplaceAgrees
<1> HIDE DEF m
<1>3. c.wanted \in Nat /\ c.wanted + Cardinality(given) = W
  <2> HIDE DEF c0, W
  <2> QED BY DEF Balanced, c0, W
<1>4. /\ IsFiniteSet(given) /\ Cardinality(given) \in Nat
      /\ IsFiniteSet(Free(n)) /\ Cardinality(Free(n)) \in Nat
      /\ IsFiniteSet(Free(m)) /\ Cardinality(Free(m)) \in Nat
  BY LineSets DEF GivenUp, Free
<1>5. c.wanted = 0
  <2> SUFFICES ASSUME c.wanted # 0 PROVE FALSE
    OBVIOUS
  <2>1. \A i \in Line : c.status[i].st # "ATOMIC"
    BY DEF Exhausted
  <2>2. ASSUME NEW i \in Line, n.status[i].st = "ATOMIC" PROVE c.status[i].st = "USED"
    <3>1. n.status[i] \in Status
      BY <1>1 DEF Shape, Lines
    <3>2. \/ c.status[i] = n.status[i]
          \/ c.status[i] = [n.status[i] EXCEPT !.st = "USED"]
      BY <1>1 DEF Picks
    <3> QED BY <2>1, <2>2, <3>1, <3>2 DEF Status
  <2>3. given = lines
    BY <1>1, <2>2 DEF GivenUp
  <2>4. Cardinality(AtomicKeys(n)) \in Nat /\ Cardinality(AtomicKeys(n)) <= Cardinality(given)
    <3> HIDE DEF given
    <3> QED BY <1>1, <2>3, AtomicLines
  <2> HIDE DEF given, c0
  <2> QED BY <1>1, <1>3, <1>4, <2>4 DEF NewValueFits
<1>6. given \subseteq Free(m) /\ Free(n) \subseteq Free(m) /\ Free(n) \cap given = {}
  <2>1. given \subseteq Free(m)
    BY <1>2 DEF GivenUp, LinesAgree
  <2>2. \A k \in Stored(m) : k \in Stored(n) /\ Region(m, k) = Region(n, k)
    BY <1>2 DEF Region, EndOf, Used
  <2>3. Free(n) \subseteq Free(m)
    BY <2>2 DEF Free
  <2>4. ASSUME NEW i \in given PROVE i \notin Free(n)
    <3> DEFINE k == n.status[i].key
    <3>1. k \in Stored(n) /\ n.table[k].number = i
      BY <1>1, <2>4 DEF GivenUp, LinesAgree
    <3> HIDE DEF k
    <3>2. i \in Nat /\ EndOf(n, k) = i + Used(n, k) /\ Used(n, k) \in Nat \ {0}
      BY <1>1, <3>1, StoredEntry
    <3>3. i \in Region(n, k)
      BY <3>1, <3>2 DEF Region
    <3> QED BY <3>1, <3>3 DEF Free
  <2> QED BY <2>1, <2>3, <2>4
<1>7. Cardinality(Free(n) \cup given) = Cardinality(Free(n)) + Cardinality(given)
  <2> HIDE DEF given
  <2>1. Cardinality(Free(n) \cup given) =
            Cardinality(Free(n)) + Cardinality(given) - Cardinality(Free(n) \cap given)
    BY <1>4, FS_Union
  <2>2. Cardinality(Free(n) \cap given) = 0
    BY <1>6, FS_EmptySet
  <2> QED BY <1>4, <2>1, <2>2
<1>8. Cardinality(Free(n) \cup given) <= Cardinality(Free(m))
  <2> HIDE DEF given
  <2> QED BY <1>4, <1>6, FS_Subset
<1>9. m.left = Cardinality(Free(m)) /\ n.left = Cardinality(Free(n))
  BY <1>1, <1>2 DEF Sound, Counted
<1>10. needed <= m.left
  <2> HIDE DEF given
  <2> QED BY <1>1, <1>3, <1>4, <1>5, <1>7, <1>8, <1>9
<1> QED BY <1>10 DEF m

\* The choices of algorithm_circular and algorithm_lru make the room that was missing.
LEMMA ExecGivesUp ==
  ASSUME NEW n \in Shape, NEW replaced \in Seq(Key), NEW needed \in Nat, needed > n.left,
         NewValueFits(n, needed), Choice(n, replaced, 0) \in Starts,
         algorithm \in {"C", "L"}, NEW c \in AlgorithmsExec(n, replaced, needed)
  PROVE  /\ Balanced(Choice(n, replaced, 0), c, needed - n.left)
         /\ Exhausted(c, Line)
<1> DEFINE c0 == Choice(n, replaced, 0)
           lines == [i \in 1 .. TotalEntries |-> i - 1]
           circular == Circular(n, c0, lines, needed)
<1>1. CASE algorithm = "C"
  <2>1. c = circular.choice
    BY <1>1 DEF AlgorithmsExec
  <2>2. lines \in [1..TotalEntries -> Line] /\ \A i \in Line : \E j \in 1..TotalEntries : lines[j] = i
    <3>1. lines \in [1..TotalEntries -> Line]
      BY Numbers DEF Line
    <3>2. \A i \in Line : i + 1 \in 1..TotalEntries /\ lines[i + 1] = i
      BY Numbers DEF Line
    <3> QED BY <3>1, <3>2
  <2>3. needed \in Int
    OBVIOUS
  <2> HIDE DEF c0, lines
  <2> QED BY <2>1, <2>2, <2>3, CircularGivesUp DEF c0
<1>2. CASE algorithm = "L"
  <2>1. c \in Lru(n, replaced, needed)
    BY <1>2 DEF AlgorithmsExec
  <2>2. needed \in Int
    OBVIOUS
  <2> QED BY <2>1, <2>2, LruGivesUp
<1> QED BY <1>1, <1>2

\* The sizes of a key's values need the same number of entries.
SameEntries == \A k \in Key : \A s, t \in SizesOf[k] : ReqEntries(s) = ReqEntries(t)

\* More than one entry is needed by what does not fit in one.
LEMMA LongEntries ==
  ASSUME NEW s \in Nat \ {0}, s > EntrySize
  PROVE  ReqEntries(s) > 1
<1> DEFINE q == (s + EntrySize - 1) \div EntrySize
           rest == (s + EntrySize - 1) % EntrySize
<1>1. EntrySize \in Nat \ {0} /\ s \in Nat
  BY Numbers
<1>2. q \in Int /\ rest \in 0..EntrySize - 1 /\ s + EntrySize - 1 = EntrySize * q + rest
  BY <1>1
<1> HIDE DEF q, rest
<1>3. EntrySize * q > EntrySize
  BY <1>1, <1>2
<1>4. q > 1
  <2>1. q <= 1 => EntrySize * q <= EntrySize * 1
    BY <1>1, <1>2
  <2> QED BY <1>1, <1>2, <1>3, <2>1
<1> QED BY <1>4 DEF q, ReqEntries

\* So a key is always atomic or never.
LEMMA KindsAreApart == SameEntries => KindsApart
<1> SUFFICES ASSUME SameEntries, NEW k \in Key, NEW s \in SizesOf[k], ~(s <= EntrySize),
                    NEW t \in SizesOf[k]
             PROVE  t > EntrySize
  BY DEF KindsApart, OneEntry
<1>1. s \in Nat \ {0} /\ t \in Nat \ {0}
  BY ConstantsAssumption
<1>2. ReqEntries(s) > 1
  BY <1>1, Numbers, LongEntries
<1>3. ReqEntries(t) = ReqEntries(s)
  BY DEF SameEntries
<1>4. t <= EntrySize => ReqEntries(t) = 1
  BY <1>1, EntriesOfSize
<1> QED BY <1>1, <1>2, <1>3, <1>4, Numbers

\* What instance_set leaves free when it answers COMPACT: the entries of the old value
\* are given back.
LEMMA InRoomLeft ==
  ASSUME NEW n, Sound(n), NEW k \in Key, NEW value \in Value,
         SetInRoom(n, k, value).status = "COMPACT"
  PROVE  /\ k \notin Stored(n) => SetInRoom(n, k, value).node = n
         /\ k \in Stored(n) => SetInRoom(n, k, value).node.left = n.left + Used(n, k)
<1> DEFINE size == value.size
           d == Delete(n, k)
           r == SetInRoom(n, k, value)
<1>1. ~HasContinousEntries(n, k, size)
  BY DEF SetInRoom
<1>2. r = [node |-> IF k \in Stored(n) THEN StatusDelete(d, k, size) ELSE n,
           status |-> "COMPACT"]
  BY <1>1 DEF SetInRoom
<1>3. n \in Shape /\ d \in Shape
  BY DeleteFields DEF Sound
<1>4. StatusDelete(d, k, size).left = d.left
  BY <1>3, StatusDeleteFields
<1>5. k \in Stored(n) => d.left = n.left + Used(n, k)
  BY <1>3 DEF Delete, Shape
<1> HIDE DEF r, d
<1> QED BY <1>2, <1>4, <1>5 DEF r

\* An answer COMPACT leaves the entries that the value needs free: what is replaced, or
\* the old value of the key, makes the room.
LEMMA SetMakesRoom ==
  ASSUME SameEntries, algorithm \in {"C", "L"}, NEW n, Sound(n), LinesAgree(n),
         NEW k \in Key, NEW value \in Value, value.size \in SizesOf[k],
         NEW replaced \in Seq(Key), \A l \in Stored(n) : l \notin ToSet(replaced),
         NEW r \in InstanceSet(n, k, value, replaced), r.status = "COMPACT"
  PROVE  ReqEntries(value.size) <= r.node.left
<1> DEFINE needed == ReqEntries(value.size)
           choices == AlgorithmsExec(n, replaced, needed)
           with(list, result) == [node |-> result.node, status |-> result.status,
                                  replaced |-> list]
<1>1. \/ /\ Diff(n, k, value.size) <= n.left
         /\ r = with(replaced, SetInRoom(n, k, value))
      \/ /\ ~(Diff(n, k, value.size) <= n.left)
         /\ NewValueFitsWithReplaced(n, k, value.size)
         /\ \E c \in choices : r = with(c.replaced, SetInRoom(Replace(n, c), k, value))
  BY DEF InstanceSet
<1>2. needed \in Nat /\ n \in Shape /\ n.left \in Nat /\ KindsApart
  <2>1. value.size \in Nat \ {0}
    BY SizesPositive DEF Value
  <2>2. n.left \in 0 .. TotalEntries
    BY LeftIsCount DEF Sound
  <2>3. needed \in Nat
    BY <2>1, EntriesOfSize
  <2>4. n.left \in Nat
    BY <2>2, Numbers
  <2> QED BY <2>3, <2>4, KindsAreApart DEF Sound
<1>3. k \in Stored(n) => Used(n, k) = needed
  BY DEF LinesAgree, SameEntries, Used
<1>4. /\ k \in Stored(n) => Diff(n, k, value.size) = needed - needed
      /\ k \notin Stored(n) => Diff(n, k, value.size) = needed - 0
  BY <1>3 DEF Diff
<1> HIDE DEF needed
<1>5. CASE /\ Diff(n, k, value.size) <= n.left
           /\ r = with(replaced, SetInRoom(n, k, value))
  <2> DEFINE q == SetInRoom(n, k, value)
  <2>1. r.node = q.node /\ q.status = "COMPACT"
    BY <1>5
  <2>2. /\ k \notin Stored(n) => q.node = n
        /\ k \in Stored(n) => q.node.left = n.left + Used(n, k)
    BY <2>1, InRoomLeft
  <2> HIDE DEF q
  <2>3. needed <= r.node.left
    BY <1>2, <1>3, <1>4, <1>5, <2>1, <2>2
  <2> QED BY <2>3 DEF needed
<1>6. ASSUME ~(Diff(n, k, value.size) <= n.left),
             NewValueFitsWithReplaced(n, k, value.size),
             NEW c \in choices, r = with(c.replaced, SetInRoom(Replace(n, c), k, value))
      PROVE  ReqEntries(value.size) <= r.node.left
  <2> DEFINE m == Replace(n, c)
             q == SetInRoom(m, k, value)
  <2>1. k \notin Stored(n) /\ needed > n.left
    BY <1>2, <1>4, <1>6
  <2>2. Diff(n, k, value.size) = needed
    BY <1>2, <1>4, <2>1
  <2>3. NewValueFits(n, needed)
    BY <1>6, <2>2 DEF NewValueFitsWithReplaced, NewValueFits
  <2>4. Choice(n, replaced, 0) \in Starts
    BY <1>2, ChoiceStarts
  <2>5. c \in Picks(Choice(n, replaced, 0))
    BY <1>2, <2>4, ExecPicks
  <2>6. /\ Balanced(Choice(n, replaced, 0), c, needed - n.left)
        /\ Exhausted(c, Line)
    BY <1>2, <2>1, <2>3, <2>4, ExecGivesUp
  <2>7. needed <= m.left
    BY <1>2, <2>1, <2>3, <2>5, <2>6, ReplaceMakesRoom
  <2>8. Sound(m) /\ k \notin Stored(m)
    BY <2>1, <2>5, ReplaceSound
  <2> HIDE DEF m
  <2>9. r.node = q.node /\ q.status = "COMPACT"
    BY <1>6 DEF m
  <2>10. q.node = m
    BY <2>8, <2>9, InRoomLeft
  <2> HIDE DEF q
  <2> QED BY <2>7, <2>9, <2>10 DEF needed
<1> HIDE DEF choices, with
<1> QED BY <1>1, <1>5, <1>6

\* The SET that waits for the compaction is the one that was answered, and its entries
\* are free; once it was set again, what was answered COMPACT is in the table.
WaitingFits ==
    node.up /\ request # None =>
        /\ answer = [key |-> request.key, size |-> request.size, status |-> "COMPACT"]
        /\ ReqEntries(request.size) <= node.left

AcknowledgedCompact ==
    Serving /\ answer # None /\ answer.status = "COMPACT" =>
        node.table[answer.key] # None /\ node.table[answer.key].size = answer.size

AnsweredInv == AgreeInv /\ (algorithm # "B" => WaitingFits /\ AcknowledgedCompact)

\* A SET keeps the promise: an answer COMPACT leaves the room.
LEMMA SetKeepsAnswer ==
  ASSUME SameEntries, algorithm # "B", AnsweredInv,
         NEW k \in Key, NEW size \in SizesOf[k], Set(k, size)
  PROVE  WaitingFits' /\ AcknowledgedCompact'
<1> DEFINE v == [of |-> k, size |-> size]
           list == <<>>
           results == InstanceSet(node, k, v, list)
<1>1. /\ AgreeInv /\ Sound(node) /\ LinesAgree(node) /\ algorithm \in {"C", "L"}
      /\ request = None
  BY ConstantsAssumption DEF AnsweredInv, AgreeInv, NodeInv, Set, Serving
<1>2. /\ v \in Value /\ list \in Seq(Key) /\ v.size = size /\ size \in Nat
      /\ \A l \in Stored(node) : l \notin ToSet(list)
  <2>1. size \in Nat /\ size \in Sizes
    BY ConstantsAssumption DEF Sizes
  <2> QED BY <2>1 DEF Value, ToSet
<1>3. \/ /\ Reply(k, size, "REPLACED")
         /\ UNCHANGED <<node, request>>
      \/ \E r \in results :
            /\ Reply(k, size, r.status)
            /\ node' = IF r.status \in {"OK", "COMPACT"} THEN r.node ELSE Crash(r.node)
            /\ request' = IF r.status = "COMPACT"
                          THEN [key |-> k, size |-> size, replaced |-> r.replaced]
                          ELSE None
  BY DEF Set
<1> HIDE DEF v, list
<1>4. CASE Reply(k, size, "REPLACED") /\ UNCHANGED <<node, request>>
  BY <1>1, <1>4 DEF Reply, WaitingFits, AcknowledgedCompact
<1>5. ASSUME NEW r \in results,
             Reply(k, size, r.status),
             node' = IF r.status \in {"OK", "COMPACT"} THEN r.node ELSE Crash(r.node),
             request' = IF r.status = "COMPACT"
                        THEN [key |-> k, size |-> size, replaced |-> r.replaced]
                        ELSE None
      PROVE  WaitingFits' /\ AcknowledgedCompact'
  <2>1. r.replaced \in Seq(Key)
    BY <1>1, <1>2, SetSound
  <2>2. r.status = "COMPACT" => ReqEntries(size) <= r.node.left
    BY <1>1, <1>2, SetMakesRoom
  <2>3. [key |-> k, size |-> size, replaced |-> r.replaced] # None
    BY <1>2, <2>1, ConstantsAssumption
  <2>4. answer' = [key |-> k, size |-> size, status |-> r.status]
    BY <1>5 DEF Reply
  <2> HIDE DEF results
  <2>5. CASE r.status = "COMPACT"
    BY <1>5, <2>2, <2>3, <2>4, <2>5 DEF WaitingFits, AcknowledgedCompact, Serving
  <2>6. CASE r.status # "COMPACT"
    BY <1>5, <2>4, <2>6 DEF WaitingFits, AcknowledgedCompact
  <2> QED BY <2>5, <2>6
<1> HIDE DEF results
<1> QED BY <1>3, <1>4, <1>5

\* So does every step, if there is no file to recover the node from.
LEMMA StepKeepsAnswer ==
  ASSUME SameEntries, ~Persist, AnsweredInv, [Next]_vars
  PROVE  AnsweredInv'
<1>0. NodeInv /\ Sound(node) /\ AgreeInv' /\ algorithm' = algorithm
  <2>1. NodeInv /\ Sound(node) /\ AgreeInv'
    BY KindsAreApart, StepKeepsAgreement DEF AnsweredInv, AgreeInv, NodeInv
  <2>2. algorithm' = algorithm
    BY DEF Next, vars, Set, CompactAndSet, CompactRequested, Store, Elsewhere, Dump, Kill, Restart
  <2> QED BY <2>1, <2>2
<1> SUFFICES ASSUME algorithm # "B" PROVE WaitingFits' /\ AcknowledgedCompact'
  BY <1>0 DEF AnsweredInv
<1>1. NodeInv /\ Sound(node) /\ WaitingFits /\ AcknowledgedCompact
  BY <1>0 DEF AnsweredInv
<1>2. ASSUME NEW k \in Key, NEW size \in SizesOf[k], Set(k, size)
      PROVE  WaitingFits' /\ AcknowledgedCompact'
  BY <1>2, SetKeepsAnswer
<1>3. CASE CompactAndSet
  <2>1. /\ node.up /\ request # None /\ request' = None /\ answer' = answer
    BY <1>3 DEF CompactAndSet
  <2>2. /\ answer = [key |-> request.key, size |-> request.size, status |-> "COMPACT"]
        /\ ReqEntries(request.size) <= node.left
    BY <1>1, <2>1 DEF WaitingFits
  <2>3. node'.table[request.key] # None /\ node'.table[request.key].size = request.size
    BY <1>1, <1>3, <2>2, CompactedFits
  <2> QED BY <2>1, <2>2, <2>3 DEF WaitingFits, AcknowledgedCompact
<1>4. CASE CompactRequested
  <2>1. /\ Serving /\ request' = None /\ answer' = answer /\ node' = Compact(node)
        /\ request = None
    BY <1>4 DEF CompactRequested, Serving
  <2>2. /\ Stored(node') = Stored(node)
        /\ \A k \in Stored(node) : node'.table[k].size = node.table[k].size
    BY <1>1, <2>1, CompactPacking DEF Packings
  <2>3. AcknowledgedCompact'
    <3> SUFFICES ASSUME answer # None, answer.status = "COMPACT"
                 PROVE  /\ node'.table[answer.key] # None
                        /\ node'.table[answer.key].size = answer.size
      BY <2>1 DEF AcknowledgedCompact
    <3>1. /\ answer.key \in Key
          /\ node.table[answer.key] # None /\ node.table[answer.key].size = answer.size
      BY <1>1, <2>1 DEF NodeInv, AcknowledgedCompact
    <3>2. answer.key \in Stored(node)
      BY <3>1 DEF Stored
    <3> QED BY <2>2, <3>1, <3>2 DEF Stored
  <2> QED BY <2>1, <2>3 DEF WaitingFits
<1>5. ~Dump /\ \A k \in Key : ~Store(k)
  BY DEF Dump, Store
<1>6. CASE Kill
  <2>1. node'.up = FALSE
    BY <1>1, <1>6, CrashSound DEF Kill
  <2> QED BY <2>1 DEF WaitingFits, AcknowledgedCompact, Serving
<1>7. ASSUME NEW k \in Key, Elsewhere(k) PROVE WaitingFits' /\ AcknowledgedCompact'
  BY <1>1, <1>7 DEF Elsewhere, WaitingFits, AcknowledgedCompact, Serving
<1>8. CASE Restart
  BY <1>8 DEF Restart, WaitingFits, AcknowledgedCompact
<1>9. CASE UNCHANGED vars
  BY <1>1, <1>9 DEF vars, WaitingFits, AcknowledgedCompact, Serving
<1> QED BY <1>2, <1>3, <1>4, <1>5, <1>6, <1>7, <1>8, <1>9 DEF Next

\* Under circular and LRU a SET answered OK or COMPACT is in the table when the node waits
\* for the next request, if the values of a key need one number of entries and nothing is
\* persisted.
THEOREM AnsweredIsKept ==
  ASSUME SameEntries, ~Persist
  PROVE  Spec => []AcknowledgedUnlessBsu
<1>1. Init => AnsweredInv
  BY AgreeInit DEF Init, AnsweredInv, WaitingFits, AcknowledgedCompact
<1>2. AnsweredInv /\ [Next]_vars => AnsweredInv'
  BY StepKeepsAnswer
<1>3. AnsweredInv => AcknowledgedUnlessBsu
  <2> SUFFICES ASSUME AnsweredInv, algorithm # "B", Serving, answer # None, answer.status \in {"OK", "COMPACT"}
               PROVE  /\ node.table[answer.key] # None
                      /\ node.table[answer.key].size = answer.size
    BY DEF AcknowledgedSet, AcknowledgedUnlessBsu
  <2>1. CASE answer.status = "OK"
    BY <2>1 DEF AnsweredInv, AgreeInv, NodeInv, AcknowledgedOk, Serving
  <2>2. CASE answer.status = "COMPACT"
    BY <2>2 DEF AnsweredInv, AcknowledgedCompact
  <2> QED BY <2>1, <2>2
<1> QED BY <1>1, <1>2, <1>3, PTL DEF Spec
=============================================================================
