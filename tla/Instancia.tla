------------------------------ MODULE Instancia ------------------------------
(***************************************************************************)
(* A storage node (instancia/): the entry table, the status table of the   *)
(* replacement algorithms, the storage, and the files it dumps keys to.    *)
(* Its thread serves one request of the coordinator at a time, its dump    *)
(* thread writes every key to disk, instance_mutex separating the two.  A  *)
(* SET that needs compaction is answered before it is carried out.         *)
(*                                                                         *)
(* The list of entries is sorted by number, so it is a function of keys    *)
(* here.  A value is the key it was sent for and its size; the storage is  *)
(* kept by entries, each of which holds a part of a value.                 *)
(***************************************************************************)
EXTENDS Integers, Sequences, FiniteSets, SequencesExt, TLC

CONSTANTS
    Key,           \* keys of the requests, finitely many
    TotalEntries,  \* storage_setup->total_entries
    EntrySize,     \* storage_setup->entry_size
    SizesOf,       \* sizes of the values the scripts give to each key
    Algorithms,    \* replacement algorithms, one of which the configuration names
    Persist,       \* DUMP_INTERVAL is not 0, and the scripts STORE their keys
    None,          \* no key, no entry, no descriptor, no file
    MaxRequests,   \* bound: SETs and orders to compact
    MaxKills       \* bound: signals that end the process

ASSUME ConstantsAssumption ==
    /\ IsFiniteSet(Key)
    /\ TotalEntries \in Nat \ {0} /\ EntrySize \in Nat \ {0}
    /\ SizesOf \in [Key -> SUBSET (Nat \ {0})]
    /\ Algorithms \subseteq {"C", "L", "B"}
    /\ None \notin Key \cup Nat \cup [number : Nat, size : Nat]
                   \cup [key : Key, size : Nat, replaced : Seq(Key)]
    /\ Persist \in BOOLEAN
    /\ MaxRequests \in Nat /\ MaxKills \in Nat

VARIABLES
    algorithm,  \* cfg_instancia_get_replacement_algorithm_id()
    node,       \* the memory and the disk of the node, the record below
    request,    \* the SET that waits for the compaction, or None
    answer,     \* the last answer to the coordinator
    known,      \* the coordinator's key table: initialised keys of this node
    requests, kills

vars == <<algorithm, node, request, answer, known, requests, kills>>

-----------------------------------------------------------------------------

Line    == 0 .. TotalEntries - 1
Fd      == 0 .. Cardinality(Key)      \* stdin, and the numbers free at the start
Sizes   == UNION {SizesOf[k] : k \in Key}
Value   == [of : Key, size : Sizes]
Entry   == [number : Line, size : Sizes]
Status  == [st : {"ATOMIC", "NON_ATOMIC", "FREE", "USED"}, key : Key \cup {None},
            last_referenced : Nat, space_used : Int]
Part    == [value : Value, part : Nat]

ReqEntries(size) == (size + EntrySize - 1) \div EntrySize

Blank == [st |-> "FREE", key |-> None, last_referenced |-> 0, space_used |-> 0]

Node == [up : BOOLEAN,                           \* the process runs
         table : [Key -> Entry \cup {None}],     \* entry_table
         left : 0 .. TotalEntries,               \* entries_left
         status : [Line -> Status],              \* entry_table_status_global
         pointer : Nat,                          \* algorithm_circular_pointer
         data : [Line -> Part \cup {None}],      \* storage->data
         fd : [Key -> Fd \cup {None}],           \* dumper->file_dictionary
         opened : [Fd -> Key \cup {None, "stdin", "unlinked"}], \* what a descriptor refers to
         disk : [Key -> Value \cup {None}]]      \* the files of the mount point

TypeOK ==
    /\ algorithm \in Algorithms
    /\ node \in Node
    /\ request \in [key : Key, size : Sizes, replaced : Seq(Key)] \cup {None}
    /\ answer \in [key : Key, size : Sizes, status :
                   {"none", "OK", "COMPACT", "REPLACED", "NO_SPACE", "ERROR"}] \cup {None}
    /\ known \subseteq Key
    /\ requests \in Nat /\ kills \in Nat

\* instance_init up to the recovery
Empty(disk) ==
    [up |-> TRUE,
     table |-> [k \in Key |-> None], left |-> TotalEntries,
     status |-> [i \in Line |-> Blank], pointer |-> 0,
     data |-> [i \in Line |-> None],
     fd |-> [k \in Key |-> None],
     opened |-> [f \in Fd |-> IF f = 0 THEN "stdin" ELSE None],
     disk |-> disk]

Init ==
    /\ algorithm \in Algorithms
    /\ node = Empty([k \in Key |-> None])
    /\ request = None /\ answer = None
    /\ known = {}
    /\ requests = 0 /\ kills = 0

-----------------------------------------------------------------------------
(* entry_table.c *)

Stored(n) == {k \in Key : n.table[k] # None}
Used(n, k) == ReqEntries(n.table[k].size)
EndOf(n, k) == n.table[k].number + Used(n, k)
Diff(n, k, size) ==
    ReqEntries(size) - (IF k \in Stored(n) THEN Used(n, k) ELSE 0)
AtomicKeys(n) == {k \in Stored(n) : n.table[k].size <= EntrySize}

\* mutant: the hole before the first key is overlooked
HolesBehind(n, S, needed) ==
    {p \in IF S = {} THEN {0} ELSE {EndOf(n, k) : k \in S} :
        /\ p + needed <= TotalEntries
        /\ \A k \in S : n.table[k].number >= p => n.table[k].number - p >= needed}

\* first entries of the holes between the keys of S that hold needed entries
Holes(n, S, needed) ==
    {p \in {0} \cup {EndOf(n, k) : k \in S} :
        /\ p + needed <= TotalEntries
        /\ \A k \in S : n.table[k].number >= p => n.table[k].number - p >= needed}

\* entry_table_has_continous_entries: a key that is the last one always has room,
\* the others grow only if an entry remains free behind them
HasContinousEntries(n, k, size) ==
    LET others == Stored(n) \ {k}
        behind == {o \in others : n.table[o].number >= n.table[k].number} IN
    \/ k \in Stored(n) /\ behind = {}
    \/ /\ k \in Stored(n)
       /\ \A o \in behind : EndOf(n, k) + Diff(n, k, size) < n.table[o].number
    \/ Holes(n, others, ReqEntries(size)) # {}

Minimum(S) == CHOOSE x \in S : \A y \in S : x <= y

\* mutant: a value grows over whatever is behind it
FitsAlways(n, k, size) == k \in Stored(n)
FitsInPlace(n, k, size) ==
    /\ k \in Stored(n)
    /\ \/ size <= n.table[k].size
       \/ /\ Diff(n, k, size) <= n.left
          /\ \A o \in Stored(n) : n.table[o].number \notin
                 EndOf(n, k) .. EndOf(n, k) + Diff(n, k, size) - 1

\* entry_table_next_entry; -1 if there is none
NextEntry(n, k, size) ==
    LET holes == Holes(n, Stored(n), ReqEntries(size)) IN
    IF FitsInPlace(n, k, size) THEN n.table[k].number
    ELSE IF holes = {} \/ (ReqEntries(size) > n.left /\ k \notin Stored(n)) THEN -1
    ELSE Minimum(holes)

\* mutant: the entries of the old value are not given back
InsertLeaking(n, k, size, p) ==
    [n EXCEPT !.table[k] = [number |-> p, size |-> size], !.left = @ - ReqEntries(size)]
Insert(n, k, size, p) ==
    [n EXCEPT !.table[k] = [number |-> p, size |-> size], !.left = @ - Diff(n, k, size)]

\* mutant: entries_left forgets the key
DeleteUncounted(n, k) == [n EXCEPT !.table[k] = None]
Delete(n, k) ==
    IF k \in Stored(n) THEN [n EXCEPT !.table[k] = None, !.left = @ + Used(n, k)] ELSE n

-----------------------------------------------------------------------------
(* The status table: algorithms.c *)

LineOf(k, size) ==
    IF size <= EntrySize
    THEN [st |-> "ATOMIC", key |-> k, last_referenced |-> 0, space_used |-> size]
    ELSE [st |-> "NON_ATOMIC", key |-> k, last_referenced |-> 0, space_used |-> -1]

Aged(line) == [line EXCEPT !.last_referenced = @ + 1]

\* entry_table_status_add_kv; last_referenced is kept for the one algorithm that reads it
StatusAdd(n, k, size, p) ==
    [n EXCEPT !.status = [i \in Line |->
        IF i \in p .. p + ReqEntries(size) - 1 THEN LineOf(k, size)
        ELSE IF @[i].st = "FREE" \/ algorithm # "L" THEN @[i] ELSE Aged(@[i])]]

\* entry_table_status_delete_kv: the first lines of the key, as many as size needs
StatusDelete(n, k, size) ==
    LET lines == {i \in Line : n.status[i].key = k} IN
    [n EXCEPT !.status = [i \in Line |->
        IF i \in lines /\ Cardinality({j \in lines : j < i}) < ReqEntries(size)
        THEN Blank ELSE @[i]]]

\* new_value_fits, for the entries a value needs
NewValueFits(n, needed) == needed <= n.left + Cardinality(AtomicKeys(n))
NewValueFitsWithReplaced(n, k, size) == Diff(n, k, size) <= n.left + Cardinality(AtomicKeys(n))

\* What an algorithm works on: the status table, the cursor, the keys replaced (the
\* caller's list, to which it adds), and how many entries are still needed (0 ends it).
Choice(n, replaced, wanted) ==
    [status |-> n.status, pointer |-> n.pointer, replaced |-> replaced, wanted |-> wanted]

\* mutant: every line in use is given up
VisitInUse(c, i) ==
    IF c.wanted = 0 \/ c.status[i].st = "FREE" THEN c
    ELSE [c EXCEPT !.status[i].st = "USED", !.wanted = @ - 1,
                   !.replaced = Append(@, c.status[i].key)]

\* mutant: the line given up is not marked
VisitUnmarked(c, i) ==
    IF c.wanted = 0 \/ c.status[i].st # "ATOMIC" THEN c
    ELSE [c EXCEPT !.wanted = @ - 1, !.replaced = Append(@, c.status[i].key)]

\* a visited line is given up if it is atomic
Visit(c, i) ==
    IF c.wanted = 0 \/ c.status[i].st # "ATOMIC" THEN c
    ELSE [c EXCEPT !.status[i].st = "USED", !.wanted = @ - 1,
                   !.replaced = Append(@, c.status[i].key)]

\* the same for the cursor, which moves on as long as entries are needed
VisitAtPointer(c, i) ==
    IF c.wanted = 0 THEN c ELSE [Visit(c, i) EXCEPT !.pointer = @ + 1]

\* algorithm_circular over a list of lines, which answers how many it gave up,
\* or -1 if it had nothing to do
Circular(n, c, lines, needed) ==
    LET size  == Len(lines)
        start == IF c.pointer >= size THEN 0 ELSE c.pointer
        first == FoldLeft(VisitAtPointer,
                          [c EXCEPT !.pointer = start, !.wanted = needed - n.left],
                          SubSeq(lines, start + 1, size))
        again == FoldLeft(Visit, first, SubSeq(lines, 1, start)) IN
    IF needed > n.left /\ NewValueFits(n, needed)
    THEN [choice |-> again, total |-> Len(again.replaced) - Len(c.replaced)]
    ELSE [choice |-> c, total |-> -1]

\* Every order list_sort may leave the lines in, highest rank first: its comparisons do
\* not order equals.
Orders(rank) ==
    {o \in SetToSeqs(Line) : \A i, j \in DOMAIN o : i < j => rank[o[i]] >= rank[o[j]]}

Lru(n, replaced, needed) ==
    {FoldLeft(Visit, Choice(n, replaced, needed - n.left), o) :
        o \in Orders([i \in Line |-> n.status[i].last_referenced])}

\* algorithm_bsu: lines of one size, which are together in the sorted list, are chosen by
\* the cursor, over a list that is never emptied
Bsu(n, replaced, needed) ==
    LET step(order, acc, i) ==
            LET c == acc.choice
                alike == {j \in i .. TotalEntries :
                            c.status[order[j]].space_used = c.status[order[i]].space_used}
                same == acc.same \o SubSeq(order, i, Max(alike))
                round == Circular(n, c, same, c.wanted) IN
            IF c.wanted = 0 \/ c.status[order[i]].st # "ATOMIC" THEN acc
            ELSE IF Len(same) = 1 THEN [choice |-> Visit(c, order[i]), same |-> same]
            ELSE [choice |-> [round.choice EXCEPT !.wanted = c.wanted - round.total],
                  same |-> same] IN
    {FoldLeft(LAMBDA acc, i : step(o, acc, i),
              [choice |-> Choice(n, replaced, needed - n.left), same |-> <<>>],
              [i \in 1 .. TotalEntries |-> i]).choice :
        o \in Orders([i \in Line |-> n.status[i].space_used])}

\* algorithms_exec: the choices that count as a success; circular fails if it
\* replaced nothing, and a -1 is a success
AlgorithmsExec(n, replaced, needed) ==
    LET circular == Circular(n, Choice(n, replaced, 0), [i \in 1 .. TotalEntries |-> i - 1], needed) IN
    IF algorithm = "C" THEN (IF circular.total = 0 THEN {} ELSE {circular.choice})
    ELSE IF ~NewValueFits(n, needed) THEN {Choice(n, replaced, 0)}
    ELSE IF algorithm = "L" THEN Lru(n, replaced, needed) ELSE Bsu(n, replaced, needed)

-----------------------------------------------------------------------------
(* dumper.c *)

\* dumper_remove_key_value: a key with no descriptor closes descriptor 0
RemoveKeyValue(n, k) ==
    LET f == IF n.fd[k] = None THEN 0 ELSE n.fd[k] IN
    [n EXCEPT !.opened = [g \in Fd |-> IF g = f THEN None
                                       ELSE IF @[g] = k THEN "unlinked" ELSE @[g]],
              !.fd[k] = None, !.disk[k] = None]

\* dumper_create_key_value: open() returns the lowest number that is free
CreateKeyValue(n, k) ==
    LET f == Minimum({g \in Fd : n.opened[g] = None}) IN
    [n EXCEPT !.fd[k] = f, !.opened[f] = k]

Crash(n) == [n EXCEPT !.up = FALSE]

\* dumper_store of the value in the storage: ftruncate and mmap of a descriptor that is
\* not an open file fail, unchecked, and the copy ends the process
StoreKeyValue(n, k) ==
    LET m == IF n.fd[k] = None THEN CreateKeyValue(n, k) ELSE n
        file == m.opened[m.fd[k]] IN
    IF file \in {None, "stdin"} THEN Crash(m)
    ELSE IF file = "unlinked" THEN m
    ELSE [m EXCEPT !.disk[file] = n.data[n.table[k].number].value]

-----------------------------------------------------------------------------
(* storage.c, compactation.c, instance_set *)

Parts(value) == [j \in 0 .. ReqEntries(value.size) - 1 |-> [value |-> value, part |-> j]]

\* storage_retrieve, and storage_set when the value does not reach past the end
Retrieve(n, k) == [j \in 0 .. Used(n, k) - 1 |-> n.data[n.table[k].number + j]]
StorageSet(n, p, parts) ==
    [n EXCEPT !.data = [i \in Line |-> IF i - p \in DOMAIN parts THEN parts[i - p] ELSE @[i]]]

\* mutant: the value is written only if the key moves to the start
CompactKeyForgetting(n, k) ==
    LET size == n.table[k].size
        m == StatusDelete(Delete(n, k), k, size)
        p == NextEntry(m, k, size) IN
    StatusAdd(Insert(m, k, size, p), k, size, p)

\* one round of compactation_compact; the keys before k leave no hole, so that it
\* moves to the end of the one before it
CompactKey(n, k) ==
    LET size == n.table[k].size
        m == StatusDelete(Delete(n, k), k, size)
        p == NextEntry(m, k, size) IN
    StorageSet(StatusAdd(Insert(m, k, size, p), k, size, p), p, Retrieve(n, k))

ByNumber(n) ==
    CHOOSE s \in SetToSeqs(Stored(n)) :
        \A i, j \in DOMAIN s : i < j => n.table[s[i]].number < n.table[s[j]].number

Compact(n) == FoldLeft(CompactKey, n, ByNumber(n))

\* instance_set after the replacement
SetInRoom(n, k, value) ==
    LET size == value.size
        p == NextEntry(n, k, size) IN
    IF ~HasContinousEntries(n, k, size)
    THEN [node |-> IF k \in Stored(n) THEN StatusDelete(Delete(n, k), k, size) ELSE n,
          status |-> "COMPACT"]
    ELSE IF p < 0 \/ p + ReqEntries(size) > TotalEntries
    THEN [node |-> n, status |-> "ERROR"]
    ELSE [node |-> StatusAdd(Insert(StorageSet(n, p, Parts(value)), k, size, p), k, size, p),
          status |-> "OK"]

\* the keys chosen leave the entry table and the disk
Replace(n, choice) ==
    LET deleted == FoldLeft(Delete, n, choice.replaced) IN
    FoldLeft(RemoveKeyValue,
             [deleted EXCEPT !.status = choice.status, !.pointer = choice.pointer],
             choice.replaced)

\* every result of instance_set, which replaces again what the caller's list names
InstanceSet(n, k, value, replaced) ==
    LET choices == AlgorithmsExec(n, replaced, ReqEntries(value.size))
        with(list, result) == [node |-> result.node, status |-> result.status,
                               replaced |-> list] IN
    IF ~NewValueFitsWithReplaced(n, k, value.size)
    THEN {[node |-> n, status |-> "NO_SPACE", replaced |-> replaced]}
    ELSE IF Diff(n, k, value.size) <= n.left
    THEN {with(replaced, SetInRoom(n, k, value))}
    ELSE IF choices = {} THEN {[node |-> n, status |-> "ERROR", replaced |-> replaced]}
    ELSE {with(c.replaced, SetInRoom(Replace(n, c), k, value)) : c \in choices}

-----------------------------------------------------------------------------
(* instance_thread_api *)

Serving == node.up /\ request = None

Reply(k, size, status) ==
    /\ answer' = [key |-> k, size |-> size, status |-> status]
    /\ known' = IF status \in {"OK", "COMPACT"} THEN known \cup {k} ELSE known \ {k}

\* PROTOCOL_CI_SET of a key that the coordinator believes to be here, or of a new one
Set(k, size) ==
    /\ Serving /\ requests < MaxRequests
    /\ requests' = requests + 1
    /\ \/ /\ k \in known /\ k \notin Stored(node)
          /\ Reply(k, size, "REPLACED")
          /\ UNCHANGED <<node, request>>
       \/ /\ k \notin known \/ k \in Stored(node)
          /\ \E r \in InstanceSet(node, k, [of |-> k, size |-> size], <<>>) :
              /\ Reply(k, size, r.status)
              /\ node' = IF r.status \in {"OK", "COMPACT"} THEN r.node ELSE Crash(r.node)
              /\ request' = IF r.status = "COMPACT"
                            THEN [key |-> k, size |-> size, replaced |-> r.replaced]
                            ELSE None
    /\ UNCHANGED <<algorithm, kills>>

\* mutant: the value is not set again
CompactOnly ==
    /\ node.up /\ request # None
    /\ node' = Compact(node)
    /\ request' = None
    /\ UNCHANGED <<algorithm, answer, known, requests, kills>>

\* after the answer COMPACT: compact and set again, with the list of the first attempt
\* and whatever comes of it
CompactAndSet ==
    /\ node.up /\ request # None
    /\ \E r \in InstanceSet(Compact(node), request.key,
                            [of |-> request.key, size |-> request.size],
                            request.replaced) : node' = r.node
    /\ request' = None
    /\ UNCHANGED <<algorithm, answer, known, requests, kills>>

\* PROTOCOL_CI_COMPACT, because another node compacts
CompactRequested ==
    /\ Serving /\ requests < MaxRequests
    /\ requests' = requests + 1
    /\ node' = Compact(node)
    /\ UNCHANGED <<algorithm, request, answer, known, kills>>

\* PROTOCOL_CI_STORE
Store(k) ==
    /\ Persist /\ Serving /\ k \in known
    /\ node' = IF k \in Stored(node) THEN StoreKeyValue(node, k) ELSE node
    /\ known' = IF k \in Stored(node) THEN known ELSE known \ {k}
    /\ UNCHANGED <<algorithm, request, answer, requests, kills>>

-----------------------------------------------------------------------------
(* The dump thread, the signals and the start *)

Dump ==
    /\ Persist /\ node.up
    /\ node' = FoldLeft(LAMBDA n, k : IF n.up THEN StoreKeyValue(n, k) ELSE n,
                        node, ByNumber(node))
    /\ UNCHANGED <<algorithm, request, answer, known, requests, kills>>

Kill ==
    /\ node.up /\ kills < MaxKills
    /\ kills' = kills + 1
    /\ node' = Crash(node)
    /\ UNCHANGED <<algorithm, request, answer, known, requests>>

\* A SET or a STORE of a key of this node while it is gone: the coordinator drops the key
\* and, for a SET, gives it to another node.
Elsewhere(k) ==
    /\ ~node.up /\ k \in known
    /\ known' = known \ {k}
    /\ UNCHANGED <<algorithm, node, request, answer, requests, kills>>

\* instance_recover: the files of the coordinator's keys are opened and read, and set
\* one after another with one list of replaced keys, whatever instance_set answers
Recover(keys) ==
    LET opened == FoldLeft(CreateKeyValue, Empty(node.disk), keys)
        setAll(results, k) ==
            UNION {InstanceSet(r.node, k, node.disk[k], r.replaced) : r \in results} IN
    {r.node : r \in FoldLeft(setAll, {[node |-> opened, replaced |-> <<>>]}, keys)}

Restart ==
    /\ ~node.up
    /\ \E keys \in SetToSeqs({k \in known : node.disk[k] # None}) : node' \in Recover(keys)
    /\ request' = None /\ answer' = None
    /\ UNCHANGED <<algorithm, known, requests, kills>>

-----------------------------------------------------------------------------

Next ==
    \/ \E k \in Key : \E size \in SizesOf[k] : Set(k, size)
    \/ CompactAndSet \/ CompactRequested
    \/ \E k \in Key : Store(k) \/ Elsewhere(k)
    \/ Dump \/ Kill \/ Restart

Spec == Init /\ [][Next]_vars

-----------------------------------------------------------------------------
(* Properties *)

\* entry_table_next_entry never lets two keys share an entry, nor a key reach past the
\* end, although a value grows in place, moves, and the table is packed under it.
EntriesDisjoint ==
    /\ \A k \in Stored(node) : EndOf(node, k) <= TotalEntries
    /\ \A k, l \in Stored(node) : k # l =>
           EndOf(node, k) <= node.table[l].number \/ EndOf(node, l) <= node.table[k].number

\* entries_left, which every decision to replace is taken by, is the number of entries
\* that no key occupies, however keys were resized, replaced, moved and recovered.
EntriesCounted ==
    node.left = Cardinality({i \in Line : \A k \in Stored(node) :
                                i \notin node.table[k].number .. EndOf(node, k) - 1})

\* What the storage holds where the table says a key is, is one whole value of the size
\* the table says: no later SET, move or compaction wrote over part of it.
ValuesIntact ==
    \A k \in Stored(node) :
        \E v \in Value : v.size = node.table[k].size /\
            \A i \in 0 .. Used(node, k) - 1 :
                node.data[node.table[k].number + i] = [value |-> v, part |-> i]

\* Compaction (compactation_compact, ordered by the coordinator) keeps every key and
\* leaves the free entries behind the last one.
CompactionPacks ==
    [][CompactRequested =>
        /\ Stored(node') = Stored(node)
        /\ \A i \in Line : i < TotalEntries - node'.left =>
               \E k \in Stored(node') : i \in node'.table[k].number .. EndOf(node', k) - 1]_vars

\* A SET that was answered OK or COMPACT, on which the script of the ESI goes on, is in
\* the table with its size when the node waits for the next request.
AcknowledgedSet ==
    Serving /\ answer # None /\ answer.status \in {"OK", "COMPACT"} =>
        node.table[answer.key] # None /\ node.table[answer.key].size = answer.size

\* The same under the algorithms that replace whenever they are asked to (circular and LRU),
\* where the values of a key need one number of entries: COMPACT is answered only if the
\* second attempt, whose result nobody reads, will have the room it needs.
AcknowledgedUnlessBsu == algorithm # "B" => AcknowledgedSet

\* A SET that was answered OK, and not COMPACT, is: no later compaction, dump or failed
\* STORE takes it away while the node runs.
AcknowledgedOk ==
    node.up /\ answer # None /\ answer.status = "OK" =>
        node.table[answer.key] # None /\ node.table[answer.key].size = answer.size

\* The second attempt, whose result nobody reads, succeeds if the entries the value needs
\* were free when COMPACT was answered (instance_thread_api, STATUS_COMPACT).
EnoughForCompacted ==
    [][CompactAndSet /\ ReqEntries(request.size) <= node.left =>
        /\ node'.table[request.key] # None
        /\ node'.table[request.key].size = request.size]_vars

\* The status table, on which the algorithms work, says ATOMIC only of a line where the
\* entry table has an atomic key, so that replacing the key frees that line.
StatusAgrees ==
    node.up => \A i \in Line : node.status[i].st = "ATOMIC" =>
        LET k == node.status[i].key IN
        k \in AtomicKeys(node) /\ node.table[k].number = i

\* A key that leaves the table while the node runs was atomic, unless it is the one that
\* waits for the compaction (algorithms.c replaces lines with status ATOMIC).
OnlyAtomicReplaced ==
    [][\A k \in Stored(node) : k \notin Stored(node') /\ node'.up /\ node.up =>
          node.table[k].size <= EntrySize \/ request' # None]_vars

\* A file of the mount point holds a value of the key it is named for, so that a restart
\* recovers the keys' own values (dumper_store, dumper_remove_key_value).
FilesOwn == \A k \in Key : node.disk[k] # None => node.disk[k].of = k
=============================================================================
