----------------------------- MODULE Coordinador -----------------------------
(***************************************************************************)
(* The coordinator (coordinador/) and the storage nodes as it sees them:   *)
(* one thread per connection, the list of instances with a queue of        *)
(* requests each, the key table, the distribution of keys.  Instances      *)
(* die, come back under their name, and fail requests, which are then      *)
(* dispatched to another one.                                              *)
(*                                                                         *)
(* The scheduler orders one sentence at a time, and no ESI is cut while    *)
(* its sentence is in flight.  What an instance does inside, and what is   *)
(* asked of the scheduler, are the subjects of Instancia and               *)
(* SchedulerLink.                                                          *)
(***************************************************************************)
EXTENDS Integers, Sequences, FiniteSets, SequencesExt, TLC

CONSTANTS
    Name,           \* names of instances
    Process,        \* instance processes that may be started
    NameOf,         \* the name in the configuration of each process
    Key, Esi,
    Letter,         \* the first letter of each key, 'a' being 0
    Distributions,  \* one of which the configuration names
    Failures,       \* what may go wrong: see SetServed, Confirm and Kill
    MaxSocket,      \* bound: connections of instances open at once
    MaxKills,       \* bound: processes killed, or ended for lack of space
    DISCONNECTED,
    None

ASSUME ConstantsAssumption ==
    /\ NameOf \in [Process -> Name]
    /\ Letter \in [Key -> 0 .. 25]
    /\ Distributions \subseteq {"EL", "LSU", "KE"}
    /\ Failures \subseteq {"compact", "replace", "space", "confirm"}
    /\ MaxSocket \in Nat \ {0} /\ MaxKills \in Nat
    /\ DISCONNECTED \notin Nat /\ None \notin Nat \cup Name \cup Process

Socket == 1 .. MaxSocket

VARIABLES
    distribution,  \* setup.distribution
    list,      \* instance_list->elements
    fd,        \* instance->fd
    requests,  \* instance->requests
    table,     \* key_table, None where a key is not in it
    thread,    \* the threads of the open connections of instances
    process,   \* the instance processes
    disk,      \* the files of the mount point of each name
    esi,       \* the threads of the ESIs
    owner,     \* whom the scheduler has given each key
    kills

vars == <<distribution, list, fd, requests, table, thread, process, disk, esi, owner, kills>>
-----------------------------------------------------------------------------

Request == [esi : Esi, op : {"SET", "STORE"}, key : Key, excluded : SUBSET Name]

Thread ==
    [process : Process,                          \* who connected
     pc : {"add", "test", "confirm", "pop", "serve", "wait", "failed",
           "redispatch", "push", "compact", "check"},
     request : Request \cup {None},
     target : Name \cup {None},                  \* what dispatch answered
     error : BOOLEAN]                            \* the request ends the thread

TypeOK ==
    /\ distribution \in Distributions
    /\ list \in Seq(Name) /\ IsInjective(list)
    /\ fd \in [Name -> Socket \cup {DISCONNECTED}]
    /\ requests \in [Name -> Seq(Request)]
    /\ table \in [Key -> [instance : Name \cup {None}, initialized : BOOLEAN] \cup {None}]
    /\ thread \in [Socket -> Thread \cup {None}]
    /\ process \in [Process -> [socket : Socket \cup {None},   \* None if it does not run
                                config : {"no", "yes", "garbled"},
                                keys : SUBSET Key]]            \* in its memory
    /\ disk \in [Name -> SUBSET Key]
    /\ esi \in [Esi -> [pc : {"idle", "push", "waiting"},
                        request : Request \cup {None}, target : Name \cup {None}]]
    /\ owner \in [Key -> Esi \cup {None}]
    /\ kills \in 0 .. MaxKills

ASSUME NoneAssumption ==
    /\ None \notin Thread /\ None \notin Request
    /\ None \notin [instance : Name \cup {None}, initialized : BOOLEAN]

Idle == [pc |-> "idle", request |-> None, target |-> None]

Init ==
    /\ distribution \in Distributions
    /\ list = <<>>
    /\ fd = [n \in Name |-> DISCONNECTED]
    /\ requests = [n \in Name |-> <<>>]
    /\ table = [k \in Key |-> None]
    /\ thread = [s \in Socket |-> None]
    /\ process = [p \in Process |->
                     [socket |-> None, config |-> "no", keys |-> {}]]
    /\ disk = [n \in Name |-> {}]
    /\ esi = [e \in Esi |-> Idle]
    /\ owner = [k \in Key |-> None]
    /\ kills = 0

-----------------------------------------------------------------------------
(* Threads, sockets and locks *)

InstanceOf(s) == NameOf[thread[s].process]

\* the running process that what is sent on socket s reaches
Peer(s) ==
    IF s = DISCONNECTED THEN None
    ELSE IF thread[s] = None THEN None
    ELSE IF process[thread[s].process].socket = s THEN thread[s].process
    ELSE None

At(s, pc) == thread[s] # None /\ thread[s].pc = pc

\* instance_list->lock is held for more than one step only by a thread that tests
\* a connection; instance->lock also by one that waits for an answer
ListLocked == \E s \in Socket : At(s, "test")
Locked(n) == \E s \in Socket : (At(s, "test") \/ At(s, "wait")) /\ InstanceOf(s) = n

Goto(s, pc) == thread' = [thread EXCEPT ![s].pc = pc]

\* the thread returns, and handle_connection closes its socket
Return(s) == thread' = [thread EXCEPT ![s] = None]

Stopped == [socket |-> None, config |-> "no", keys |-> {}]

\* the answers to an ESI; one whose sentence is illegal ends, which releases its keys
Success(e) == esi' = [esi EXCEPT ![e] = Idle]
Illegal(e) ==
    /\ esi' = [esi EXCEPT ![e] = Idle]
    /\ owner' = [k \in Key |-> IF owner[k] = e THEN None ELSE owner[k]]

-----------------------------------------------------------------------------
(* key-table.c *)

InstanceFor(k) == IF table[k] = None THEN None ELSE table[k].instance
IsNew(k) == table[k] # None /\ ~table[k].initialized
Removed(k) == [table EXCEPT ![k] = None]
Created(t, k, n) ==
    [t EXCEPT ![k] = IF t[k] = None THEN [instance |-> n, initialized |-> FALSE]
                     ELSE IF n = None THEN @ ELSE [@ EXCEPT !.instance = n]]
SetInitialized(k) == [table EXCEPT ![k] = IF @ = None THEN @ ELSE [@ EXCEPT !.initialized = TRUE]]
\* mutant: only the keys that have been set
InstanceKeyListSet(n) == {k \in Key : InstanceFor(k) = n /\ ~IsNew(k)}
InstanceKeyList(n) == {k \in Key : InstanceFor(k) = n}

-----------------------------------------------------------------------------
(* distribution.c, over the connected instances that are not excluded.  The     *)
(* list is sorted anew whenever LSU reads it, by entries used, which may order  *)
(* it in any way.                                                               *)

Available(excluded) ==
    {n \in ToSet(list) : n \notin excluded /\ fd[n] # DISCONNECTED}

Candidates(k, excluded) ==
    LET available == Available(excluded)
        before(n) == {i \in DOMAIN list :
                         list[i] \in available /\ \E j \in DOMAIN list : list[j] = n /\ i < j}
    IN {n \in available :
            CASE distribution = "EL" -> before(n) = {}
              [] distribution = "LSU" -> TRUE
              [] distribution = "KE" ->
                     Cardinality(before(n)) = (Letter[k] * Cardinality(available)) \div 26}

\* the one chosen goes to the end of the list
Rotated(n) == IF distribution = "EL" THEN Append(RemoveFirst(list, n), n) ELSE list

\* mutant: the excluded instances are not looked at
DispatchToAny(k, excluded, n) ==
    IF n \in Candidates(k, {})
    THEN list' = Rotated(n) /\ table' = Created(table, k, n)
    ELSE n = None /\ UNCHANGED <<list, table>>
\* dispatch answers n
Dispatch(k, excluded, n) ==
    IF InstanceFor(k) # None /\ fd[InstanceFor(k)] # DISCONNECTED
    THEN n = InstanceFor(k) /\ UNCHANGED <<list, table>>
    ELSE LET known == IF InstanceFor(k) = None THEN table ELSE Removed(k) IN
         /\ ~ListLocked
         /\ IF n = None
            THEN Candidates(k, excluded) = {} /\ table' = known /\ UNCHANGED list
            ELSE /\ n \in Candidates(k, excluded)
                 /\ list' = Rotated(n)
                 /\ table' = Created(known, k, n)

-----------------------------------------------------------------------------
(* handle_esi_operation *)

InFlight == \E e \in Esi : esi[e].pc # "idle"

\* GET of a free key
Get(e, k) ==
    /\ ~InFlight /\ owner[k] = None
    /\ owner' = [owner EXCEPT ![k] = e]
    /\ table' = Created(table, k, None)
    /\ UNCHANGED <<distribution, list, fd, requests, thread, process, esi, disk, kills>>

\* a SET or STORE that the scheduler allows, dispatched to n
Sentence(e, op, k, n) ==
    /\ ~InFlight /\ owner[k] = e
    /\ Dispatch(k, {}, n)
    /\ IF n = None THEN Illegal(e)
       ELSE /\ esi' = [esi EXCEPT ![e] =
                   [pc |-> "push", target |-> n,
                    request |-> [esi |-> e, op |-> op, key |-> k, excluded |-> {}]]]
            /\ UNCHANGED owner
    /\ UNCHANGED <<distribution, fd, requests, thread, process, disk, kills>>

PushSentence(e) ==
    /\ esi[e].pc = "push"
    /\ requests' = [requests EXCEPT ![esi[e].target] = Append(@, esi[e].request)]
    /\ esi' = [esi EXCEPT ![e] = [Idle EXCEPT !.pc = "waiting"]]
    /\ UNCHANGED <<distribution, list, fd, table, thread, process, owner, disk, kills>>

-----------------------------------------------------------------------------
(* Instances come and go *)

\* a process starts, connects and sends its name; accept gives the lowest number
Connect(p) ==
    /\ process[p].socket = None
    /\ \E s \in Socket :
       /\ thread[s] = None /\ \A t \in 1 .. s - 1 : thread[t] # None
       /\ thread' = [thread EXCEPT ![s] = [process |-> p, pc |-> "add", request |-> None,
                                           target |-> None, error |-> FALSE]]
       /\ process' = [process EXCEPT ![p].socket = s]
    /\ UNCHANGED <<distribution, list, fd, requests, table, esi, owner, disk, kills>>

Kill(p) ==
    /\ process[p].socket # None /\ kills < MaxKills
    /\ process' = [process EXCEPT ![p] = Stopped]
    /\ kills' = kills + 1
    /\ UNCHANGED <<distribution, list, fd, requests, table, thread, disk, esi, owner>>

\* the coordinator has closed its connection
EndOfFile(p) ==
    /\ process[p].socket # None /\ Peer(process[p].socket) # p
    /\ process' = [process EXCEPT ![p] = Stopped]
    /\ UNCHANGED <<distribution, list, fd, requests, table, thread, disk, esi, owner, kills>>

\* the instance replaces the key to make room for others, which need not be in Key
Replace(p, k) ==
    /\ "replace" \in Failures /\ k \in process[p].keys
    /\ process' = [process EXCEPT ![p].keys = @ \ {k}]
    /\ disk' = [disk EXCEPT ![NameOf[p]] = @ \ {k}]
    /\ UNCHANGED <<distribution, list, fd, requests, table, thread, esi, owner, kills>>

\* mutant: the name is not looked for in the list
AddTwice(s) ==
    /\ At(s, "add") /\ ~ListLocked
    /\ list' = <<InstanceOf(s)>> \o list
    /\ fd' = [fd EXCEPT ![InstanceOf(s)] = s]
    /\ Goto(s, "confirm")
    /\ UNCHANGED <<distribution, requests, table, process, esi, owner, disk, kills>>
\* instance_list_add: a new name, one that is disconnected, or one whose process
\* does not answer IS_ALIVE
Add(s) ==
    /\ At(s, "add") /\ ~ListLocked
    /\ LET n == InstanceOf(s) IN
       /\ \/ n \notin ToSet(list)
          \/ fd[n] = DISCONNECTED
          \/ ~Locked(n) /\ Peer(fd[n]) = None
       /\ list' = IF n \in ToSet(list) THEN list ELSE <<n>> \o list
       /\ fd' = [fd EXCEPT ![n] = s]
       /\ Goto(s, "confirm")
    /\ UNCHANGED <<distribution, requests, table, process, esi, owner, disk, kills>>

\* its process answers: the name is taken
Refuse(s) ==
    /\ At(s, "add") /\ ~ListLocked
    /\ LET n == InstanceOf(s) IN
       /\ n \in ToSet(list) /\ ~Locked(n) /\ Peer(fd[n]) # None
       /\ process[Peer(fd[n])].config = "yes"
    /\ Return(s)
    /\ UNCHANGED <<distribution, list, fd, requests, table, process, disk, esi, owner, kills>>

\* a process that waits for its configuration takes IS_ALIVE for a part of it and
\* does not answer, with both locks held
Test(s) ==
    /\ At(s, "add") /\ ~ListLocked
    /\ LET n == InstanceOf(s) IN
       /\ n \in ToSet(list) /\ ~Locked(n) /\ Peer(fd[n]) # None
       /\ process[Peer(fd[n])].config # "yes"
       /\ process' = [process EXCEPT ![Peer(fd[n])].config = "garbled"]
    /\ Goto(s, "test")
    /\ UNCHANGED <<distribution, list, fd, requests, table, esi, owner, disk, kills>>

\* until it dies
TestFails(s) ==
    /\ At(s, "test") /\ Peer(fd[InstanceOf(s)]) = None
    /\ fd' = [fd EXCEPT ![InstanceOf(s)] = s]
    /\ Goto(s, "confirm")
    /\ UNCHANGED <<distribution, list, requests, table, process, esi, owner, disk, kills>>

\* the configuration, and the keys that the process recovers from its files; a
\* process that has one takes the second for a request and ends
Configured(p, n) ==
    CASE process[p].config = "no" ->
             [process[p] EXCEPT !.config = "yes", !.keys = InstanceKeyList(n) \cap disk[NameOf[p]]]
      [] process[p].config = "yes" -> Stopped
      [] process[p].config = "garbled" -> process[p]

\* instance_send_confirmation goes to instance->fd, whose it may be
Confirm(s) ==
    /\ At(s, "confirm") /\ ~Locked(InstanceOf(s))
    /\ LET n == InstanceOf(s)
           p == Peer(fd[n]) IN
       process' = IF p = None THEN process ELSE [process EXCEPT ![p] = Configured(p, n)]
    /\ Goto(s, "pop")
    /\ UNCHANGED <<distribution, list, fd, requests, table, esi, owner, disk, kills>>

\* the process is gone, the sending fails, and the thread returns
ConfirmFails(s) ==
    /\ "confirm" \in Failures
    /\ At(s, "confirm") /\ ~Locked(InstanceOf(s)) /\ Peer(fd[InstanceOf(s)]) = None
    /\ Return(s)
    /\ UNCHANGED <<distribution, list, fd, requests, table, process, esi, owner, disk, kills>>

-----------------------------------------------------------------------------
(* handle_instance_connection: its loop *)

\* mutant: the request is dropped by a thread whose socket was replaced
PopDropping(s) ==
    /\ At(s, "pop") /\ requests[InstanceOf(s)] # <<>>
    /\ LET n == InstanceOf(s)
           r == Head(requests[n]) IN
       /\ requests' = [requests EXCEPT ![n] = Tail(@)]
       /\ IF fd[n] = s THEN thread' = [thread EXCEPT ![s].pc = "serve", ![s].request = r]
          ELSE Return(s)
    /\ UNCHANGED <<distribution, list, fd, table, process, esi, owner, disk, kills>>
\* a thread whose socket was replaced puts the request back and returns
Pop(s) ==
    /\ At(s, "pop") /\ requests[InstanceOf(s)] # <<>>
    /\ LET n == InstanceOf(s)
           r == Head(requests[n]) IN
       IF fd[n] = s
       THEN /\ requests' = [requests EXCEPT ![n] = Tail(@)]
            /\ thread' = [thread EXCEPT ![s].pc = "serve", ![s].request = r]
       ELSE /\ requests' = [requests EXCEPT ![n] = Append(Tail(@), r)]
            /\ Return(s)
    /\ UNCHANGED <<distribution, list, fd, table, process, esi, owner, disk, kills>>

\* the request is over; only an error needs to be looked at
Over(s) ==
    thread' = [thread EXCEPT ![s] = [@ EXCEPT !.pc = IF thread[s].error THEN "check" ELSE "pop",
                                              !.request = None, !.target = None]]

\* what is sent to instance->fd reaches nobody, a process that answers, or one
\* that does not
Unreachable(s) == Peer(fd[InstanceOf(s)]) = None
Answers(s) == ~Unreachable(s) /\ process[Peer(fd[InstanceOf(s)])].config = "yes"

\* the request takes the lock of the instance, and is sent
Sends(s) ==
    /\ At(s, "serve") /\ ~Locked(InstanceOf(s))
    /\ ~(thread[s].request.op = "STORE" /\ IsNew(thread[s].request.key))
Answered(s, op) == Sends(s) /\ Answers(s) /\ thread[s].request.op = op

NoAnswer(s) ==
    /\ Sends(s) /\ ~Unreachable(s) /\ ~Answers(s)
    /\ process' = [process EXCEPT ![Peer(fd[InstanceOf(s)])].config = "garbled"]
    /\ Goto(s, "wait")
    /\ UNCHANGED <<distribution, list, fd, requests, table, esi, owner, disk, kills>>

\* sending or receiving fails
Fails(s) ==
    /\ \/ Sends(s)
       \/ At(s, "wait")
    /\ Unreachable(s)
    /\ thread' = [thread EXCEPT ![s].pc = "failed", ![s].error = TRUE]
    /\ UNCHANGED <<distribution, list, fd, requests, table, process, esi, owner, disk, kills>>

\* the instance has the value, and writes it to its file at the next dump: that one
\* that dies before has none is covered by Replace
SetDone(s) ==
    LET p == Peer(fd[InstanceOf(s)])
        k == thread[s].request.key IN
    /\ process' = [process EXCEPT ![p].keys = @ \cup {k}]
    /\ disk' = [disk EXCEPT ![NameOf[p]] = @ \cup {k}]

SetServed(s) ==
    /\ Answered(s, "SET")
    /\ LET p == Peer(fd[InstanceOf(s)])
           k == thread[s].request.key
           e == thread[s].request.esi
           reached == IsNew(k) \/ k \in process[p].keys IN
       \/ /\ ~reached
          /\ Illegal(e) /\ table' = Removed(k) /\ Over(s)
          /\ UNCHANGED <<process, disk, kills>>
       \/ /\ reached
          /\ SetDone(s)
          /\ Success(e) /\ table' = SetInitialized(k) /\ Over(s)
          /\ UNCHANGED <<owner, kills>>
       \/ /\ reached /\ "compact" \in Failures
          /\ SetDone(s)
          /\ Goto(s, "compact")
          /\ UNCHANGED <<table, esi, owner, kills>>
       \/ /\ reached /\ "space" \in Failures /\ kills < MaxKills
          /\ process' = [process EXCEPT ![p] = Stopped]
          /\ kills' = kills + 1
          /\ Goto(s, "failed")
          /\ UNCHANGED <<table, disk, esi, owner>>
    /\ UNCHANGED <<distribution, list, fd, requests>>

\* instance_send_compact: the other connected instances compact, too; one that has
\* no configuration takes it for a part of that
Compact(s) ==
    /\ At(s, "compact")
    /\ LET connected == {n \in ToSet(list) : fd[n] # DISCONNECTED} IN
       /\ \A n \in connected : ~Locked(n)
       /\ process' = [p \in Process |->
              IF process[p].config = "no" /\ \E n \in connected \ {InstanceOf(s)} : Peer(fd[n]) = p
              THEN [process[p] EXCEPT !.config = "garbled"] ELSE process[p]]
    /\ table' = SetInitialized(thread[s].request.key)
    /\ Success(thread[s].request.esi)
    /\ Over(s)
    /\ UNCHANGED <<distribution, list, fd, requests, owner, disk, kills>>

\* a SET that failed: the key is forgotten, and another instance looked for
SetFailed(s) ==
    /\ At(s, "failed") /\ thread[s].request.op = "SET"
    /\ table' = Removed(thread[s].request.key)
    /\ thread' = [thread EXCEPT ![s].pc = "redispatch",
                                ![s].request.excluded = @ \cup {InstanceOf(s)}]
    /\ UNCHANGED <<distribution, list, fd, requests, process, esi, owner, disk, kills>>

DispatchFailedSet(s, n) ==
    /\ At(s, "redispatch")
    /\ Dispatch(thread[s].request.key, thread[s].request.excluded, n)
    /\ IF n = None
       THEN Illegal(thread[s].request.esi) /\ Over(s)
       ELSE /\ thread' = [thread EXCEPT ![s].pc = "push", ![s].target = n]
            /\ UNCHANGED <<esi, owner>>
    /\ UNCHANGED <<distribution, fd, requests, process, disk, kills>>

PushFailedSet(s) ==
    /\ At(s, "push")
    /\ requests' = [requests EXCEPT ![thread[s].target] = Append(@, thread[s].request)]
    /\ Over(s)
    /\ UNCHANGED <<distribution, list, fd, table, process, esi, owner, disk, kills>>

\* a STORE of a key without a value, or of one that the instance does not have
StoreRefused(s) ==
    /\ \/ At(s, "serve") /\ thread[s].request.op = "STORE" /\ IsNew(thread[s].request.key)
       \/ /\ Answered(s, "STORE")
          /\ thread[s].request.key \notin process[Peer(fd[InstanceOf(s)])].keys
    /\ table' = Removed(thread[s].request.key)
    /\ Illegal(thread[s].request.esi)
    /\ Over(s)
    /\ UNCHANGED <<distribution, list, fd, requests, process, disk, kills>>

\* the value is written to its file, and the scheduler unblocks the key
StoreServed(s) ==
    /\ Answered(s, "STORE")
    /\ LET p == Peer(fd[InstanceOf(s)])
           k == thread[s].request.key IN
       /\ k \in process[p].keys
       /\ disk' = [disk EXCEPT ![NameOf[p]] = @ \cup {k}]
       /\ owner' = [owner EXCEPT ![k] = None]
    /\ Success(thread[s].request.esi)
    /\ Over(s)
    /\ UNCHANGED <<distribution, list, fd, requests, table, process, kills>>

StoreFailed(s) ==
    /\ At(s, "failed") /\ thread[s].request.op = "STORE"
    /\ table' = Removed(thread[s].request.key)
    /\ Illegal(thread[s].request.esi)
    /\ Over(s)
    /\ UNCHANGED <<distribution, list, fd, requests, process, disk, kills>>

\* mutant: the socket of the instance is not compared
CheckAlways(s) ==
    /\ At(s, "check") /\ ~ListLocked
    /\ fd' = [fd EXCEPT ![InstanceOf(s)] = DISCONNECTED]
    /\ Return(s)
    /\ UNCHANGED <<distribution, list, requests, table, process, esi, owner, disk, kills>>
\* mutant: nothing is done for the instance
CheckNothing(s) ==
    /\ At(s, "check") /\ ~ListLocked
    /\ Return(s)
    /\ UNCHANGED <<distribution, list, fd, requests, table, process, esi, owner, disk, kills>>
\* an instance that failed is disconnected, unless it is back
Check(s) ==
    /\ At(s, "check") /\ ~ListLocked
    /\ fd' = [fd EXCEPT ![InstanceOf(s)] = IF @ = s THEN DISCONNECTED ELSE @]
    /\ Return(s)
    /\ UNCHANGED <<distribution, list, requests, table, process, esi, owner, disk, kills>>

-----------------------------------------------------------------------------

\* what the thread of a connection may do, by where it is
InstanceStep(s) ==
    \/ At(s, "add") /\ (Add(s) \/ Refuse(s) \/ Test(s))
    \/ At(s, "test") /\ TestFails(s)
    \/ At(s, "confirm") /\ (Confirm(s) \/ ConfirmFails(s))
    \/ At(s, "pop") /\ Pop(s)
    \/ /\ At(s, "serve")
       /\ \/ NoAnswer(s) \/ Fails(s) \/ SetServed(s)
          \/ StoreRefused(s) \/ StoreServed(s)
    \/ At(s, "wait") /\ Fails(s)
    \/ At(s, "compact") /\ Compact(s)
    \/ At(s, "failed") /\ (SetFailed(s) \/ StoreFailed(s))
    \/ At(s, "redispatch") /\ \E n \in Name \cup {None} : DispatchFailedSet(s, n)
    \/ At(s, "push") /\ PushFailedSet(s)
    \/ At(s, "check") /\ Check(s)

Next ==
    \/ \E e \in Esi, k \in Key : Get(e, k)
    \/ \E e \in Esi, k \in Key, op \in {"SET", "STORE"}, n \in Name \cup {None} :
           Sentence(e, op, k, n)
    \/ \E e \in Esi : PushSentence(e)
    \/ \E s \in Socket : InstanceStep(s)
    \/ \E p \in Process : Connect(p) \/ EndOfFile(p) \/ Kill(p)
    \/ \E p \in Process, k \in Key : Replace(p, k)

Spec == Init /\ [][Next]_vars

\* the threads run on, and an instance that is down is started again
FairSpec ==
    /\ Spec
    /\ \A e \in Esi : WF_vars(PushSentence(e))
    /\ \A s \in Socket : WF_vars(InstanceStep(s))
    /\ \A p \in Process : WF_vars(Connect(p) \/ EndOfFile(p))

-----------------------------------------------------------------------------
(* Properties *)

\* Where the sentence of e is: in the queues, and with the threads of instances.
Places(e) ==
    {p \in UNION {{n} \X DOMAIN requests[n] : n \in Name} : requests[p[1]][p[2]].esi = e}
    \cup {<<s, 0>> : s \in {t \in Socket : thread[t] # None /\ thread[t].request # None
                                            /\ thread[t].request.esi = e}}

\* The sentence of an ESI that waits is in one place, and there is none of an ESI that
\* does not: no request is lost or doubled, so that each gets one answer
\* (instance-connection.c:77-81 and 174-188).
InOnePlace ==
    \A e \in Esi :
        IF esi[e].pc = "waiting" THEN \E p \in Places(e) : Places(e) = {p}
        ELSE Places(e) = {}

\* A SET is not dispatched to an instance that it failed on (instance-connection.c:176).
TriedOnce ==
    /\ \A n \in Name : \A i \in DOMAIN requests[n] : n \notin requests[n][i].excluded
    /\ \A s \in Socket : At(s, "serve") => InstanceOf(s) \notin thread[s].request.excluded

\* The socket number an instance has in the list is that of one of its own connections,
\* which has been through instance_list_add.
OwnSocket ==
    \A n \in Name : fd[n] # DISCONNECTED =>
        thread[fd[n]] # None /\ InstanceOf(fd[n]) = n /\ ~At(fd[n], "add")

\* It is not one that was closed or given to somebody else since, but for one hole: a
\* confirmation that cannot be sent ends the thread and leaves the number in the list
\* (instance-connection.c:68-72 against 93-97, coordinador.c:126).
LostByConfirmation ==
    [][OwnSocket /\ ~OwnSocket' => \E s \in Socket : ConfirmFails(s)]_vars

\* A key that the table says is initialised, and of which its instance has a file, is
\* in the memory of that instance once it is configured: no restart, nor a key that
\* moves between instances, leaves out one to recover (instance-connection.c:307-329,
\* key-table.c:95-118).
FilesAreRecovered ==
    \A k \in Key :
        OwnSocket /\ table[k] # None /\ table[k].initialized =>
            LET n == table[k].instance
                p == Peer(fd[n]) IN
            p # None /\ process[p].config = "yes" /\ k \in disk[n] => k \in process[p].keys

\* The connection of an instance that runs is neither replaced nor given up
\* (instance-list.c:90, instance-connection.c:94).
NotDisplaced ==
    [][\A n \in Name :
          fd[n] # DISCONNECTED /\ fd'[n] # fd[n] => Peer(fd[n]) = None]_vars

Garbled == \E p \in Process : process[p].config = "garbled"

\* Every sentence is answered, unless an instance is spoken to before it has its
\* configuration, or a confirmation failed (esi-connection.c:130-145).
SentenceAnswered ==
    \A e \in Esi : esi[e].pc # "idle" ~> esi[e].pc = "idle" \/ Garbled \/ ~OwnSocket
=============================================================================
