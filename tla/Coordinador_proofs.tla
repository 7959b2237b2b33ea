------------------------- MODULE Coordinador_proofs -------------------------
(***************************************************************************)
(* What holds of the coordinator for any instances, keys, ESIs,            *)
(* distributions and failures: the types of its tables, who may take an    *)
(* instance out of its list, and, while no confirmation fails, that an     *)
(* instance's socket number is the one of the thread that serves it.       *)
(* The invariant has two parts: Typed (the types, and that a thread that   *)
(* serves has the request it serves) and Connected (each instance's socket *)
(* number is that of the thread that gave it one).                         *)
(***************************************************************************)
EXTENDS Coordinador, ListFacts

-----------------------------------------------------------------------------
(* Types *)

\* A thread that serves has a request; a request to be queued has an instance to go to.
Serving == {"serve", "wait", "failed", "redispatch", "push", "compact"}

RequestsAtHand ==
    /\ \A s \in Socket : thread[s] # None /\ thread[s].pc \in Serving =>
           /\ thread[s].request \in Request
           /\ thread[s].pc = "push" => thread[s].target \in Name
    /\ \A e \in Esi : esi[e].pc = "push" => esi[e].request \in Request /\ esi[e].target \in Name

Typed == TypeOK /\ RequestsAtHand

\* At the start there is no instance, no thread and no request.
LEMMA TypeInit == Init => Typed
BY ConstantsAssumption DEF Init, Typed, TypeOK, RequestsAtHand, Idle, IsInjective

\* Changing a few fields of a thread.
LEMMA ThreadChanges ==
  ASSUME TypeOK, NEW s \in Socket, thread[s] # None
  PROVE  /\ thread[s] \in Thread /\ InstanceOf(s) \in Name
         /\ thread[s].process \in Process
BY ConstantsAssumption DEF TypeOK, Thread, InstanceOf

\* A step that puts a thread record, or none, at one socket keeps the type of thread.
LEMMA ThreadType ==
  ASSUME TypeOK, NEW s \in Socket, NEW t \in Thread \cup {None},
         thread' = [thread EXCEPT ![s] = t]
  PROVE  /\ thread' \in [Socket -> Thread \cup {None}]
         /\ thread'[s] = t
         /\ \A r \in Socket \ {s} : thread'[r] = thread[r]
BY DEF TypeOK

\* A thread that goes to another line keeps its type, and its request.
LEMMA GotoType ==
  ASSUME TypeOK, NEW s \in Socket, NEW from, At(s, from), NEW pc, Goto(s, pc),
         pc \in {"add", "test", "confirm", "pop", "serve", "wait", "failed",
           "redispatch", "push", "compact", "check"}
  PROVE  /\ thread' \in [Socket -> Thread \cup {None}]
         /\ \A r \in Socket \ {s} : thread'[r] = thread[r]
         /\ thread'[s] \in Thread
         /\ thread'[s].pc = pc
         /\ thread'[s].process = thread[s].process
         /\ thread'[s].request = thread[s].request
         /\ thread'[s].target = thread[s].target
         /\ thread'[s].error = thread[s].error
<1> DEFINE t == [thread[s] EXCEPT !.pc = pc]
<1>1. thread[s] \in Thread
  BY ThreadChanges DEF At
<1>2. /\ t \in Thread /\ t.pc = pc /\ t.process = thread[s].process
      /\ t.request = thread[s].request /\ t.target = thread[s].target
      /\ t.error = thread[s].error
  BY <1>1 DEF Thread
<1>3. thread' = [thread EXCEPT ![s] = t]
  BY DEF Goto
<1> HIDE DEF t
<1> QED BY <1>2, <1>3, ThreadType

\* A thread that returns leaves its socket without a thread.
LEMMA ReturnType ==
  ASSUME TypeOK, NEW s \in Socket, Return(s)
  PROVE  /\ thread' \in [Socket -> Thread \cup {None}]
         /\ \A r \in Socket \ {s} : thread'[r] = thread[r]
         /\ thread'[s] = None
BY DEF TypeOK, Return

\* A thread whose request is over keeps its type and goes back to its loop.
LEMMA OverType ==
  ASSUME TypeOK, NEW s \in Socket, thread[s] # None, Over(s)
  PROVE  /\ thread' \in [Socket -> Thread \cup {None}]
         /\ \A r \in Socket \ {s} : thread'[r] = thread[r]
         /\ thread'[s] \in Thread
         /\ thread'[s].pc \in {"check", "pop"}
         /\ thread'[s].pc = "check" => thread[s].error
         /\ thread'[s].process = thread[s].process
         /\ thread'[s].error = thread[s].error
         /\ thread'[s].request = None
<1> DEFINE t == [thread[s] EXCEPT !.pc = IF thread[s].error THEN "check" ELSE "pop",
                                  !.request = None, !.target = None]
<1>1. thread[s] \in Thread
  BY ThreadChanges
<1>2. /\ t \in Thread /\ t.pc \in {"check", "pop"} /\ t.process = thread[s].process
      /\ t.pc = "check" => thread[s].error
      /\ t.error = thread[s].error /\ t.request = None
  BY <1>1 DEF Thread
<1>3. thread' = [thread EXCEPT ![s] = t]
  BY DEF Over
<1> HIDE DEF t
<1> QED BY <1>2, <1>3, ThreadType

\* The key table's operations keep its type.
LEMMA TableTypes ==
  ASSUME TypeOK, NEW k \in Key
  PROVE  LET Row == [instance : Name \cup {None}, initialized : BOOLEAN] \cup {None} IN
         /\ Removed(k) \in [Key -> Row]
         /\ SetInitialized(k) \in [Key -> Row]
         /\ \A n \in Name \cup {None}, t \in [Key -> Row] : Created(t, k, n) \in [Key -> Row]
<1> DEFINE Row == [instance : Name \cup {None}, initialized : BOOLEAN] \cup {None}
<1>1. Removed(k) \in [Key -> Row]
  BY DEF TypeOK, Removed
<1>2. SetInitialized(k) \in [Key -> Row]
  BY ZenonT(60) DEF TypeOK, SetInitialized
<1>3. ASSUME NEW n \in Name \cup {None}, NEW t \in [Key -> Row]
      PROVE  Created(t, k, n) \in [Key -> Row]
  BY DEF Created
<1> QED BY <1>1, <1>2, <1>3

\* Moving an element of a list to its end, or putting one that is not in it there.
LEMMA MovedToEnd ==
  ASSUME NEW S, NEW l \in Seq(S), IsInjective(l), NEW n \in S
  PROVE  LET m == Append(RemoveFirst(l, n), n) IN
         m \in Seq(S) /\ IsInjective(m) /\ ToSet(l) \subseteq ToSet(m)
<1> DEFINE r == RemoveFirst(l, n)
           m == Append(r, n)
<1>0. Len(l) \in Nat /\ DOMAIN l = 1..Len(l)
  BY LenProperties
<1>1. /\ r \in Seq(S) /\ IsInjective(r)
      /\ \A i \in DOMAIN r : r[i] # n
      /\ \A x \in ToSet(l) : x # n => x \in ToSet(r)
  <2>1. CASE (\A i \in 1..Len(l) : l[i] # n) /\ r = l
    BY <1>0, <2>1
  <2>2. CASE \E i \in 1..Len(l) : l[i] = n /\ r = RemoveAt(l, i)
    <3>1. PICK i \in 1..Len(l) : l[i] = n /\ r = RemoveAt(l, i)
      BY <2>2
    <3>2. /\ r \in Seq(S) /\ Len(r) = Len(l) - 1
          /\ \A j \in 1..(Len(l)-1) : r[j] = IF j < i THEN l[j] ELSE l[j+1]
      BY <3>1, RemoveAtElements
    <3>3. DOMAIN r = 1..(Len(l)-1)
      BY <3>2, LenProperties
    <3> HIDE DEF r
    <3>4. \A j, k \in 1..Len(l) : l[j] = l[k] => j = k
      BY <1>0 DEF IsInjective
    <3>5. \A j \in 1..(Len(l)-1) : r[j] # n
      BY <1>0, <3>1, <3>2, <3>4
    <3>6. \A j, k \in 1..(Len(l)-1) : r[j] = r[k] => j = k
      BY <1>0, <3>1, <3>2, <3>4
    <3>7. ASSUME NEW j \in 1..Len(l), l[j] # n
          PROVE  \E k \in 1..(Len(l)-1) : r[k] = l[j]
      <4>1. CASE j < i
        BY <1>0, <3>2, <4>1
      <4>2. CASE ~(j < i)
        <5>1. j - 1 \in 1..(Len(l)-1) /\ r[j-1] = l[j]
          BY <1>0, <3>1, <3>2, <3>7, <4>2
        <5> QED BY <5>1
      <4> QED BY <4>1, <4>2
    <3>8. \A x \in ToSet(l) : x # n => x \in ToSet(r)
      BY <1>0, <3>3, <3>7 DEF ToSet
    <3> QED BY <3>2, <3>3, <3>5, <3>6, <3>8 DEF IsInjective
  <2> QED BY <2>1, <2>2, RemoveFirstTakes
<1> HIDE DEF r
<1>2. /\ m \in Seq(S) /\ Len(r) \in Nat /\ DOMAIN r = 1..Len(r)
      /\ DOMAIN m = 1..(Len(r)+1)
      /\ \A i \in 1..Len(r) : m[i] = r[i]
      /\ m[Len(r)+1] = n
  BY <1>1, AppendProperties, LenProperties
<1> HIDE DEF m
<1>3. IsInjective(m)
  BY <1>1, <1>2 DEF IsInjective
<1>4. ToSet(l) \subseteq ToSet(m)
  <2> SUFFICES ASSUME NEW x \in ToSet(l) PROVE x \in ToSet(m)
    OBVIOUS
  <2>1. CASE x = n
    BY <1>2, <2>1 DEF ToSet
  <2>2. CASE x # n
    <3>1. PICK i \in DOMAIN r : x = r[i]
      BY <1>1, <2>2 DEF ToSet
    <3>2. i \in DOMAIN m /\ m[i] = x
      BY <1>2, <3>1
    <3> QED BY <3>2 DEF ToSet
  <2> QED BY <2>1, <2>2
<1> QED BY <1>2, <1>3, <1>4 DEF m, r

\* The instance chosen goes to the end: the list keeps its members, each once.
LEMMA RotatedType ==
  ASSUME TypeOK, NEW n \in Name
  PROVE  /\ Rotated(n) \in Seq(Name) /\ IsInjective(Rotated(n))
         /\ ToSet(list) \subseteq ToSet(Rotated(n))
BY MovedToEnd DEF Rotated, TypeOK

\* Dispatching a key chooses a name of the list, or none, and keeps the tables typed.
LEMMA DispatchType ==
  ASSUME TypeOK, NEW k \in Key, NEW n \in Name \cup {None}, NEW excluded, Dispatch(k, excluded, n)
  PROVE  /\ list' \in Seq(Name) /\ IsInjective(list') /\ ToSet(list) \subseteq ToSet(list')
         /\ table' \in [Key -> [instance : Name \cup {None}, initialized : BOOLEAN] \cup {None}]
<1> DEFINE Tables == [Key -> [instance : Name \cup {None}, initialized : BOOLEAN] \cup {None}]
           known == IF InstanceFor(k) = None THEN table ELSE Removed(k)
<1>1. list \in Seq(Name) /\ IsInjective(list) /\ table \in Tables
  BY DEF TypeOK
<1>2. known \in Tables
  BY <1>1, TableTypes
<1>3. CASE UNCHANGED <<list, table>>
  BY <1>1, <1>3
<1>4. CASE n = None /\ table' = known /\ UNCHANGED list
  BY <1>1, <1>2, <1>4
<1>5. CASE n # None /\ list' = Rotated(n) /\ table' = Created(known, k, n)
  <2> HIDE DEF known
  <2>1. n \in Name /\ table' \in Tables
    BY <1>2, <1>5, TableTypes
  <2> QED BY <1>5, <2>1, RotatedType
<1> QED BY <1>3, <1>4, <1>5 DEF Dispatch

\* What most steps do to a thread: it stays what it is, it returns after it has lost its
\* socket or before it has got one, or it goes on, to fail when it reaches nobody.
GoesOn(s) ==
    \/ thread'[s] = thread[s]
    \/ thread'[s] = None /\ (At(s, "add") \/ fd[InstanceOf(s)] # s)
    \/ /\ thread[s] # None /\ thread'[s] # None
       /\ thread'[s].process = thread[s].process
       /\ thread'[s].pc # "add"
       /\ thread'[s].pc = "test" => InstanceOf(s) \in ToSet(list)
       /\ thread'[s].pc = "check" => thread'[s].error
       /\ thread'[s].error => /\ thread'[s].pc \notin {"test", "confirm"}
                              /\ thread[s].error \/ Peer(fd[InstanceOf(s)]) = None

\* Of the connections, none is opened, and an instance keeps its socket.
CarriesOn ==
    /\ fd' = fd /\ ToSet(list) \subseteq ToSet(list')
    /\ \A p \in Process : process'[p].socket \in {process[p].socket, None}
    /\ \A s \in Socket : GoesOn(s)

\* A running process is one; what is sent to a socket that nobody has reaches nobody.
LEMMA PeerType ==
  ASSUME TypeOK, NEW s \in Socket \cup {DISCONNECTED}
  PROVE  /\ Peer(s) \in Process \cup {None}
         /\ Peer(s) # None => s \in Socket /\ thread[s] # None /\ Peer(s) = thread[s].process
                                /\ process[Peer(s)].socket = s
BY DEF Peer, TypeOK, Thread

\* A GET keeps the types.
LEMMA GetType ==
  ASSUME Typed, NEW e \in Esi, NEW k \in Key, Get(e, k)
  PROVE  Typed' /\ CarriesOn
<1>1. table' \in [Key -> [instance : Name \cup {None}, initialized : BOOLEAN] \cup {None}]
  BY TableTypes DEF Get, Typed, TypeOK
<1> QED BY <1>1 DEF Get, Typed, TypeOK, RequestsAtHand, CarriesOn, GoesOn

\* An answer sends its ESI on, or to nobody.
LEMMA AnswerType ==
  ASSUME TypeOK, NEW e \in Esi, Illegal(e) \/ (Success(e) /\ UNCHANGED owner)
  PROVE  /\ esi' = [esi EXCEPT ![e] = Idle]
         /\ esi' \in [Esi -> [pc : {"idle", "push", "waiting"},
                        request : Request \cup {None}, target : Name \cup {None}]]
         /\ \A f \in Esi : esi'[f].pc = "push" => f # e /\ esi'[f] = esi[f]
         /\ owner' \in [Key -> Esi \cup {None}]
<1>1. Idle \in [pc : {"idle", "push", "waiting"},
                request : Request \cup {None}, target : Name \cup {None}]
  BY DEF Idle
<1>2. Idle.pc = "idle"
  BY DEF Idle
<1>3. esi' = [esi EXCEPT ![e] = Idle]
  BY DEF Illegal, Success
<1>4. owner' \in [Key -> Esi \cup {None}]
  BY DEF Illegal, TypeOK
<1> HIDE DEF Idle
<1> QED BY <1>1, <1>2, <1>3, <1>4 DEF TypeOK

\* A SET or STORE keeps the types, and leaves a request to push with its instance.
LEMMA SentenceType ==
  ASSUME Typed, NEW e \in Esi, NEW op \in {"SET", "STORE"}, NEW k \in Key,
         NEW n \in Name \cup {None}, Sentence(e, op, k, n)
  PROVE  Typed' /\ CarriesOn
<1>1. /\ list' \in Seq(Name) /\ IsInjective(list') /\ ToSet(list) \subseteq ToSet(list')
      /\ table' \in [Key -> [instance : Name \cup {None}, initialized : BOOLEAN] \cup {None}]
  BY DispatchType DEF Sentence, Typed
<1>2. /\ esi' \in [Esi -> [pc : {"idle", "push", "waiting"},
                        request : Request \cup {None}, target : Name \cup {None}]]
      /\ \A f \in Esi : esi'[f].pc = "push" => esi'[f].request \in Request /\ esi'[f].target \in Name
      /\ owner' \in [Key -> Esi \cup {None}]
  <2>1. CASE n = None
    BY <2>1, AnswerType DEF Sentence, Typed, RequestsAtHand
  <2>2. CASE n # None
    <3> DEFINE r == [esi |-> e, op |-> op, key |-> k, excluded |-> {}]
               t == [pc |-> "push", target |-> n, request |-> r]
    <3>1. r \in Request
      BY DEF Request
    <3> HIDE DEF r
    <3>2. t \in [pc : {"idle", "push", "waiting"},
                        request : Request \cup {None}, target : Name \cup {None}]
      BY <3>1
    <3>3. t.request \in Request /\ t.target \in Name
      BY <2>2, <3>1
    <3>4. esi' = [esi EXCEPT ![e] = t] /\ UNCHANGED owner
      BY <2>2 DEF Sentence, r
    <3> HIDE DEF t
    <3> QED BY <3>2, <3>3, <3>4 DEF Typed, TypeOK, RequestsAtHand
  <2> QED BY <2>1, <2>2
<1>3. UNCHANGED <<distribution, fd, requests, thread, process, disk, kills>>
  BY DEF Sentence
<1> QED BY <1>1, <1>2, <1>3 DEF Typed, TypeOK, RequestsAtHand, CarriesOn, GoesOn

\* The request goes to the end of the queue of its instance.
LEMMA PushSentenceType ==
  ASSUME Typed, NEW e \in Esi, PushSentence(e)
  PROVE  Typed' /\ CarriesOn
<1>1. esi[e].request \in Request /\ esi[e].target \in Name
  BY DEF PushSentence, Typed, RequestsAtHand
<1>2. requests' \in [Name -> Seq(Request)]
  BY <1>1 DEF PushSentence, Typed, TypeOK
<1>3. /\ esi' \in [Esi -> [pc : {"idle", "push", "waiting"},
                        request : Request \cup {None}, target : Name \cup {None}]]
      /\ \A f \in Esi : esi'[f].pc = "push" => esi'[f] = esi[f]
  <2>1. /\ [Idle EXCEPT !.pc = "waiting"] \in [pc : {"idle", "push", "waiting"},
                        request : Request \cup {None}, target : Name \cup {None}]
        /\ [Idle EXCEPT !.pc = "waiting"].pc = "waiting"
    BY DEF Idle
  <2> DEFINE t == [Idle EXCEPT !.pc = "waiting"]
  <2>2. esi' = [esi EXCEPT ![e] = t]
    BY DEF PushSentence
  <2> HIDE DEF t
  <2> QED BY <2>1, <2>2 DEF Typed, TypeOK, t
<1> QED BY <1>2, <1>3 DEF PushSentence, Typed, TypeOK, RequestsAtHand, CarriesOn, GoesOn

-----------------------------------------------------------------------------
(* What a step of one thread does to the threads *)

ThreadsGoOn ==
    /\ thread' \in [Socket -> Thread \cup {None}]
    /\ \A s \in Socket : thread'[s] # None /\ thread'[s].pc \in Serving =>
           /\ thread'[s].request \in Request
           /\ thread'[s].pc = "push" => thread'[s].target \in Name
    /\ \A s \in Socket : GoesOn(s)

\* A step that leaves the threads alone lets each of them go on.
LEMMA StandStill == Typed /\ UNCHANGED thread => ThreadsGoOn
BY DEF Typed, TypeOK, RequestsAtHand, ThreadsGoOn, GoesOn

\* A thread whose request is over goes on as it was.
LEMMA OverGoesOn ==
  ASSUME Typed, NEW s \in Socket, thread[s] # None, Over(s)
  PROVE  ThreadsGoOn
BY OverType, NoneAssumption DEF Typed, RequestsAtHand, ThreadsGoOn, GoesOn, Serving

\* A thread that returns, and the others go on.
LEMMA ReturnGoesOn ==
  ASSUME Typed, NEW s \in Socket, Return(s), At(s, "add") \/ fd[InstanceOf(s)] # s
  PROVE  ThreadsGoOn
BY ReturnType DEF Typed, RequestsAtHand, ThreadsGoOn, GoesOn

\* A thread that goes to another line, with its request if it serves there.
LEMMA GotoGoesOn ==
  ASSUME Typed, NEW s \in Socket, NEW from, At(s, from), NEW pc, Goto(s, pc),
         pc \in {"test", "confirm", "pop", "serve", "wait", "failed",
                 "redispatch", "compact"},
         pc \in Serving => from \in Serving,
         pc \in {"test", "confirm"} => ~thread[s].error,
         pc = "test" => InstanceOf(s) \in ToSet(list)
  PROVE  ThreadsGoOn
<1>1. /\ thread' \in [Socket -> Thread \cup {None}]
      /\ \A r \in Socket \ {s} : thread'[r] = thread[r]
      /\ thread'[s] \in Thread
      /\ thread'[s].pc = pc
      /\ thread'[s].process = thread[s].process
      /\ thread'[s].request = thread[s].request
      /\ thread'[s].error = thread[s].error
  BY GotoType DEF Typed
<1>2. pc \in Serving => thread'[s].request \in Request /\ pc # "push"
  BY <1>1 DEF Typed, RequestsAtHand, At
<1> QED BY <1>1, <1>2, NoneAssumption DEF Typed, RequestsAtHand, ThreadsGoOn, GoesOn, At

-----------------------------------------------------------------------------
(* Instances come and go *)

Processes == [Process -> [socket : Socket \cup {None}, config : {"no", "yes", "garbled"},
                          keys : SUBSET Key]]

\* A process ends, or goes on with its socket.
LEMMA ProcessChanges ==
  ASSUME TypeOK, NEW p \in Process, NEW q,
         q \in [socket : {process[p].socket, None}, config : {"no", "yes", "garbled"},
                keys : SUBSET Key],
         process' = [process EXCEPT ![p] = q]
  PROVE  process' \in Processes /\ \A r \in Process : process'[r].socket \in {process[r].socket, None}
<1>1. q \in [socket : Socket \cup {None}, config : {"no", "yes", "garbled"}, keys : SUBSET Key]
      /\ q.socket \in {process[p].socket, None}
  BY DEF TypeOK
<1>2. process' \in Processes
  BY <1>1 DEF TypeOK, Processes
<1>3. \A r \in Process : process'[r] = IF r = p THEN q ELSE process[r]
  BY DEF TypeOK
<1> QED BY <1>1, <1>2, <1>3

\* A process that stops has a process state.
LEMMA StoppedType ==
  ASSUME NEW x
  PROVE Stopped \in [socket : {x, None}, config : {"no", "yes", "garbled"}, keys : SUBSET Key]
BY DEF Stopped

\* A step that changes the state of one process keeps the type of process.
LEMMA ProcessType ==
  ASSUME TypeOK, NEW p \in Process
  PROVE  process[p] \in [socket : {process[p].socket, None}, config : {"no", "yes", "garbled"},
                keys : SUBSET Key]
BY DEF TypeOK

\* A kill, or the end of a connection, keeps the types.
LEMMA ProcessEnds ==
  ASSUME Typed, NEW p \in Process, Kill(p) \/ EndOfFile(p)
  PROVE  Typed' /\ CarriesOn
<1>1. process' = [process EXCEPT ![p] = Stopped]
  BY DEF Kill, EndOfFile
<1>2. process' \in Processes /\ \A r \in Process : process'[r].socket \in {process[r].socket, None}
  BY <1>1, StoppedType, ProcessChanges DEF Typed
<1>3. kills' \in 0 .. MaxKills
  BY ConstantsAssumption DEF Kill, EndOfFile, Typed, TypeOK
<1>4. UNCHANGED <<distribution, list, fd, requests, table, thread, disk, esi, owner>>
  BY DEF Kill, EndOfFile
<1> QED BY <1>2, <1>3, <1>4 DEF Typed, TypeOK, RequestsAtHand, CarriesOn, GoesOn, Processes

\* A thread that found its instance in the list closes the old socket and gives it its own.
LEMMA ReplaceType ==
  ASSUME Typed, NEW p \in Process, NEW k \in Key, Replace(p, k)
  PROVE  Typed' /\ CarriesOn
<1> DEFINE q == [process[p] EXCEPT !.keys = process[p].keys \ {k}]
<1>1. q \in [socket : {process[p].socket, None}, config : {"no", "yes", "garbled"},
                keys : SUBSET Key]
  BY ProcessType DEF Typed
<1>2. process' = [process EXCEPT ![p] = q]
  BY DEF Replace
<1> HIDE DEF q
<1>3. process' \in Processes /\ \A r \in Process : process'[r].socket \in {process[r].socket, None}
  BY <1>1, <1>2, ProcessChanges DEF Typed
<1>4. disk' \in [Name -> SUBSET Key]
  BY DEF Replace, Typed, TypeOK
<1>5. UNCHANGED <<distribution, list, fd, requests, table, thread, esi, owner, kills>>
  BY DEF Replace
<1> QED BY <1>3, <1>4, <1>5 DEF Typed, TypeOK, RequestsAtHand, CarriesOn, GoesOn, Processes

\* A second process of a connected name is refused.
LEMMA RefuseType ==
  ASSUME Typed, NEW s \in Socket, Refuse(s)
  PROVE  Typed' /\ CarriesOn
<1>1. ThreadsGoOn
  BY ReturnGoesOn DEF Refuse
<1> QED BY <1>1 DEF Refuse, Typed, TypeOK, RequestsAtHand, CarriesOn, ThreadsGoOn

\* Whatever is sent to a process that waits for its configuration garbles it.
LEMMA Garbles ==
  ASSUME TypeOK, NEW p \in Process, process' = [process EXCEPT ![p].config = "garbled"]
  PROVE  process' \in Processes /\ \A r \in Process : process'[r].socket \in {process[r].socket, None}
<1> DEFINE q == [process[p] EXCEPT !.config = "garbled"]
<1>1. q \in [socket : {process[p].socket, None}, config : {"no", "yes", "garbled"},
                keys : SUBSET Key]
  BY ProcessType
<1>2. process' = [process EXCEPT ![p] = q]
  OBVIOUS
<1> HIDE DEF q
<1> QED BY <1>1, <1>2, ProcessChanges

\* A thread tests whether the instance it found is still connected.
LEMMA TestType ==
  ASSUME Typed, NEW s \in Socket, ~thread[s].error, Test(s)
  PROVE  Typed' /\ CarriesOn
<1>1. ThreadsGoOn
  BY GotoGoesOn DEF Test, Serving
<1>2. fd[InstanceOf(s)] \in Socket \cup {DISCONNECTED}
  BY ThreadChanges DEF Test, At, Typed, TypeOK
<1>3. Peer(fd[InstanceOf(s)]) \in Process
  BY <1>2, PeerType DEF Test, Typed
<1>4. process' \in Processes /\ \A r \in Process : process'[r].socket \in {process[r].socket, None}
  BY <1>3, Garbles DEF Test, Typed
<1> QED BY <1>1, <1>4 DEF Test, Typed, TypeOK, RequestsAtHand, CarriesOn, ThreadsGoOn, Processes

\* The confirmation is sent with the keys of the instance.
LEMMA ConfirmType ==
  ASSUME Typed, NEW s \in Socket, Confirm(s)
  PROVE  Typed' /\ CarriesOn
<1> DEFINE n == InstanceOf(s)
           p == Peer(fd[n])
<1>1. ThreadsGoOn
  BY GotoGoesOn DEF Confirm, Serving
<1>2. n \in Name /\ fd[n] \in Socket \cup {DISCONNECTED}
  BY ThreadChanges DEF Confirm, At, Typed, TypeOK
<1>3. process' \in Processes /\ \A r \in Process : process'[r].socket \in {process[r].socket, None}
  <2>1. CASE p = None
    BY <2>1 DEF Confirm, Typed, TypeOK, Processes
  <2>2. CASE p # None
    <3>1. p \in Process
      BY <1>2, <2>2, PeerType DEF Typed
    <3>2. process' = [process EXCEPT ![p] = Configured(p, n)]
      BY <2>2 DEF Confirm
    <3>3. Configured(p, n) \in [socket : {process[p].socket, None},
                 config : {"no", "yes", "garbled"}, keys : SUBSET Key]
      <4>1. process[p] \in [socket : {process[p].socket, None},
                            config : {"no", "yes", "garbled"}, keys : SUBSET Key]
        BY <3>1, ProcessType DEF Typed
      <4>2. InstanceKeyList(n) \cap disk[NameOf[p]] \in SUBSET Key
        BY DEF InstanceKeyList
      <4>3. process[p].config \in {"no", "yes", "garbled"}
        BY <4>1
      <4> HIDE DEF p, n
      <4> QED BY <4>1, <4>2, <4>3, StoppedType DEF Configured
    <3> HIDE DEF p, n
    <3> QED BY <3>1, <3>2, <3>3, ProcessChanges DEF Typed
  <2> QED BY <2>1, <2>2
<1> QED BY <1>1, <1>3 DEF Confirm, Typed, TypeOK, RequestsAtHand, CarriesOn, ThreadsGoOn, Processes

-----------------------------------------------------------------------------
(* The loop of an instance's thread *)

\* A request leaves the queue of its instance for the thread that serves it.
LEMMA PopType ==
  ASSUME Typed, NEW s \in Socket, Pop(s)
  PROVE  Typed' /\ CarriesOn
<1> DEFINE n == InstanceOf(s)
           r == Head(requests[n])
<1>1. n \in Name /\ requests[n] \in Seq(Request) /\ requests[n] # <<>>
  BY ThreadChanges DEF Pop, At, Typed, TypeOK
<1>2. r \in Request /\ Tail(requests[n]) \in Seq(Request)
  BY <1>1, HeadTailProperties
<1>3. thread[s] \in Thread /\ thread[s] # None
  BY ThreadChanges DEF Pop, At, Typed
<1> HIDE DEF r
<1>4. CASE fd[n] = s
  <2> DEFINE t == [thread[s] EXCEPT !.pc = "serve", !.request = r]
  <2>1. /\ t \in Thread /\ t.pc = "serve" /\ t.request = r /\ t.process = thread[s].process
        /\ t.error = thread[s].error
    BY <1>2, <1>3 DEF Thread
  <2>2. /\ thread' = [thread EXCEPT ![s] = t]
        /\ requests' = [requests EXCEPT ![n] = Tail(requests[n])]
    <3>1. thread' = [thread EXCEPT ![s].pc = "serve", ![s].request = r]
      BY <1>4 DEF Pop, r
    <3> QED BY <1>3, <1>4, <3>1 DEF Pop, Typed, TypeOK
  <2> HIDE DEF t
  <2>3. /\ thread' \in [Socket -> Thread \cup {None}] /\ thread'[s] = t
        /\ \A x \in Socket \ {s} : thread'[x] = thread[x]
    BY <2>1, <2>2, ThreadType DEF Typed
  <2>4. ThreadsGoOn
    BY <1>2, <1>3, <2>1, <2>3, NoneAssumption DEF Typed, RequestsAtHand, ThreadsGoOn, GoesOn
  <2>5. requests' \in [Name -> Seq(Request)]
    BY <1>1, <1>2, <2>2 DEF Typed, TypeOK
  <2> QED BY <2>4, <2>5 DEF Pop, Typed, TypeOK, RequestsAtHand, CarriesOn, ThreadsGoOn
<1>5. CASE fd[n] # s
  <2>1. ThreadsGoOn
    BY <1>5, ReturnGoesOn DEF Pop
  <2>2. requests' = [requests EXCEPT ![n] = Append(Tail(requests[n]), r)]
    BY <1>5 DEF Pop, r
  <2>3. requests' \in [Name -> Seq(Request)]
    BY <1>1, <1>2, <2>2, AppendProperties DEF Typed, TypeOK
  <2> QED BY <2>1, <2>3 DEF Pop, Typed, TypeOK, RequestsAtHand, CarriesOn, ThreadsGoOn
<1> QED BY <1>4, <1>5

\* A thread that waits and gets no answer learns so.
LEMMA NoAnswerType ==
  ASSUME Typed, NEW s \in Socket, NoAnswer(s)
  PROVE  Typed' /\ CarriesOn
<1>1. ThreadsGoOn
  BY GotoGoesOn DEF NoAnswer, Sends, Serving
<1>2. fd[InstanceOf(s)] \in Socket \cup {DISCONNECTED}
  BY ThreadChanges DEF NoAnswer, Sends, At, Typed, TypeOK
<1>3. Peer(fd[InstanceOf(s)]) \in Process
  BY <1>2, PeerType DEF NoAnswer, Unreachable, Typed
<1>4. process' \in Processes /\ \A r \in Process : process'[r].socket \in {process[r].socket, None}
  BY <1>3, Garbles DEF NoAnswer, Typed
<1> QED BY <1>1, <1>4 DEF NoAnswer, Typed, TypeOK, RequestsAtHand, CarriesOn, ThreadsGoOn, Processes

\* An instance ends instead of answering.
LEMMA FailsType ==
  ASSUME Typed, NEW s \in Socket, Fails(s)
  PROVE  Typed' /\ CarriesOn
<1>1. thread[s] \in Thread /\ thread[s] # None /\ thread[s].pc \in {"serve", "wait"}
  BY ThreadChanges DEF Fails, Sends, At, Typed
<1> DEFINE t == [thread[s] EXCEPT !.pc = "failed", !.error = TRUE]
<1>2. /\ t \in Thread /\ t.pc = "failed" /\ t.request = thread[s].request
      /\ t.process = thread[s].process
  BY <1>1 DEF Thread
<1>3. thread' = [thread EXCEPT ![s] = t]
  BY <1>1 DEF Fails, Typed, TypeOK
<1>4. t.request \in Request
  BY <1>1, <1>2 DEF Typed, RequestsAtHand, Serving
<1> HIDE DEF t
<1>5. /\ thread' \in [Socket -> Thread \cup {None}] /\ thread'[s] = t
      /\ \A x \in Socket \ {s} : thread'[x] = thread[x]
  BY <1>2, <1>3, ThreadType DEF Typed
<1>6. Peer(fd[InstanceOf(s)]) = None
  BY DEF Fails, Unreachable
<1>7. ThreadsGoOn
  BY <1>1, <1>2, <1>4, <1>5, <1>6, NoneAssumption DEF Typed, RequestsAtHand, ThreadsGoOn, GoesOn
<1> QED BY <1>7 DEF Fails, Typed, TypeOK, RequestsAtHand, CarriesOn, ThreadsGoOn

-----------------------------------------------------------------------------
(* Serving a request *)

\* A thread that serves has a thread record and a request, of an ESI, for a key.
LEMMA ServingType ==
  ASSUME Typed, NEW s \in Socket, thread[s] # None, thread[s].pc \in Serving
  PROVE  /\ thread[s] \in Thread /\ thread[s].request \in Request
         /\ thread[s].request.key \in Key /\ thread[s].request.esi \in Esi
         /\ InstanceOf(s) \in Name /\ fd[InstanceOf(s)] \in Socket \cup {DISCONNECTED}
BY ThreadChanges DEF Typed, TypeOK, RequestsAtHand, Request

\* An answer to the ESI of the request, and the request is over.
LEMMA AnsweredType ==
  ASSUME Typed, NEW s \in Socket, thread[s] # None, NEW e \in Esi,
         Illegal(e) \/ (Success(e) /\ UNCHANGED owner), Over(s),
         NEW k \in Key, table' \in {table, Removed(k), SetInitialized(k)},
         process' = process \/
            (process' \in Processes /\ \A r \in Process : process'[r].socket \in {process[r].socket, None}),
         disk' \in [Name -> SUBSET Key],
         UNCHANGED <<distribution, list, fd, requests, kills>>
  PROVE  Typed' /\ CarriesOn
<1>1. ThreadsGoOn
  BY OverGoesOn
<1>2. /\ esi' \in [Esi -> [pc : {"idle", "push", "waiting"},
                        request : Request \cup {None}, target : Name \cup {None}]]
      /\ \A f \in Esi : esi'[f].pc = "push" => esi'[f] = esi[f]
      /\ owner' \in [Key -> Esi \cup {None}]
  BY AnswerType DEF Typed
<1>3. table' \in [Key -> [instance : Name \cup {None}, initialized : BOOLEAN] \cup {None}]
  BY TableTypes DEF Typed, TypeOK
<1>4. process' \in Processes /\ \A r \in Process : process'[r].socket \in {process[r].socket, None}
  BY DEF Typed, TypeOK, Processes
<1> QED BY <1>1, <1>2, <1>3, <1>4
        DEF Typed, TypeOK, RequestsAtHand, CarriesOn, ThreadsGoOn, Processes

\* The value is set in the instance that is served.
LEMMA SetDoneType ==
  ASSUME Typed, NEW s \in Socket, thread[s] # None, thread[s].pc \in Serving,
         ~Unreachable(s), SetDone(s)
  PROVE  /\ process' \in Processes
         /\ \A r \in Process : process'[r].socket \in {process[r].socket, None}
         /\ disk' \in [Name -> SUBSET Key]
<1> DEFINE p == Peer(fd[InstanceOf(s)])
           k == thread[s].request.key
           q == [process[p] EXCEPT !.keys = process[p].keys \cup {k}]
<1>1. k \in Key /\ p \in Process
  BY ServingType, PeerType DEF Unreachable, Typed
<1>2. q \in [socket : {process[p].socket, None}, config : {"no", "yes", "garbled"},
                keys : SUBSET Key]
  <2>1. process[p] \in [socket : {process[p].socket, None}, config : {"no", "yes", "garbled"},
                        keys : SUBSET Key]
    BY <1>1, ProcessType DEF Typed
  <2> HIDE DEF p, k
  <2> QED BY <1>1, <2>1
<1>3. process' = [process EXCEPT ![p] = q]
  BY DEF SetDone
<1>4. disk' = [disk EXCEPT ![NameOf[p]] = @ \cup {k}]
  BY DEF SetDone
<1> HIDE DEF p, k, q
<1>5. disk' \in [Name -> SUBSET Key]
  BY <1>1, <1>4 DEF Typed, TypeOK
<1> QED BY <1>1, <1>2, <1>3, <1>5, ProcessChanges DEF Typed

\* A SET that is served is answered, or asks for a compaction.
LEMMA SetServedType ==
  ASSUME Typed, NEW s \in Socket, SetServed(s)
  PROVE  Typed' /\ CarriesOn
<1> DEFINE p == Peer(fd[InstanceOf(s)])
           k == thread[s].request.key
           e == thread[s].request.esi
<1>1. thread[s] # None /\ thread[s].pc \in Serving /\ At(s, "serve") /\ ~Unreachable(s)
  BY DEF SetServed, Answered, Sends, Answers, At, Serving
<1>2. k \in Key /\ e \in Esi
  BY <1>1, ServingType
<1>3. disk \in [Name -> SUBSET Key]
  BY DEF Typed, TypeOK
<1>4. CASE Illegal(e) /\ table' = Removed(k) /\ Over(s) /\ UNCHANGED <<process, disk, kills>>
           /\ UNCHANGED <<distribution, list, fd, requests>>
  <2> HIDE DEF k, e
  <2> QED BY <1>1, <1>2, <1>3, <1>4, AnsweredType
<1>5. CASE SetDone(s) /\ Success(e) /\ table' = SetInitialized(k) /\ Over(s)
           /\ UNCHANGED <<owner, kills>> /\ UNCHANGED <<distribution, list, fd, requests>>
  <2>1. /\ process' \in Processes
        /\ \A r \in Process : process'[r].socket \in {process[r].socket, None}
        /\ disk' \in [Name -> SUBSET Key]
    BY <1>1, <1>5, SetDoneType
  <2> HIDE DEF k, e
  <2> QED BY <1>1, <1>2, <1>5, <2>1, AnsweredType
<1>6. CASE SetDone(s) /\ Goto(s, "compact") /\ UNCHANGED <<table, esi, owner, kills>>
           /\ UNCHANGED <<distribution, list, fd, requests>>
  <2>1. /\ process' \in Processes
        /\ \A r \in Process : process'[r].socket \in {process[r].socket, None}
        /\ disk' \in [Name -> SUBSET Key]
    BY <1>1, <1>6, SetDoneType
  <2>2. ThreadsGoOn
    BY <1>1, <1>6, GotoGoesOn DEF Serving
  <2> QED BY <1>6, <2>1, <2>2
          DEF Typed, TypeOK, RequestsAtHand, CarriesOn, ThreadsGoOn, Processes
<1>7. CASE /\ kills < MaxKills
           /\ process' = [process EXCEPT ![p] = Stopped]
           /\ kills' = kills + 1
           /\ Goto(s, "failed")
           /\ UNCHANGED <<table, disk, esi, owner>>
           /\ UNCHANGED <<distribution, list, fd, requests>>
  <2>1. p \in Process
    BY <1>1, ServingType, PeerType DEF Unreachable, Typed
  <2>2. process' \in Processes /\ \A r \in Process : process'[r].socket \in {process[r].socket, None}
    BY <1>7, <2>1, StoppedType, ProcessChanges DEF Typed
  <2>3. kills' \in 0 .. MaxKills
    BY <1>7, ConstantsAssumption DEF Typed, TypeOK
  <2>4. ThreadsGoOn
    BY <1>1, <1>7, GotoGoesOn DEF Serving
  <2> QED BY <1>7, <2>2, <2>3, <2>4
          DEF Typed, TypeOK, RequestsAtHand, CarriesOn, ThreadsGoOn, Processes
<1> QED BY <1>4, <1>5, <1>6, <1>7 DEF SetServed

\* Compacting the other instances keeps the types.
LEMMA CompactType ==
  ASSUME Typed, NEW s \in Socket, Compact(s)
  PROVE  Typed' /\ CarriesOn
<1> DEFINE k == thread[s].request.key
           e == thread[s].request.esi
<1>1. thread[s] # None /\ thread[s].pc \in Serving
  BY DEF Compact, At, Serving
<1>2. k \in Key /\ e \in Esi
  BY <1>1, ServingType
<1>3. process' \in Processes /\ \A r \in Process : process'[r].socket \in {process[r].socket, None}
  <2>1. \A p \in Process : [process[p] EXCEPT !.config = "garbled"] \in
          [socket : {process[p].socket, None}, config : {"no", "yes", "garbled"}, keys : SUBSET Key]
    BY ProcessType DEF Typed
  <2>2. \A p \in Process : process[p] \in
          [socket : {process[p].socket, None}, config : {"no", "yes", "garbled"}, keys : SUBSET Key]
    BY ProcessType DEF Typed
  <2>3. /\ process' = [p \in Process |-> process'[p]]
        /\ \A p \in Process : process'[p] \in {process[p], [process[p] EXCEPT !.config = "garbled"]}
    BY DEF Compact
  <2>4. \A p \in Process : process[p].socket \in Socket \cup {None}
    BY DEF Typed, TypeOK
  <2>5. \A p \in Process : process'[p] \in
          [socket : {process[p].socket, None}, config : {"no", "yes", "garbled"}, keys : SUBSET Key]
    BY <2>1, <2>2, <2>3
  <2>6. \A p \in Process : process'[p] \in
          [socket : Socket \cup {None}, config : {"no", "yes", "garbled"}, keys : SUBSET Key]
    BY <2>4, <2>5
  <2> QED BY <2>3, <2>5, <2>6 DEF Processes
<1>4. /\ table' = SetInitialized(k) /\ Success(e) /\ Over(s)
      /\ UNCHANGED <<distribution, list, fd, requests, owner, disk, kills>>
  BY DEF Compact
<1>5. disk \in [Name -> SUBSET Key]
  BY DEF Typed, TypeOK
<1> HIDE DEF k, e
<1> QED BY <1>1, <1>2, <1>3, <1>4, <1>5, AnsweredType

\* The end of a STORE keeps the types.
LEMMA StoreOverType ==
  ASSUME Typed, NEW s \in Socket, StoreRefused(s) \/ StoreFailed(s)
  PROVE  Typed' /\ CarriesOn
<1> DEFINE k == thread[s].request.key
           e == thread[s].request.esi
<1>1. thread[s] # None /\ thread[s].pc \in Serving
  BY DEF StoreRefused, StoreFailed, Answered, Sends, At, Serving
<1>2. k \in Key /\ e \in Esi
  BY <1>1, ServingType
<1>3. /\ table' = Removed(k) /\ Illegal(e) /\ Over(s)
      /\ UNCHANGED <<distribution, list, fd, requests, process, disk, kills>>
  BY DEF StoreRefused, StoreFailed
<1>4. disk \in [Name -> SUBSET Key]
  BY DEF Typed, TypeOK
<1> HIDE DEF k, e
<1> QED BY <1>1, <1>2, <1>3, <1>4, AnsweredType

\* A STORE that is served is answered.
LEMMA StoreServedType ==
  ASSUME Typed, NEW s \in Socket, StoreServed(s)
  PROVE  Typed' /\ CarriesOn
<1> DEFINE p == Peer(fd[InstanceOf(s)])
           k == thread[s].request.key
           e == thread[s].request.esi
<1>1. thread[s] # None /\ thread[s].pc \in Serving /\ ~Unreachable(s)
  BY DEF StoreServed, Answered, Sends, Answers, At, Serving
<1>2. k \in Key /\ e \in Esi
  BY <1>1, ServingType
<1>3. /\ disk' = [disk EXCEPT ![NameOf[p]] = @ \cup {k}]
      /\ owner' = [owner EXCEPT ![k] = None]
      /\ Success(e) /\ Over(s)
      /\ UNCHANGED <<distribution, list, fd, requests, table, process, kills>>
  BY DEF StoreServed
<1> HIDE DEF k, e
<1>4. ThreadsGoOn
  BY <1>1, <1>3, OverGoesOn
<1>5. disk' \in [Name -> SUBSET Key] /\ owner' \in [Key -> Esi \cup {None}]
  BY <1>2, <1>3 DEF Typed, TypeOK
<1>6. /\ esi' \in [Esi -> [pc : {"idle", "push", "waiting"},
                        request : Request \cup {None}, target : Name \cup {None}]]
      /\ \A f \in Esi : esi'[f].pc = "push" => esi'[f] = esi[f]
  <2>1. Idle.pc = "idle" /\ Idle \in [pc : {"idle", "push", "waiting"},
                        request : Request \cup {None}, target : Name \cup {None}]
    BY DEF Idle
  <2>2. esi' = [esi EXCEPT ![e] = Idle]
    BY <1>3 DEF Success
  <2> HIDE DEF Idle
  <2> QED BY <1>2, <2>1, <2>2 DEF Typed, TypeOK
<1> QED BY <1>3, <1>4, <1>5, <1>6
        DEF Typed, TypeOK, RequestsAtHand, CarriesOn, ThreadsGoOn

\* A SET whose instance is gone is dispatched anew.
LEMMA SetFailedType ==
  ASSUME Typed, NEW s \in Socket, SetFailed(s)
  PROVE  Typed' /\ CarriesOn
<1>1. thread[s] # None /\ thread[s].pc \in Serving
  BY DEF SetFailed, At, Serving
<1> DEFINE r == [thread[s].request EXCEPT !.excluded = thread[s].request.excluded \cup {InstanceOf(s)}]
           t == [thread[s] EXCEPT !.pc = "redispatch", !.request = r]
<1>2. thread[s] \in Thread /\ thread[s].request \in Request /\ InstanceOf(s) \in Name
  BY <1>1, ServingType
<1>3. r \in Request
  BY <1>2 DEF Request
<1>4. thread' = [thread EXCEPT ![s] = t]
  BY <1>2 DEF SetFailed, Typed, TypeOK, Thread
<1> HIDE DEF r
<1>5. /\ t \in Thread /\ t.pc = "redispatch" /\ t.request = r
      /\ t.process = thread[s].process /\ t.error = thread[s].error
  BY <1>2, <1>3 DEF Thread
<1> HIDE DEF t
<1>6. /\ thread' \in [Socket -> Thread \cup {None}] /\ thread'[s] = t
      /\ \A x \in Socket \ {s} : thread'[x] = thread[x]
  BY <1>4, <1>5, ThreadType DEF Typed
<1>7. ThreadsGoOn
  BY <1>1, <1>3, <1>5, <1>6, NoneAssumption DEF Typed, RequestsAtHand, ThreadsGoOn, GoesOn
<1>8. table' \in [Key -> [instance : Name \cup {None}, initialized : BOOLEAN] \cup {None}]
  BY <1>2, TableTypes DEF SetFailed, Request, Typed
<1> QED BY <1>7, <1>8 DEF SetFailed, Typed, TypeOK, RequestsAtHand, CarriesOn, ThreadsGoOn

\* The new instance of a failed SET is in the list, or there is none.
LEMMA DispatchFailedSetType ==
  ASSUME Typed, NEW s \in Socket, NEW n \in Name \cup {None}, DispatchFailedSet(s, n)
  PROVE  Typed' /\ CarriesOn
<1>1. thread[s] # None /\ thread[s].pc \in Serving
  BY DEF DispatchFailedSet, At, Serving
<1>2. thread[s] \in Thread /\ thread[s].request \in Request
      /\ thread[s].request.key \in Key /\ thread[s].request.esi \in Esi
  BY <1>1, ServingType
<1>3. /\ list' \in Seq(Name) /\ IsInjective(list') /\ ToSet(list) \subseteq ToSet(list')
      /\ table' \in [Key -> [instance : Name \cup {None}, initialized : BOOLEAN] \cup {None}]
  BY <1>2, DispatchType DEF DispatchFailedSet, Typed
<1>4. CASE n = None
  <2>1. ThreadsGoOn
    BY <1>1, <1>4, OverGoesOn DEF DispatchFailedSet
  <2>2. /\ esi' \in [Esi -> [pc : {"idle", "push", "waiting"},
                        request : Request \cup {None}, target : Name \cup {None}]]
        /\ \A f \in Esi : esi'[f].pc = "push" => esi'[f] = esi[f]
        /\ owner' \in [Key -> Esi \cup {None}]
    BY <1>2, <1>4, AnswerType DEF DispatchFailedSet, Typed
  <2> QED BY <1>3, <2>1, <2>2
          DEF DispatchFailedSet, Typed, TypeOK, RequestsAtHand, CarriesOn, ThreadsGoOn
<1>5. CASE n # None
  <2> DEFINE t == [thread[s] EXCEPT !.pc = "push", !.target = n]
  <2>1. thread' = [thread EXCEPT ![s] = t]
    BY <1>2, <1>5 DEF DispatchFailedSet, Typed, TypeOK
  <2>2. /\ t \in Thread /\ t.pc = "push" /\ t.request = thread[s].request /\ t.target = n
        /\ t.process = thread[s].process /\ t.error = thread[s].error
    BY <1>2 DEF Thread
  <2> HIDE DEF t
  <2>3. /\ thread' \in [Socket -> Thread \cup {None}] /\ thread'[s] = t
        /\ \A x \in Socket \ {s} : thread'[x] = thread[x]
    BY <2>1, <2>2, ThreadType DEF Typed
  <2>4. ThreadsGoOn
    BY <1>1, <1>2, <1>5, <2>2, <2>3, NoneAssumption DEF Typed, RequestsAtHand, ThreadsGoOn, GoesOn
  <2>5. UNCHANGED <<esi, owner>>
    BY <1>5 DEF DispatchFailedSet
  <2> QED BY <1>3, <2>4, <2>5
          DEF DispatchFailedSet, Typed, TypeOK, RequestsAtHand, CarriesOn, ThreadsGoOn
<1> QED BY <1>4, <1>5

\* A failed SET goes to the end of the queue of its new instance.
LEMMA PushFailedSetType ==
  ASSUME Typed, NEW s \in Socket, PushFailedSet(s)
  PROVE  Typed' /\ CarriesOn
<1>1. /\ thread[s] # None
      /\ thread[s].request \in Request /\ thread[s].target \in Name
  BY DEF PushFailedSet, At, Serving, Typed, RequestsAtHand
<1>2. ThreadsGoOn
  BY <1>1, OverGoesOn DEF PushFailedSet
<1>3. requests' \in [Name -> Seq(Request)]
  BY <1>1, AppendProperties DEF PushFailedSet, Typed, TypeOK
<1> QED BY <1>2, <1>3 DEF PushFailedSet, Typed, TypeOK, RequestsAtHand, CarriesOn, ThreadsGoOn

-----------------------------------------------------------------------------
(* Connections *)

\* An instance with a socket is in the list; only threads that are connected fail, and
\* one that failed and still has the socket of its instance reaches nobody.
Connected ==
    /\ \A n \in Name : fd[n] # DISCONNECTED => n \in ToSet(list)
    /\ \A s \in Socket :
        /\ At(s, "test") => InstanceOf(s) \in ToSet(list)
        /\ At(s, "check") => thread[s].error
        /\ thread[s] # None /\ thread[s].error =>
               /\ thread[s].pc \notin {"add", "test", "confirm"}
               /\ fd[InstanceOf(s)] = s => Peer(s) = None

IInv == Typed /\ Connected

\* At the start no instance has a socket.
LEMMA ConnectedInit == Init => Connected
BY DEF Init, Connected, At

\* What OwnSocket says of every instance is kept by a step that lets the threads go on.
LEMMA ConnectedStays ==
  ASSUME IInv, CarriesOn
  PROVE  Connected'
<1>1. \A n \in Name : fd'[n] # DISCONNECTED => n \in ToSet(list')
  BY DEF IInv, Connected, CarriesOn
<1>2. ASSUME NEW s \in Socket
      PROVE  /\ At(s, "test")' => InstanceOf(s)' \in ToSet(list')
             /\ At(s, "check")' => thread'[s].error
             /\ thread'[s] # None /\ thread'[s].error =>
               /\ thread'[s].pc \notin {"add", "test", "confirm"}
               /\ fd'[InstanceOf(s)'] = s => Peer(s)' = None
  <2>1. ASSUME thread'[s] # None, thread[s] # None, thread'[s].process = thread[s].process,
               fd[InstanceOf(s)] = s => Peer(s) = None
        PROVE  fd'[InstanceOf(s)'] = s => Peer(s)' = None
    <3>1. InstanceOf(s)' = InstanceOf(s) /\ fd' = fd
      BY <2>1 DEF InstanceOf, CarriesOn
    <3>2. thread[s].process \in Process
      BY <2>1, ThreadChanges DEF IInv, Typed
    <3>3. process'[thread[s].process].socket \in {process[thread[s].process].socket, None}
      BY <3>2 DEF CarriesOn
    <3>4. s # DISCONNECTED /\ s # None
      BY ConstantsAssumption DEF Socket
    <3>5. Peer(s) = None => Peer(s)' = None
      BY <2>1, <3>3, <3>4, <3>2, ConstantsAssumption DEF Peer
    <3> QED BY <2>1, <3>1, <3>5
  <2>a. thread[s] # None /\ thread'[s] # None /\ thread'[s].process = thread[s].process
           /\ InstanceOf(s) \in ToSet(list) => InstanceOf(s)' \in ToSet(list')
    BY DEF InstanceOf, CarriesOn
  <2>2. CASE thread'[s] = thread[s]
    BY <2>1, <2>a, <2>2 DEF IInv, Connected, At
  <2>3. CASE thread'[s] = None
    BY <2>3 DEF At
  <2>4. CASE /\ thread[s] # None /\ thread'[s] # None
             /\ thread'[s].process = thread[s].process
             /\ thread'[s].pc # "add"
             /\ thread'[s].pc = "test" => InstanceOf(s) \in ToSet(list)
             /\ thread'[s].pc = "check" => thread'[s].error
             /\ thread'[s].error => /\ thread'[s].pc \notin {"test", "confirm"}
                                    /\ thread[s].error \/ Peer(fd[InstanceOf(s)]) = None
    BY <2>1, <2>a, <2>4 DEF IInv, Connected, At
  <2> QED BY <2>2, <2>3, <2>4 DEF CarriesOn, GoesOn
<1> QED BY <1>1, <1>2 DEF Connected

\* An element that a list does not have is put in front of it.
LEMMA PutInFront ==
  ASSUME NEW S, NEW l \in Seq(S), IsInjective(l), NEW n \in S, n \notin ToSet(l)
  PROVE  LET m == <<n>> \o l IN
         m \in Seq(S) /\ IsInjective(m) /\ ToSet(l) \subseteq ToSet(m) /\ n \in ToSet(m)
<1> DEFINE one == <<n>>
           m == one \o l
<1>1. Len(l) \in Nat /\ DOMAIN l = 1..Len(l)
  BY LenProperties
<1>2. one \in Seq(S) /\ Len(one) = 1 /\ one[1] = n
  OBVIOUS
<1> HIDE DEF one
<1>3. /\ m \in Seq(S)
      /\ Len(m) = Len(one) + Len(l)
      /\ \A j \in 1..(Len(one) + Len(l)) :
             m[j] = IF j <= Len(one) THEN one[j] ELSE l[j - Len(one)]
  BY <1>2, ConcatProperties
<1> HIDE DEF m
<1>4. /\ DOMAIN m = 1..(Len(l) + 1)
      /\ m[1] = n
      /\ \A j \in 1..Len(l) : m[j + 1] = l[j]
  BY <1>1, <1>2, <1>3, LenProperties
<1>5. \A i \in 1..Len(l) : l[i] # n
  BY <1>1 DEF ToSet
<1>6. IsInjective(m)
  <2> SUFFICES ASSUME NEW i \in 1..(Len(l)+1), NEW j \in 1..(Len(l)+1), m[i] = m[j]
               PROVE  i = j
    BY <1>4 DEF IsInjective
  <2>1. \A a, b \in 1..Len(l) : l[a] = l[b] => a = b
    BY <1>1 DEF IsInjective
  <2>2. \A a \in 1..(Len(l)+1) : a = 1 \/ (a - 1 \in 1..Len(l) /\ m[a] = l[a - 1])
    BY <1>1, <1>4
  <2>3. CASE i = 1 \/ j = 1
    BY <1>1, <1>4, <1>5, <2>2, <2>3
  <2>4. CASE i # 1 /\ j # 1
    BY <1>1, <2>1, <2>2, <2>4
  <2> QED BY <2>3, <2>4
<1>7. ToSet(l) \subseteq ToSet(m)
  <2> SUFFICES ASSUME NEW i \in 1..Len(l) PROVE l[i] \in ToSet(m)
    BY <1>1 DEF ToSet
  <2>1. i + 1 \in DOMAIN m /\ m[i + 1] = l[i]
    BY <1>1, <1>4
  <2> QED BY <2>1 DEF ToSet
<1>8. n \in ToSet(m)
  <2>1. 1 \in DOMAIN m
    BY <1>1, <1>4
  <2> QED BY <1>4, <2>1 DEF ToSet
<1> QED BY <1>3, <1>6, <1>7, <1>8 DEF m, one

\* A connection is opened, on a number that no thread has.
LEMMA ConnectStep ==
  ASSUME IInv, NEW p \in Process, Connect(p)
  PROVE  IInv'
<1>1. PICK s \in Socket :
        /\ thread[s] = None
        /\ thread' = [thread EXCEPT ![s] = [process |-> p, pc |-> "add", request |-> None,
                                           target |-> None, error |-> FALSE]]
        /\ process' = [process EXCEPT ![p].socket = s]
  BY DEF Connect
<1> DEFINE t == [process |-> p, pc |-> "add", request |-> None, target |-> None, error |-> FALSE]
           q == [process[p] EXCEPT !.socket = s]
<1>2. t \in Thread /\ t.pc = "add" /\ t.error = FALSE
  BY DEF Thread
<1> HIDE DEF t
<1>3. /\ thread' \in [Socket -> Thread \cup {None}] /\ thread'[s] = t
      /\ \A x \in Socket \ {s} : thread'[x] = thread[x]
  BY <1>1, <1>2, ThreadType DEF IInv, Typed, t
<1>4. process' \in Processes /\ \A r \in Process \ {p} : process'[r] = process[r]
  <2>1. q \in [socket : Socket \cup {None}, config : {"no", "yes", "garbled"}, keys : SUBSET Key]
    <3>1. process[p] \in [socket : Socket \cup {None}, config : {"no", "yes", "garbled"},
                          keys : SUBSET Key]
      BY DEF IInv, Typed, TypeOK
    <3> QED BY <3>1
  <2>2. process' = [process EXCEPT ![p] = q]
    BY <1>1
  <2> HIDE DEF q
  <2> QED BY <2>1, <2>2 DEF IInv, Typed, TypeOK, Processes
<1>5. process'[p].socket = s
  BY <1>1 DEF IInv, Typed, TypeOK
<1>6. UNCHANGED <<distribution, list, fd, requests, table, esi, owner, disk, kills>>
  BY DEF Connect
<1>7. Typed'
  BY <1>2, <1>3, <1>4, <1>6 DEF IInv, Typed, TypeOK, RequestsAtHand, Processes, Serving
<1>8. Connected'
  <2>1. ASSUME NEW x \in Socket, x # s, thread[x] # None,
               fd[InstanceOf(x)] = x => Peer(x) = None
        PROVE  fd'[InstanceOf(x)'] = x => Peer(x)' = None
    <3>1. InstanceOf(x)' = InstanceOf(x)
      BY <1>3, <2>1 DEF InstanceOf
    <3>2. thread[x].process \in Process /\ x # None
      BY <2>1, ThreadChanges, ConstantsAssumption DEF IInv, Typed, Socket
    <3>3. Peer(x) = None => Peer(x)' = None
      BY <1>3, <1>4, <1>5, <2>1, <3>2, ConstantsAssumption DEF Peer, Socket
    <3> QED BY <1>6, <2>1, <3>1, <3>3
  <2>2. \A n \in Name : fd'[n] # DISCONNECTED => n \in ToSet(list')
    BY <1>6 DEF IInv, Connected
  <2>3. ASSUME NEW x \in Socket, x # s
        PROVE  /\ At(x, "test")' => InstanceOf(x)' \in ToSet(list')
               /\ At(x, "check")' => thread'[x].error
               /\ thread'[x] # None /\ thread'[x].error =>
                      /\ thread'[x].pc \notin {"add", "test", "confirm"}
                      /\ fd'[InstanceOf(x)'] = x => Peer(x)' = None
    BY <1>3, <1>6, <2>1, <2>3 DEF IInv, Connected, At, InstanceOf
  <2>4. ~At(s, "test")' /\ ~At(s, "check")' /\ ~thread'[s].error
    BY <1>2, <1>3 DEF At
  <2> QED BY <2>2, <2>3, <2>4 DEF Connected
<1> QED BY <1>7, <1>8 DEF IInv

\* A thread gives its instance its own socket, and has not failed yet.
LEMMA AddStep ==
  ASSUME IInv, NEW s \in Socket, Add(s) \/ TestFails(s)
  PROVE  /\ IInv'
         /\ InstanceOf(s) \in Name
         /\ At(s, "add") \/ At(s, "test")
         /\ fd' = [fd EXCEPT ![InstanceOf(s)] = s]
         /\ fd[InstanceOf(s)] # DISCONNECTED => Peer(fd[InstanceOf(s)]) = None
<1> DEFINE n == InstanceOf(s)
<1>1. /\ At(s, "add") \/ At(s, "test")
      /\ thread[s] # None /\ n \in Name /\ ~thread[s].error
  BY ThreadChanges DEF Add, TestFails, At, IInv, Typed, Connected
<1>2. /\ thread' \in [Socket -> Thread \cup {None}]
      /\ \A r \in Socket \ {s} : thread'[r] = thread[r]
      /\ thread'[s] \in Thread
      /\ thread'[s].pc = "confirm"
      /\ thread'[s].process = thread[s].process
      /\ thread'[s].error = thread[s].error
  BY GotoType DEF Add, TestFails, IInv, Typed
<1>3. fd' = [fd EXCEPT ![n] = s]
  BY DEF Add, TestFails
<1>4. fd' \in [Name -> Socket \cup {DISCONNECTED}]
  BY <1>1, <1>3 DEF IInv, Typed, TypeOK
<1>5. fd[n] # DISCONNECTED => n \in ToSet(list) /\ Peer(fd[n]) = None
  BY <1>1 DEF Add, TestFails, IInv, Connected
<1>6. list' \in Seq(Name) /\ IsInjective(list') /\ ToSet(list) \subseteq ToSet(list')
      /\ n \in ToSet(list')
  <2>1. list \in Seq(Name) /\ IsInjective(list)
    BY DEF IInv, Typed, TypeOK
  <2>2. CASE list' = list /\ n \in ToSet(list)
    BY <2>1, <2>2
  <2>3. CASE list' = <<n>> \o list /\ n \notin ToSet(list)
    BY <1>1, <2>1, <2>3, PutInFront
  <2>4. CASE Add(s)
    BY <2>2, <2>3, <2>4 DEF Add
  <2>5. CASE TestFails(s)
    BY <2>2, <2>5 DEF TestFails, IInv, Connected
  <2> QED BY <2>4, <2>5
<1>7. UNCHANGED <<distribution, requests, table, process, esi, owner, disk, kills>>
  BY DEF Add, TestFails
<1>8. Typed'
  BY <1>2, <1>4, <1>6, <1>7, NoneAssumption DEF IInv, Typed, TypeOK, RequestsAtHand, Serving
<1>9. Connected'
  <2>1. \A m \in Name : fd'[m] # DISCONNECTED => m \in ToSet(list')
    BY <1>1, <1>3, <1>6 DEF IInv, Connected, Typed, TypeOK
  <2>2. ASSUME NEW x \in Socket
        PROVE  /\ At(x, "test")' => InstanceOf(x)' \in ToSet(list')
               /\ At(x, "check")' => thread'[x].error
               /\ thread'[x] # None /\ thread'[x].error =>
                      /\ thread'[x].pc \notin {"add", "test", "confirm"}
                      /\ fd'[InstanceOf(x)'] = x => Peer(x)' = None
    <3>1. CASE x = s
      BY <1>1, <1>2, <3>1 DEF At
    <3>2. CASE x # s
      <4>1. thread'[x] = thread[x] /\ InstanceOf(x)' = InstanceOf(x)
        BY <1>2, <3>2 DEF InstanceOf
      <4>2. fd'[InstanceOf(x)] = x => fd[InstanceOf(x)] = x
        BY <1>1, <1>3, <3>2 DEF IInv, Typed, TypeOK
      <4>3. Peer(x)' = Peer(x)
        BY <1>7, <4>1 DEF Peer
      <4> QED BY <1>6, <4>1, <4>2, <4>3 DEF IInv, Connected, At
    <3> QED BY <3>1, <3>2
  <2> QED BY <2>1, <2>2 DEF Connected
<1> QED BY <1>1, <1>3, <1>5, <1>8, <1>9 DEF IInv

\* A thread returns with its socket number left in the list, or a socket is given up.
LEMMA ReturnStep ==
  ASSUME IInv, NEW s \in Socket, ConfirmFails(s) \/ Check(s)
  PROVE  IInv'
<1>1. thread[s] # None /\ InstanceOf(s) \in Name
  BY ThreadChanges DEF ConfirmFails, Check, At, IInv, Typed
<1>2. /\ thread' \in [Socket -> Thread \cup {None}]
      /\ \A r \in Socket \ {s} : thread'[r] = thread[r]
      /\ thread'[s] = None
  BY ReturnType DEF ConfirmFails, Check, IInv, Typed
<1>3. /\ fd' \in [Name -> Socket \cup {DISCONNECTED}]
      /\ \A n \in Name : fd'[n] \in {fd[n], DISCONNECTED}
  BY <1>1 DEF ConfirmFails, Check, IInv, Typed, TypeOK
<1>4. UNCHANGED <<distribution, list, requests, table, process, esi, owner, disk, kills>>
  BY DEF ConfirmFails, Check
<1>5. Typed'
  BY <1>2, <1>3, <1>4 DEF IInv, Typed, TypeOK, RequestsAtHand
<1>6. Connected'
  <2>1. \A m \in Name : fd'[m] # DISCONNECTED => m \in ToSet(list')
    BY <1>3, <1>4 DEF IInv, Connected
  <2>2. ASSUME NEW x \in Socket
        PROVE  /\ At(x, "test")' => InstanceOf(x)' \in ToSet(list')
               /\ At(x, "check")' => thread'[x].error
               /\ thread'[x] # None /\ thread'[x].error =>
                      /\ thread'[x].pc \notin {"add", "test", "confirm"}
                      /\ fd'[InstanceOf(x)'] = x => Peer(x)' = None
    <3>1. CASE x = s
      BY <1>2, <3>1 DEF At
    <3>2. CASE x # s /\ thread[x] # None
      <4>1. thread'[x] = thread[x] /\ InstanceOf(x)' = InstanceOf(x) /\ InstanceOf(x) \in Name
        BY <1>2, <3>2, ThreadChanges DEF InstanceOf, IInv, Typed
      <4>2. fd'[InstanceOf(x)] = x => fd[InstanceOf(x)] = x
        BY <1>3, <4>1, ConstantsAssumption DEF Socket
      <4>3. Peer(x)' = Peer(x)
        BY <1>4, <4>1 DEF Peer
      <4> QED BY <1>4, <4>1, <4>2, <4>3 DEF IInv, Connected, At
    <3>3. CASE x # s /\ thread[x] = None
      BY <1>2, <3>3 DEF At
    <3> QED BY <3>1, <3>2, <3>3
  <2> QED BY <2>1, <2>2 DEF Connected
<1> QED BY <1>5, <1>6 DEF IInv

-----------------------------------------------------------------------------
(* Every step *)

\* A step carries on, or it connects, gives an instance a socket or returns.
LEMMA StepsSplit ==
  ASSUME IInv, Next
  PROVE  \/ Typed' /\ CarriesOn
         \/ \E p \in Process : Connect(p)
         \/ \E s \in Socket : Add(s) \/ TestFails(s) \/ ConfirmFails(s) \/ Check(s)
<1> DEFINE Goal == \/ Typed' /\ CarriesOn
                   \/ \E p \in Process : Connect(p)
                   \/ \E s \in Socket : Add(s) \/ TestFails(s) \/ ConfirmFails(s) \/ Check(s)
<1>1. ASSUME NEW e \in Esi, NEW k \in Key, Get(e, k) PROVE Goal
  BY <1>1, GetType DEF IInv
<1>2. ASSUME NEW e \in Esi, NEW k \in Key, NEW op \in {"SET", "STORE"},
             NEW n \in Name \cup {None}, Sentence(e, op, k, n)
      PROVE  Goal
  BY <1>2, SentenceType DEF IInv
<1>3. ASSUME NEW e \in Esi, PushSentence(e) PROVE Goal
  BY <1>3, PushSentenceType DEF IInv
<1>4. ASSUME NEW s \in Socket, InstanceStep(s) PROVE Goal
  <2>1. CASE Add(s) \/ TestFails(s) \/ ConfirmFails(s) \/ Check(s)
    BY <2>1
  <2>2. CASE Test(s)
    <3>1. ~thread[s].error
      BY <2>2 DEF Test, At, IInv, Connected
    <3> QED BY <2>2, <3>1, TestType DEF IInv
  <2>3. CASE Refuse(s) \/ Confirm(s) \/ Pop(s) \/ NoAnswer(s) \/ Fails(s)
    BY <2>3, RefuseType, ConfirmType, PopType, NoAnswerType, FailsType DEF IInv
  <2>4. CASE SetServed(s) \/ Compact(s) \/ SetFailed(s) \/ PushFailedSet(s)
    BY <2>4, SetServedType, CompactType, SetFailedType, PushFailedSetType DEF IInv
  <2>5. CASE \E n \in Name \cup {None} : DispatchFailedSet(s, n)
    BY <2>5, DispatchFailedSetType DEF IInv
  <2>6. CASE StoreRefused(s) \/ StoreServed(s) \/ StoreFailed(s)
    BY <2>6, StoreOverType, StoreServedType DEF IInv
  <2> QED BY <1>4, <2>1, <2>2, <2>3, <2>4, <2>5, <2>6 DEF InstanceStep
<1>5. ASSUME NEW p \in Process, Connect(p) \/ EndOfFile(p) \/ Kill(p) PROVE Goal
  BY <1>5, ProcessEnds DEF IInv
<1>6. ASSUME NEW p \in Process, NEW k \in Key, Replace(p, k) PROVE Goal
  BY <1>6, ReplaceType DEF IInv
<1> HIDE DEF Goal
<1>7. Goal
  BY <1>1, <1>2, <1>3, <1>4, <1>5, <1>6 DEF Next
<1> QED BY <1>7 DEF Goal

\* Every step preserves both parts.
LEMMA StepIInv == IInv /\ [Next]_vars => IInv'
<1> SUFFICES ASSUME IInv, [Next]_vars PROVE IInv'
  OBVIOUS
<1>1. CASE Typed' /\ CarriesOn
  BY <1>1, ConnectedStays DEF IInv
<1>2. CASE UNCHANGED vars
  BY <1>2 DEF vars, IInv, Typed, TypeOK, RequestsAtHand, Connected, At, InstanceOf, Peer
<1>3. CASE Next
  BY <1>1, <1>3, StepsSplit, ConnectStep, AddStep, ReturnStep
<1> QED BY <1>2, <1>3

\* And so they hold throughout.
LEMMA InvariantHolds == Spec => []IInv
<1>1. Init => IInv
  BY TypeInit, ConnectedInit DEF IInv
<1> QED BY <1>1, StepIInv, PTL DEF Spec

-----------------------------------------------------------------------------
(* The theorems *)

\* The coordinator's tables keep their types, and no instance is in its list twice.
THEOREM CoordinatorTypes == Spec => []TypeOK
<1>1. IInv => TypeOK
  BY DEF IInv, Typed
<1> QED BY <1>1, InvariantHolds, PTL

\* A step changes the socket number of an instance only if what is sent to it reaches nobody.
LEMMA ConnectionStays ==
  ASSUME IInv, Next, NEW n \in Name, fd[n] # DISCONNECTED, fd'[n] # fd[n]
  PROVE  Peer(fd[n]) = None
<1>1. CASE \E s \in Socket : Add(s) \/ TestFails(s)
  <2>1. PICK s \in Socket : Add(s) \/ TestFails(s)
    BY <1>1
  <2>2. /\ fd' = [fd EXCEPT ![InstanceOf(s)] = s]
        /\ fd[InstanceOf(s)] # DISCONNECTED => Peer(fd[InstanceOf(s)]) = None
    BY <2>1, AddStep
  <2>3. n = InstanceOf(s)
    BY <2>2 DEF IInv, Typed, TypeOK
  <2> QED BY <2>2, <2>3
<1>2. CASE \E s \in Socket : Check(s)
  <2>1. PICK s \in Socket : Check(s)
    BY <1>2
  <2>2. thread[s] # None /\ thread[s].error
    BY <2>1 DEF Check, At, IInv, Connected
  <2>3. n = InstanceOf(s) /\ fd[n] = s
    BY <2>1 DEF Check, IInv, Typed, TypeOK
  <2> QED BY <2>2, <2>3 DEF IInv, Connected
<1>3. CASE CarriesOn
  BY <1>3 DEF CarriesOn
<1>4. CASE \E p \in Process : Connect(p)
  BY <1>4 DEF Connect
<1>5. CASE \E s \in Socket : ConfirmFails(s)
  BY <1>5 DEF ConfirmFails
<1> QED BY <1>1, <1>2, <1>3, <1>4, <1>5, StepsSplit

\* The connection of an instance that runs is neither replaced nor given up: neither by
\* a process that comes with its name, nor by the late error of an older thread.
THEOREM ConnectionsKept == Spec => NotDisplaced
<1>1. IInv /\ [Next]_vars => [\A n \in Name :
          fd[n] # DISCONNECTED /\ fd'[n] # fd[n] => Peer(fd[n]) = None]_vars
  BY ConnectionStays
<1> QED BY <1>1, InvariantHolds, PTL DEF Spec, NotDisplaced

\* A step that is not a failed confirmation leaves every instance with a socket of its own.
LEMMA OwnSocketStep ==
  ASSUME IInv, OwnSocket, [Next]_vars, \A s \in Socket : ~ConfirmFails(s)
  PROVE  OwnSocket'
<1> SUFFICES ASSUME NEW n \in Name, fd'[n] # DISCONNECTED
             PROVE  /\ thread'[fd'[n]] # None /\ NameOf[thread'[fd'[n]].process] = n
                    /\ thread'[fd'[n]].pc # "add"
  BY DEF OwnSocket, At, InstanceOf
<1>0. fd[n] \in Socket \cup {DISCONNECTED} /\ DISCONNECTED \notin Socket
  BY ConstantsAssumption DEF IInv, Typed, TypeOK, Socket
<1> DEFINE Good == /\ fd[n] # DISCONNECTED
                   /\ thread[fd[n]] # None /\ InstanceOf(fd[n]) = n /\ ~At(fd[n], "add")
<1>1. fd[n] # DISCONNECTED => Good
  BY DEF OwnSocket
<1>2. CASE CarriesOn
  <2>1. fd' = fd /\ Good /\ fd[n] \in Socket
    BY <1>0, <1>1, <1>2 DEF CarriesOn
  <2>2. GoesOn(fd[n])
    BY <1>2, <2>1 DEF CarriesOn
  <2> QED BY <2>1, <2>2 DEF GoesOn, At, InstanceOf
<1>3. CASE \E p \in Process : Connect(p)
  <2>1. fd' = fd /\ \E s \in Socket : thread[s] = None /\ \A r \in Socket \ {s} : thread'[r] = thread[r]
    BY <1>3 DEF Connect, IInv, Typed, TypeOK
  <2> QED BY <1>0, <1>1, <2>1 DEF At, InstanceOf
<1>4. CASE \E s \in Socket : Add(s) \/ TestFails(s)
  <2>1. PICK s \in Socket : Add(s) \/ TestFails(s)
    BY <1>4
  <2>2. thread'[s] # None /\ thread'[s].pc = "confirm" /\ InstanceOf(s)' = InstanceOf(s)
        /\ thread'[s].process = thread[s].process
        /\ \A r \in Socket \ {s} : thread'[r] = thread[r]
    BY <2>1, GotoType, NoneAssumption DEF Add, TestFails, IInv, Typed, InstanceOf
  <2>3. fd'[n] = IF n = InstanceOf(s) THEN s ELSE fd[n]
    BY <2>1 DEF Add, TestFails, IInv, Typed, TypeOK
  <2>4. CASE n = InstanceOf(s)
    BY <2>2, <2>3, <2>4 DEF InstanceOf
  <2>5. CASE n # InstanceOf(s)
    <3>1. fd[n] # s /\ fd'[n] = fd[n] /\ Good /\ fd[n] \in Socket
      BY <1>0, <1>1, <2>3, <2>5
    <3> QED BY <2>2, <3>1 DEF At, InstanceOf
  <2> QED BY <2>4, <2>5
<1>5. CASE \E s \in Socket : Check(s)
  <2>1. PICK s \in Socket : Check(s)
    BY <1>5
  <2>2. fd'[n] = IF n = InstanceOf(s) /\ fd[n] = s THEN DISCONNECTED ELSE fd[n]
    BY <2>1 DEF Check, IInv, Typed, TypeOK
  <2>3. \A r \in Socket \ {s} : thread'[r] = thread[r]
    BY <2>1, ReturnType DEF Check, IInv, Typed
  <2>4. fd'[n] = fd[n] /\ fd[n] # s /\ Good /\ fd[n] \in Socket
    BY <1>0, <1>1, <2>2
  <2> QED BY <2>3, <2>4 DEF At, InstanceOf
<1>6. CASE UNCHANGED vars
  BY <1>0, <1>1, <1>6 DEF vars, At, InstanceOf
<1> QED BY <1>2, <1>3, <1>4, <1>5, <1>6, StepsSplit

\* Only a confirmation that cannot be sent leaves a number in the list that is not the
\* instance's own.
THEOREM OnlyByConfirmation == Spec => LostByConfirmation
<1>1. IInv /\ [Next]_vars =>
        [OwnSocket /\ ~OwnSocket' => \E s \in Socket : ConfirmFails(s)]_vars
  BY OwnSocketStep
<1> QED BY <1>1, InvariantHolds, PTL DEF Spec, LostByConfirmation

\* Without such failures there is none at all.
THEOREM NumbersAreOwn ==
  ASSUME "confirm" \notin Failures
  PROVE  Spec => []OwnSocket
<1>1. Init => OwnSocket
  BY DEF Init, OwnSocket
<1>2. IInv /\ OwnSocket /\ [Next]_vars => OwnSocket'
  BY OwnSocketStep DEF ConfirmFails
<1> QED BY <1>1, <1>2, InvariantHolds, PTL DEF Spec

=============================================================================
