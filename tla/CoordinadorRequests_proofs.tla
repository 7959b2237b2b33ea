--------------------- MODULE CoordinadorRequests_proofs ---------------------
(***************************************************************************)
(* Where the coordinator's requests are, for any instances, keys, ESIs,    *)
(* distributions and failures.  The scheduler orders one sentence at a     *)
(* time, so there is one request at most: in one queue, with nobody else   *)
(* in it, or with one thread that serves it (Alone).  From that follow     *)
(* that requests are neither lost nor doubled, and that a SET is not tried *)
(* again on an instance it failed on; then that a request goes to where    *)
(* the table has its key (Routed), and, from that, what an instance that   *)
(* is started again recovers (Recovered).                                  *)
(***************************************************************************)
EXTENDS Coordinador_proofs

-----------------------------------------------------------------------------
(* The invariants *)

Held(s) == thread[s] # None /\ thread[s].request # None

OnlyWaits(e) == \A f \in Esi : esi[f].pc = IF f = e THEN "waiting" ELSE "idle"

Nowhere ==
    /\ \A n \in Name : requests[n] = <<>>
    /\ \A s \in Socket : ~Held(s)
    /\ \A e \in Esi : esi[e].pc # "waiting"
    /\ \A e, f \in Esi : esi[e].pc # "idle" /\ esi[f].pc # "idle" => e = f

InQueue(n) ==
    /\ \E r \in Request : requests[n] = <<r>> /\ OnlyWaits(r.esi)
    /\ \A m \in Name \ {n} : requests[m] = <<>>
    /\ \A s \in Socket : ~Held(s)

WithThread(s) ==
    /\ Held(s) /\ thread[s].pc \in Serving /\ OnlyWaits(thread[s].request.esi)
    /\ \A n \in Name : requests[n] = <<>>
    /\ \A r \in Socket \ {s} : ~Held(r)

Alone ==
    \/ Nowhere
    \/ \E n \in Name : InQueue(n)
    \/ \E s \in Socket : WithThread(s)

\* A SET that failed is in no table while another instance is looked for, nor goes to
\* one that it failed on; a sentence starts without failures, as a request of its ESI.
LooksElsewhere ==
    /\ TriedOnce
    /\ \A s \in Socket :
        /\ At(s, "redispatch") => InstanceFor(thread[s].request.key) = None
        /\ At(s, "push") => thread[s].target \notin thread[s].request.excluded
    /\ \A e \in Esi : esi[e].pc = "push" =>
           esi[e].request.esi = e /\ esi[e].request.excluded = {}

-----------------------------------------------------------------------------
(* Steps that leave the requests where they are *)

\* A thread that serves holds its request.
LEMMA ServingHeld ==
  ASSUME Typed, NEW s \in Socket, thread[s] # None, thread[s].pc \in Serving
  PROVE  Held(s)
BY NoneAssumption DEF Typed, RequestsAtHand, Held

\* One that holds a request is the only one, and serves.
LEMMA HolderServes ==
  ASSUME Alone, NEW s \in Socket, Held(s)
  PROVE  WithThread(s)
BY DEF Alone, Nowhere, InQueue, WithThread

Undisturbed ==
    /\ UNCHANGED <<requests, esi>>
    /\ \A s \in Socket : thread'[s] = thread[s] \/ (~Held(s) /\ ~Held(s)')

\* Threads without a request change nothing about those that there are.
LEMMA UndisturbedAlone ==
  ASSUME Alone, Undisturbed
  PROVE  Alone'
<1>1. \A s \in Socket : Held(s)' <=> Held(s)
  BY DEF Undisturbed, Held
<1>2. CASE Nowhere
  BY <1>1, <1>2 DEF Alone, Undisturbed, Nowhere
<1>3. ASSUME NEW n \in Name, InQueue(n) PROVE Alone'
  BY <1>1, <1>3 DEF Alone, Undisturbed, InQueue, OnlyWaits
<1>4. ASSUME NEW s \in Socket, WithThread(s) PROVE Alone'
  <2>1. thread'[s] = thread[s]
    BY <1>4 DEF Undisturbed, WithThread
  <2> QED BY <1>1, <1>4, <2>1 DEF Alone, Undisturbed, WithThread, OnlyWaits
<1> QED BY <1>2, <1>3, <1>4 DEF Alone

\* Nor about where they may go, if no key moves while one of them looks for an instance.
LEMMA UndisturbedLooks ==
  ASSUME Typed, Typed', LooksElsewhere, Undisturbed, table' = table \/ \A s \in Socket : ~Held(s)
  PROVE  LooksElsewhere'
<1>1. \A n \in Name : \A i \in DOMAIN requests'[n] : n \notin requests'[n][i].excluded
  BY DEF LooksElsewhere, TriedOnce, Undisturbed
<1>2. ASSUME NEW s \in Socket, thread'[s] # None, thread'[s].pc \in Serving
      PROVE  thread'[s] = thread[s] /\ Held(s)
  <2>1. thread'[s].request # None
    BY <1>2, NoneAssumption DEF Typed, RequestsAtHand
  <2> QED BY <1>2, <2>1 DEF Undisturbed, Held
<1>3. ASSUME NEW s \in Socket
      PROVE  /\ At(s, "serve")' => InstanceOf(s)' \notin thread'[s].request.excluded
             /\ At(s, "redispatch")' => InstanceFor(thread[s].request.key)' = None
             /\ At(s, "push")' => thread'[s].target \notin thread'[s].request.excluded
  BY <1>2 DEF LooksElsewhere, TriedOnce, At, InstanceOf, InstanceFor, Serving
<1>4. \A e \in Esi : esi'[e].pc = "push" =>
           esi'[e].request.esi = e /\ esi'[e].request.excluded = {}
  BY DEF LooksElsewhere, Undisturbed
<1> QED BY <1>1, <1>3, <1>4 DEF LooksElsewhere, TriedOnce, At

-----------------------------------------------------------------------------
(* Steps of the thread that holds the request *)

\* It goes on with it.
LEMMA HolderMoves ==
  ASSUME Alone, NEW s \in Socket, Held(s), UNCHANGED <<requests, esi>>,
         \A r \in Socket \ {s} : thread'[r] = thread[r],
         thread'[s] # None, thread'[s].pc \in Serving, thread'[s].request # None,
         thread'[s].request.esi = thread[s].request.esi
  PROVE  Alone'
<1>1. WithThread(s)
  BY HolderServes
<1>2. WithThread(s)'
  BY <1>1 DEF WithThread, Held, OnlyWaits
<1> QED BY <1>2 DEF Alone

\* Nothing but its own request can go where it may not.
LEMMA HolderLooks ==
  ASSUME Typed, Alone, LooksElsewhere, NEW s \in Socket, Held(s), UNCHANGED <<requests, esi>>,
         \A r \in Socket \ {s} : thread'[r] = thread[r],
         thread'[s] # None, thread'[s].pc # "serve",
         thread'[s].pc = "redispatch" => table'[thread'[s].request.key] = None,
         thread'[s].pc = "push" => thread'[s].target \notin thread'[s].request.excluded
  PROVE  LooksElsewhere'
<1>1. \A r \in Socket \ {s} : thread'[r] = thread[r] /\ (thread[r] = None \/ thread[r].pc \notin Serving)
  BY HolderServes, ServingHeld DEF WithThread
<1>2. ASSUME NEW r \in Socket
      PROVE  /\ At(r, "serve")' => InstanceOf(r)' \notin thread'[r].request.excluded
             /\ At(r, "redispatch")' => InstanceFor(thread[r].request.key)' = None
             /\ At(r, "push")' => thread'[r].target \notin thread'[r].request.excluded
  <2>1. CASE r = s
    BY <2>1 DEF At, InstanceFor
  <2>2. CASE r # s
    BY <1>1, <2>2 DEF At, Serving
  <2> QED BY <2>1, <2>2
<1>3. \A n \in Name : \A i \in DOMAIN requests'[n] : n \notin requests'[n][i].excluded
  BY DEF LooksElsewhere, TriedOnce
<1>4. \A e \in Esi : esi'[e].pc = "push" =>
           esi'[e].request.esi = e /\ esi'[e].request.excluded = {}
  BY DEF LooksElsewhere
<1> QED BY <1>2, <1>3, <1>4 DEF LooksElsewhere, TriedOnce, At

\* It has been answered.
LEMMA HolderAnswers ==
  ASSUME Typed, Alone, NEW s \in Socket, thread[s] # None, thread[s].pc \in Serving,
         UNCHANGED requests, Over(s),
         Illegal(thread[s].request.esi) \/ Success(thread[s].request.esi)
  PROVE  Alone' /\ LooksElsewhere'
<1>1. WithThread(s)
  BY ServingHeld, HolderServes
<1>2. thread[s].request.esi \in Esi
  BY ServingType
<1>3. esi' = [esi EXCEPT ![thread[s].request.esi] = Idle]
  BY DEF Illegal, Success
<1>4. \A e \in Esi : esi'[e].pc = "idle"
  BY <1>1, <1>2, <1>3 DEF Typed, TypeOK, WithThread, OnlyWaits, Idle
<1>5. /\ \A r \in Socket : ~Held(r)'
      /\ \A r \in Socket : thread'[r] = None \/ thread'[r].pc \notin Serving
  <2>1. /\ \A r \in Socket \ {s} : thread'[r] = thread[r]
        /\ thread'[s] \in Thread /\ thread'[s].pc \in {"check", "pop"}
        /\ thread'[s].request = None
    BY OverType DEF Typed
  <2>2. \A r \in Socket \ {s} : thread[r] = None \/ thread[r].pc \notin Serving
    BY <1>1, ServingHeld DEF WithThread
  <2> QED BY <1>1, <2>1, <2>2 DEF WithThread, Held, Serving
<1>6. \A n \in Name : requests'[n] = <<>>
  BY <1>1 DEF WithThread
<1>7. Nowhere'
  BY <1>4, <1>5, <1>6 DEF Nowhere
<1>8. LooksElsewhere'
  BY <1>4, <1>5, <1>6 DEF LooksElsewhere, TriedOnce, At, Serving
<1> QED BY <1>7, <1>8 DEF Alone

\* A thread at a line serves there or not.
LEMMA ServesAt ==
  ASSUME NEW s, NEW pc, At(s, pc)
  PROVE  /\ thread[s] # None
         /\ pc \in Serving => thread[s].pc \in Serving
BY DEF At

\* It goes to another line with the request as it is.
LEMMA HolderGoesOn ==
  ASSUME Typed, Alone, LooksElsewhere, NEW s \in Socket, NEW from \in Serving, At(s, from),
         NEW pc \in {"wait", "failed", "compact"}, UNCHANGED <<requests, esi>>,
         Goto(s, pc)
  PROVE  Alone' /\ LooksElsewhere'
<1>1. thread[s] # None /\ thread[s].pc \in Serving /\ Held(s)
  BY ServesAt, ServingHeld
<1>2. /\ \A r \in Socket \ {s} : thread'[r] = thread[r]
      /\ thread'[s] \in Thread /\ thread'[s].pc = pc
      /\ thread'[s].request = thread[s].request
  BY GotoType DEF Typed
<1>3. thread'[s] # None /\ thread'[s].pc \in Serving /\ thread'[s].request # None
  BY <1>1, <1>2, NoneAssumption DEF Held, Serving
<1> QED BY <1>1, <1>2, <1>3, HolderMoves, HolderLooks

-----------------------------------------------------------------------------
(* Threads that have no request *)

\* A thread outside its loop's body disturbs nothing.
LEMMA IdleUndisturbed ==
  ASSUME Typed, Alone, NEW s \in Socket,
         Add(s) \/ Refuse(s) \/ Test(s) \/ TestFails(s) \/ Confirm(s) \/ ConfirmFails(s) \/ Check(s)
  PROVE  Undisturbed /\ table' = table
<1>1. thread[s] # None /\ thread[s].pc \in {"add", "test", "confirm", "check"}
  BY DEF Add, Refuse, Test, TestFails, Confirm, ConfirmFails, Check, At
<1>2. ~Held(s)
  BY <1>1, HolderServes DEF WithThread, Serving
<1>3. UNCHANGED <<requests, esi, table>>
  BY DEF Add, Refuse, Test, TestFails, Confirm, ConfirmFails, Check
<1>4. /\ \A r \in Socket \ {s} : thread'[r] = thread[r]
      /\ ~Held(s)'
  <2>1. CASE \E pc \in {"test", "confirm", "pop"} : Goto(s, pc)
    <3>1. PICK pc \in {"test", "confirm", "pop"} : Goto(s, pc)
      BY <2>1
    <3>2. At(s, thread[s].pc)
      BY <1>1 DEF At
    <3>3. /\ \A r \in Socket \ {s} : thread'[r] = thread[r]
          /\ thread'[s].request = thread[s].request
      BY <3>1, <3>2, GotoType DEF Typed
    <3> QED BY <1>1, <1>2, <3>3 DEF Held
  <2>2. CASE Return(s)
    BY <2>2, ReturnType DEF Typed, Held
  <2> QED BY <2>1, <2>2 DEF Add, Refuse, Test, TestFails, Confirm, ConfirmFails, Check
<1> QED BY <1>2, <1>3, <1>4 DEF Undisturbed

\* So the requests stay where they are, and may go where they might.
LEMMA IdleThreads ==
  ASSUME Typed, Typed', Alone, LooksElsewhere, NEW s \in Socket,
         Add(s) \/ Refuse(s) \/ Test(s) \/ TestFails(s) \/ Confirm(s) \/ ConfirmFails(s) \/ Check(s)
  PROVE  Alone' /\ LooksElsewhere'
BY IdleUndisturbed, UndisturbedAlone, UndisturbedLooks

\* Nor do connections and processes that come and go.
LEMMA ComesUndisturbed ==
  ASSUME Typed, NEW p \in Process,
         Connect(p) \/ EndOfFile(p) \/ Kill(p) \/ \E k \in Key : Replace(p, k)
  PROVE  Undisturbed /\ table' = table
<1>1. UNCHANGED <<requests, esi, table>>
  BY DEF Connect, EndOfFile, Kill, Replace
<1>2. CASE Connect(p)
  <2>1. PICK s \in Socket :
          /\ thread[s] = None
          /\ thread' = [thread EXCEPT ![s] = [process |-> p, pc |-> "add", request |-> None,
                                              target |-> None, error |-> FALSE]]
    BY <1>2 DEF Connect
  <2>2. ~Held(s) /\ ~Held(s)' /\ \A r \in Socket \ {s} : thread'[r] = thread[r]
    BY <2>1 DEF Held, Typed, TypeOK
  <2> QED BY <1>1, <2>2 DEF Undisturbed
<1>3. CASE UNCHANGED thread
  BY <1>1, <1>3 DEF Undisturbed
<1> QED BY <1>2, <1>3 DEF Connect, EndOfFile, Kill, Replace

\* With the same result.
LEMMA ComeAndGo ==
  ASSUME Typed, Typed', Alone, LooksElsewhere, NEW p \in Process,
         Connect(p) \/ EndOfFile(p) \/ Kill(p) \/ \E k \in Key : Replace(p, k)
  PROVE  Alone' /\ LooksElsewhere'
BY ComesUndisturbed, UndisturbedAlone, UndisturbedLooks

-----------------------------------------------------------------------------
(* The sentences of the ESIs *)

\* There is no request while no sentence is in flight, or one is about to be pushed.
LEMMA NothingRequested ==
  ASSUME Typed, Alone, ~InFlight \/ \E e \in Esi : esi[e].pc = "push"
  PROVE  Nowhere
<1>1. ASSUME NEW e \in Esi, OnlyWaits(e) PROVE FALSE
  BY <1>1 DEF OnlyWaits, InFlight
<1>2. ASSUME NEW n \in Name, InQueue(n) PROVE FALSE
  BY <1>1, <1>2 DEF InQueue, Request
<1>3. ASSUME NEW s \in Socket, WithThread(s) PROVE FALSE
  BY <1>1, <1>3, ServingType DEF WithThread, Held
<1> QED BY <1>2, <1>3 DEF Alone

\* A GET, dispatching a sentence and pushing it.
LEMMA Sentences ==
  ASSUME Typed, Typed', Alone, LooksElsewhere, NEW e \in Esi,
         \/ \E k \in Key : Get(e, k)
         \/ \E op \in {"SET", "STORE"}, k \in Key, n \in Name \cup {None} : Sentence(e, op, k, n)
         \/ PushSentence(e)
  PROVE  Alone' /\ LooksElsewhere'
<1>1. Nowhere
  BY NothingRequested DEF Get, Sentence, PushSentence
<1>2. CASE \E k \in Key : Get(e, k)
  <2>1. Undisturbed /\ \A s \in Socket : ~Held(s)
    BY <1>1, <1>2 DEF Get, Undisturbed, Nowhere
  <2> QED BY <2>1, UndisturbedAlone, UndisturbedLooks
<1>3. ASSUME NEW op \in {"SET", "STORE"}, NEW k \in Key, NEW n \in Name \cup {None},
             Sentence(e, op, k, n)
      PROVE  Alone' /\ LooksElsewhere'
  <2>1. /\ UNCHANGED <<requests, thread>>
        /\ \A f \in Esi : esi[f].pc = "idle"
    BY <1>3 DEF Sentence, InFlight
  <2>2. /\ \A f \in Esi \ {e} : esi'[f] = esi[f]
        /\ esi'[e].pc \in {"idle", "push"}
        /\ esi'[e].pc = "push" => esi'[e].request.esi = e /\ esi'[e].request.excluded = {}
    BY <1>3 DEF Sentence, Illegal, Idle, Typed, TypeOK
  <2>3. Nowhere'
    BY <1>1, <2>1, <2>2 DEF Nowhere, Held
  <2>4. \A s \in Socket : thread'[s] = None \/ thread'[s].pc \notin Serving
    BY <1>1, <2>1, ServingHeld DEF Nowhere
  <2>5. LooksElsewhere'
    BY <2>1, <2>2, <2>3, <2>4 DEF LooksElsewhere, TriedOnce, At, Serving, Nowhere
  <2> QED BY <2>3, <2>5 DEF Alone
<1>4. CASE PushSentence(e)
  <2>1. PICK n \in Name, r \in Request :
            /\ n = esi[e].target /\ r = esi[e].request
            /\ r.esi = e /\ r.excluded = {}
    BY <1>4 DEF PushSentence, Typed, RequestsAtHand, LooksElsewhere
  <2>2. /\ requests' = [requests EXCEPT ![n] = Append(requests[n], r)]
        /\ UNCHANGED thread
    BY <1>4, <2>1 DEF PushSentence, Typed, TypeOK
  <2>3. /\ requests[n] = <<>> /\ Append(<<>>, r) = <<r>>
        /\ DOMAIN <<r>> = {1}
    BY <1>1, <2>1 DEF Nowhere
  <2>4. /\ requests'[n] = <<r>>
        /\ \A m \in Name \ {n} : requests'[m] = <<>>
    BY <1>1, <2>1, <2>2, <2>3 DEF Nowhere, Typed, TypeOK
  <2>5. OnlyWaits(r.esi)'
    <3>1. esi' = [esi EXCEPT ![e] = [Idle EXCEPT !.pc = "waiting"]] /\ esi[e].pc = "push"
      BY <1>4 DEF PushSentence
    <3>2. [Idle EXCEPT !.pc = "waiting"].pc = "waiting"
      BY DEF Idle
    <3>3. \A f \in Esi \ {e} : esi[f].pc = "idle"
      BY <1>1, <3>1 DEF Nowhere
    <3>4. \A f \in Esi : esi'[f].pc = IF f = e THEN "waiting" ELSE "idle"
      BY <3>1, <3>2, <3>3 DEF Typed, TypeOK
    <3> QED BY <2>1, <3>4 DEF OnlyWaits
  <2>6. InQueue(n)'
    BY <1>1, <2>1, <2>2, <2>4, <2>5 DEF InQueue, Nowhere, Held
  <2>7. \A s \in Socket : thread'[s] = None \/ thread'[s].pc \notin Serving
    BY <1>1, <2>2, ServingHeld DEF Nowhere
  <2>8. \A m \in Name : \A i \in DOMAIN requests'[m] : m \notin requests'[m][i].excluded
    BY <2>1, <2>3, <2>4
  <2>9. \A f \in Esi : esi'[f].pc # "push"
    BY <2>1, <2>5 DEF OnlyWaits
  <2>10. LooksElsewhere'
    BY <2>7, <2>8, <2>9 DEF LooksElsewhere, TriedOnce, At, Serving
  <2> QED BY <2>1, <2>6, <2>10 DEF Alone
<1> QED BY <1>2, <1>3, <1>4

-----------------------------------------------------------------------------
(* The loop of an instance's thread *)

\* The request of a queue goes to the thread of its instance, or back.
LEMMA PopsOne ==
  ASSUME Typed, Alone, NEW s \in Socket, Pop(s)
  PROVE  \E n \in Name, r \in Request :
            /\ n = InstanceOf(s) /\ requests[n] = <<r>> /\ InQueue(n) /\ OnlyWaits(r.esi)
            /\ UNCHANGED <<esi, table>>
            /\ \/ /\ fd[n] = s /\ requests' = [requests EXCEPT ![n] = <<>>]
                  /\ thread'[s] # None /\ thread'[s].pc = "serve" /\ thread'[s].request = r
                  /\ thread'[s].process = thread[s].process
                  /\ \A x \in Socket \ {s} : thread'[x] = thread[x]
               \/ fd[n] # s /\ Return(s) /\ Undisturbed
<1>1. PICK n \in Name : n = InstanceOf(s) /\ requests[n] # <<>>
  BY ThreadChanges DEF Pop, At, Typed
<1>2. ~Held(s) /\ InQueue(n)
  <2>1. ~Held(s)
    BY HolderServes DEF Pop, At, WithThread, Serving
  <2> QED BY <1>1, <2>1 DEF Alone, Nowhere, InQueue, WithThread
<1>3. PICK r \in Request : requests[n] = <<r>> /\ OnlyWaits(r.esi)
  BY <1>2 DEF InQueue
<1>4. /\ Head(requests[n]) = r /\ Tail(requests[n]) = <<>>
      /\ Append(Tail(requests[n]), r) = <<r>>
  BY <1>3
<1>5. UNCHANGED <<esi, table>>
  BY DEF Pop
<1>6. CASE fd[n] = s
  <2>1. /\ requests' = [requests EXCEPT ![n] = <<>>]
        /\ thread' = [thread EXCEPT ![s].pc = "serve", ![s].request = r]
    BY <1>1, <1>4, <1>6 DEF Pop
  <2>2. thread[s] # None /\ thread[s] \in Thread
    BY ThreadChanges DEF Pop, At, Typed
  <2> DEFINE t == [thread[s] EXCEPT !.pc = "serve", !.request = r]
  <2>3. /\ t \in Thread /\ t.pc = "serve" /\ t.request = r /\ t.process = thread[s].process
        /\ thread' = [thread EXCEPT ![s] = t]
    <3>1. t \in Thread /\ t.pc = "serve" /\ t.request = r /\ t.process = thread[s].process
      BY <2>2 DEF Thread
    <3> QED BY <2>1, <2>2, <3>1 DEF Typed, TypeOK
  <2> HIDE DEF t
  <2>4. /\ \A x \in Socket \ {s} : thread'[x] = thread[x]
        /\ thread'[s].pc = "serve" /\ thread'[s].request = r
        /\ thread'[s].process = thread[s].process
        /\ thread'[s] # None
    BY <2>3, ThreadType, NoneAssumption DEF Typed
  <2> QED BY <1>1, <1>2, <1>3, <1>5, <1>6, <2>1, <2>4
<1>7. CASE fd[n] # s
  <2>1. requests' = [requests EXCEPT ![n] = <<r>>] /\ Return(s)
    BY <1>1, <1>4, <1>7 DEF Pop
  <2>2. requests' = requests
    BY <1>3, <2>1 DEF Typed, TypeOK
  <2>3. Undisturbed
    BY <1>2, <1>5, <2>1, <2>2, ReturnType DEF Undisturbed, Typed, Held
  <2> QED BY <1>1, <1>2, <1>3, <1>5, <1>7, <2>1, <2>3
<1> QED BY <1>6, <1>7

\* There it is alone, and on an instance it did not fail on.
LEMMA Pops ==
  ASSUME Typed, Typed', Alone, LooksElsewhere, NEW s \in Socket, Pop(s)
  PROVE  Alone' /\ LooksElsewhere'
<1>1. PICK n \in Name, r \in Request :
        /\ n = InstanceOf(s) /\ requests[n] = <<r>> /\ InQueue(n) /\ OnlyWaits(r.esi)
        /\ UNCHANGED <<esi, table>>
        /\ \/ /\ fd[n] = s /\ requests' = [requests EXCEPT ![n] = <<>>]
              /\ thread'[s] # None /\ thread'[s].pc = "serve" /\ thread'[s].request = r
              /\ thread'[s].process = thread[s].process
              /\ \A x \in Socket \ {s} : thread'[x] = thread[x]
           \/ fd[n] # s /\ Return(s) /\ Undisturbed
  BY PopsOne
<1>2. CASE Undisturbed
  BY <1>1, <1>2, UndisturbedAlone, UndisturbedLooks
<1>3. CASE ~Undisturbed
  <2>1. \A m \in Name : requests'[m] = <<>>
    BY <1>1, <1>3 DEF InQueue, Typed, TypeOK
  <2>2. Held(s)' /\ \A x \in Socket \ {s} : ~Held(x)'
    BY <1>1, <1>3, NoneAssumption DEF Held, InQueue
  <2>3. WithThread(s)'
    BY <1>1, <1>3, <2>1, <2>2 DEF WithThread, Serving, OnlyWaits
  <2>4. n \notin r.excluded
    <3>1. 1 \in DOMAIN requests[n] /\ requests[n][1] = r
      BY <1>1
    <3> QED BY <3>1 DEF LooksElsewhere, TriedOnce
  <2>5. \A x \in Socket \ {s} : thread'[x] = None \/ thread'[x].pc \notin Serving
    BY <1>1, <1>3, ServingHeld DEF InQueue
  <2>6. InstanceOf(s)' = n
    BY <1>1, <1>3 DEF InstanceOf
  <2>7. LooksElsewhere'
    BY <1>1, <1>3, <2>1, <2>4, <2>5, <2>6 DEF LooksElsewhere, TriedOnce, At, Serving
  <2> QED BY <2>3, <2>7 DEF Alone
<1> QED BY <1>2, <1>3

\* Sending and receiving, with or without success.
LEMMA Serves ==
  ASSUME Typed, Alone, LooksElsewhere, NEW s \in Socket,
         \/ NoAnswer(s) \/ Fails(s) \/ SetServed(s) \/ Compact(s)
         \/ StoreRefused(s) \/ StoreServed(s) \/ StoreFailed(s)
  PROVE  Alone' /\ LooksElsewhere'
<1>1. /\ thread[s] # None /\ UNCHANGED requests
      /\ \E pc \in {"serve", "wait", "compact", "failed"} : At(s, pc)
  BY DEF NoAnswer, Fails, SetServed, Compact, StoreRefused, StoreServed, StoreFailed,
         Answered, Sends, At
<1>2. PICK from \in Serving : At(s, from)
  BY <1>1 DEF Serving
<1>3. thread[s].pc \in Serving
  BY <1>2 DEF At
<1>4. CASE Over(s) /\ (Illegal(thread[s].request.esi) \/ Success(thread[s].request.esi))
  BY <1>1, <1>3, <1>4, HolderAnswers
<1>5. CASE UNCHANGED esi /\ \E pc \in {"wait", "failed", "compact"} : Goto(s, pc)
  BY <1>1, <1>2, <1>5, HolderGoesOn
<1>6. CASE Fails(s)
  <2> DEFINE t == [thread[s] EXCEPT !.pc = "failed", !.error = TRUE]
  <2>1. thread[s] \in Thread /\ Held(s)
    BY <1>1, <1>3, ThreadChanges, ServingHeld DEF Typed
  <2>2. t \in Thread /\ t.pc = "failed" /\ t.request = thread[s].request
    BY <2>1 DEF Thread
  <2>3. thread' = [thread EXCEPT ![s] = t] /\ UNCHANGED <<requests, esi>>
    BY <1>6, <2>1 DEF Fails, Typed, TypeOK
  <2> HIDE DEF t
  <2>4. thread'[s] = t /\ \A r \in Socket \ {s} : thread'[r] = thread[r]
    BY <2>2, <2>3, ThreadType DEF Typed
  <2>5. t # None /\ t.pc \in Serving /\ t.request # None
    BY <2>1, <2>2, NoneAssumption DEF Held, Serving
  <2> QED BY <2>1, <2>2, <2>3, <2>4, <2>5, HolderMoves, HolderLooks
<1>7. CASE SetServed(s)
  BY <1>4, <1>5, <1>7 DEF SetServed
<1> QED BY <1>4, <1>5, <1>6, <1>7 DEF NoAnswer, Compact, StoreRefused, StoreServed, StoreFailed

\* A SET that failed is taken out of the table.
LEMMA FailedSets ==
  ASSUME Typed, Alone, LooksElsewhere, NEW s \in Socket, SetFailed(s)
  PROVE  Alone' /\ LooksElsewhere'
<1>1. thread[s] # None /\ thread[s].pc \in Serving /\ UNCHANGED <<requests, esi>>
  BY DEF SetFailed, At, Serving
<1> DEFINE r == [thread[s].request EXCEPT !.excluded = thread[s].request.excluded \cup {InstanceOf(s)}]
           t == [thread[s] EXCEPT !.pc = "redispatch", !.request = r]
<1>2. /\ thread[s] \in Thread /\ thread[s].request \in Request /\ InstanceOf(s) \in Name
      /\ thread[s].request.key \in Key /\ Held(s)
  BY <1>1, ServingType, ServingHeld
<1>3. r \in Request /\ r.esi = thread[s].request.esi /\ r.key = thread[s].request.key
  BY <1>2 DEF Request
<1>4. thread' = [thread EXCEPT ![s] = t]
  BY <1>2 DEF SetFailed, Typed, TypeOK, Thread
<1>5. table'[thread[s].request.key] = None
  BY <1>2 DEF SetFailed, Removed, Typed, TypeOK
<1> HIDE DEF r
<1>6. t \in Thread /\ t.pc = "redispatch" /\ t.request = r
  BY <1>2, <1>3 DEF Thread
<1> HIDE DEF t
<1>7. thread'[s] = t /\ \A x \in Socket \ {s} : thread'[x] = thread[x]
  BY <1>4, <1>6, ThreadType DEF Typed
<1>8. t # None /\ t.pc \in Serving /\ t.request # None
  BY <1>3, <1>6, NoneAssumption DEF Serving
<1> QED BY <1>1, <1>2, <1>3, <1>5, <1>6, <1>7, <1>8, HolderMoves, HolderLooks

\* Another instance is found for it, or there is none.
LEMMA FailedSetDispatched ==
  ASSUME Typed, Alone, LooksElsewhere, NEW s \in Socket, NEW n \in Name \cup {None},
         DispatchFailedSet(s, n)
  PROVE  Alone' /\ LooksElsewhere'
<1>1. thread[s] # None /\ thread[s].pc \in Serving /\ UNCHANGED requests
  BY DEF DispatchFailedSet, At, Serving
<1>2. thread[s] \in Thread /\ thread[s].request \in Request /\ Held(s)
  BY <1>1, ServingType, ServingHeld
<1>3. CASE n = None
  BY <1>1, <1>3, HolderAnswers DEF DispatchFailedSet
<1>4. CASE n # None
  <2> DEFINE t == [thread[s] EXCEPT !.pc = "push", !.target = n]
  <2>1. InstanceFor(thread[s].request.key) = None
    BY DEF DispatchFailedSet, LooksElsewhere
  <2>2. n \notin thread[s].request.excluded
    BY <1>4, <2>1 DEF DispatchFailedSet, Dispatch, Candidates, Available
  <2>3. t \in Thread /\ t.pc = "push" /\ t.target = n /\ t.request = thread[s].request
    BY <1>2 DEF Thread
  <2>4. thread' = [thread EXCEPT ![s] = t] /\ UNCHANGED esi
    BY <1>2, <1>4 DEF DispatchFailedSet, Typed, TypeOK
  <2> HIDE DEF t
  <2>5. thread'[s] = t /\ \A x \in Socket \ {s} : thread'[x] = thread[x]
    BY <2>3, <2>4, ThreadType DEF Typed
  <2>6. t # None /\ t.pc \in Serving /\ t.request # None
    BY <1>2, <2>3, NoneAssumption DEF Serving
  <2> QED BY <1>1, <1>2, <2>2, <2>3, <2>4, <2>5, <2>6, HolderMoves, HolderLooks
<1> QED BY <1>3, <1>4

\* It goes from the thread to the queue of that one.
LEMMA FailedSetPushed ==
  ASSUME Typed, Alone, LooksElsewhere, NEW s \in Socket, PushFailedSet(s)
  PROVE  Alone' /\ LooksElsewhere'
<1>1. /\ thread[s] # None /\ thread[s].pc \in Serving /\ At(s, "push")
      /\ UNCHANGED esi /\ Over(s)
  BY DEF PushFailedSet, At, Serving
<1>2. PICK n \in Name, r \in Request : n = thread[s].target /\ r = thread[s].request
  BY <1>1 DEF Typed, RequestsAtHand, At
<1>3. n \notin r.excluded
  BY <1>1, <1>2 DEF LooksElsewhere
<1>4. WithThread(s) /\ OnlyWaits(r.esi)
  BY <1>1, <1>2, ServingHeld, HolderServes DEF WithThread
<1>5. /\ requests[n] = <<>> /\ Append(<<>>, r) = <<r>>
      /\ DOMAIN <<r>> = {1}
  BY <1>2, <1>4 DEF WithThread
<1>6. /\ requests'[n] = <<r>>
      /\ \A m \in Name \ {n} : requests'[m] = <<>>
  BY <1>2, <1>4, <1>5 DEF PushFailedSet, WithThread, Typed, TypeOK
<1>7. /\ \A x \in Socket \ {s} : thread'[x] = thread[x]
      /\ thread'[s] \in Thread /\ thread'[s].pc \in {"check", "pop"}
      /\ thread'[s].request = None
  BY <1>1, OverType DEF Typed
<1>8. \A x \in Socket : ~Held(x)' /\ (thread'[x] = None \/ thread'[x].pc \notin Serving)
  BY <1>4, <1>7, ServingHeld DEF WithThread, Held, Serving
<1>9. InQueue(n)'
  BY <1>1, <1>2, <1>4, <1>6, <1>8 DEF InQueue, OnlyWaits
<1>10. \A m \in Name : \A i \in DOMAIN requests'[m] : m \notin requests'[m][i].excluded
  BY <1>3, <1>5, <1>6
<1>11. \A f \in Esi : esi'[f].pc # "push"
  BY <1>1, <1>4 DEF OnlyWaits
<1>12. LooksElsewhere'
  BY <1>8, <1>10, <1>11 DEF LooksElsewhere, TriedOnce, At, Serving
<1> QED BY <1>2, <1>9, <1>12 DEF Alone

-----------------------------------------------------------------------------
(* Every step *)

AInv == IInv /\ Alone /\ LooksElsewhere

\* At the start there is no request, and no thread.
LEMMA AloneInit == Init => Alone /\ LooksElsewhere
BY DEF Init, Alone, Nowhere, Held, Idle, LooksElsewhere, TriedOnce, At

\* Every step preserves both.
LEMMA StepAlone ==
  ASSUME IInv, IInv', Alone, LooksElsewhere, Next
  PROVE  Alone' /\ LooksElsewhere'
<1> Typed /\ Typed'
  BY DEF IInv
<1>1. ASSUME NEW s \in Socket, InstanceStep(s) PROVE Alone' /\ LooksElsewhere'
  <2>1. CASE Add(s) \/ Refuse(s) \/ Test(s) \/ TestFails(s) \/ Confirm(s) \/ ConfirmFails(s) \/ Check(s)
    BY <2>1, IdleThreads
  <2>2. CASE Pop(s)
    BY <2>2, Pops
  <2>3. CASE \/ NoAnswer(s) \/ Fails(s) \/ SetServed(s) \/ Compact(s)
             \/ StoreRefused(s) \/ StoreServed(s) \/ StoreFailed(s)
    BY <2>3, Serves
  <2>4. CASE SetFailed(s)
    BY <2>4, FailedSets
  <2>5. CASE \E n \in Name \cup {None} : DispatchFailedSet(s, n)
    BY <2>5, FailedSetDispatched
  <2>6. CASE PushFailedSet(s)
    BY <2>6, FailedSetPushed
  <2> QED BY <1>1, <2>1, <2>2, <2>3, <2>4, <2>5, <2>6 DEF InstanceStep
<1> QED BY <1>1, Sentences, ComeAndGo DEF Next

\* And so they hold throughout.
LEMMA AloneHolds == Spec => []AInv
<1>1. Init => AInv
  BY TypeInit, ConnectedInit, AloneInit DEF IInv, AInv
<1>2. AInv /\ [Next]_vars => AInv'
  <2> SUFFICES ASSUME AInv, [Next]_vars PROVE AInv'
    OBVIOUS
  <2>1. IInv'
    BY StepIInv DEF AInv
  <2>2. CASE Next
    BY <2>1, <2>2, StepAlone DEF AInv
  <2>3. CASE UNCHANGED vars
    <3>1. Undisturbed /\ table' = table
      BY <2>3 DEF vars, Undisturbed
    <3> QED BY <2>1, <3>1, UndisturbedAlone, UndisturbedLooks DEF AInv, IInv
  <2> QED BY <2>1, <2>2, <2>3 DEF AInv
<1> QED BY <1>1, <1>2, PTL DEF Spec

-----------------------------------------------------------------------------
(* The theorems *)

\* A request that is alone is in one place, and belongs to the ESI that waits.
LEMMA AlonePlace == Typed /\ Alone => InOnePlace
<1> SUFFICES ASSUME Typed, Alone, NEW e \in Esi
             PROVE  IF esi[e].pc = "waiting" THEN \E p \in Places(e) : Places(e) = {p}
                    ELSE Places(e) = {}
  BY DEF InOnePlace
<1>1. CASE Nowhere
  BY <1>1 DEF Nowhere, Places, Held
<1>2. ASSUME NEW n \in Name, InQueue(n)
      PROVE  IF esi[e].pc = "waiting" THEN \E p \in Places(e) : Places(e) = {p}
             ELSE Places(e) = {}
  <2>1. PICK r \in Request : requests[n] = <<r>> /\ OnlyWaits(r.esi)
    BY <1>2 DEF InQueue
  <2>2. /\ DOMAIN requests[n] = {1} /\ requests[n][1] = r
        /\ \A m \in Name \ {n} : DOMAIN requests[m] = {}
    BY <1>2, <2>1 DEF InQueue
  <2>3. UNION {{m} \X DOMAIN requests[m] : m \in Name} = {<<n, 1>>}
    BY <2>2
  <2>4. Places(e) = {p \in {<<n, 1>>} : r.esi = e}
    BY <1>2, <2>2, <2>3 DEF Places, InQueue, Held
  <2> QED BY <2>1, <2>4 DEF OnlyWaits
<1>3. ASSUME NEW s \in Socket, WithThread(s)
      PROVE  IF esi[e].pc = "waiting" THEN \E p \in Places(e) : Places(e) = {p}
             ELSE Places(e) = {}
  <2>1. \A m \in Name : DOMAIN requests[m] = {}
    BY <1>3 DEF WithThread
  <2>2. UNION {{m} \X DOMAIN requests[m] : m \in Name} = {}
    BY <2>1
  <2>3. Places(e) = {p \in {<<s, 0>>} : thread[s].request.esi = e}
    BY <1>3, <2>2 DEF Places, WithThread, Held
  <2> QED BY <1>3, <2>3 DEF WithThread, OnlyWaits
<1> QED BY <1>1, <1>2, <1>3 DEF Alone

\* No request is lost or doubled by a pop, a thread whose socket was replaced, a failure
\* or another dispatch: that of a waiting ESI is in one queue or with one thread.
THEOREM RequestsInOnePlace == Spec => []InOnePlace
<1>1. AInv => InOnePlace
  BY AlonePlace DEF AInv, IInv
<1> QED BY <1>1, AloneHolds, PTL

\* A SET is neither queued for nor served by an instance on which it failed before.
THEOREM NeverTriedTwice == Spec => []TriedOnce
<1>1. AInv => TriedOnce
  BY DEF AInv, LooksElsewhere
<1> QED BY <1>1, AloneHolds, PTL

-----------------------------------------------------------------------------
(* Where a request goes is where the table says its key is *)

\* Requests are with the instance of their key, or on their way to it.
Routed ==
    /\ \A e \in Esi : esi[e].pc = "push" => InstanceFor(esi[e].request.key) = esi[e].target
    /\ \A n \in Name : \A i \in DOMAIN requests[n] : InstanceFor(requests[n][i].key) = n
    /\ \A s \in Socket :
        /\ At(s, "serve") \/ At(s, "compact") =>
               InstanceFor(thread[s].request.key) = InstanceOf(s)
        /\ At(s, "push") => InstanceFor(thread[s].request.key) = thread[s].target

\* A key that has been set is at some instance.
Placed == \A k \in Key : table[k] # None /\ table[k].instance = None => ~table[k].initialized

\* Steps that disturb no request.
LEMMA UndisturbedRouted ==
  ASSUME Typed, Typed', Routed, Undisturbed, table' = table
  PROVE  Routed'
<1>1. ASSUME NEW s \in Socket, thread'[s] # None, thread'[s].pc \in Serving
      PROVE  thread'[s] = thread[s]
  BY <1>1, NoneAssumption DEF Typed, RequestsAtHand, Undisturbed, Held
<1>2. ASSUME NEW s \in Socket
      PROVE  /\ At(s, "serve")' \/ At(s, "compact")' =>
                    InstanceFor(thread[s].request.key)' = InstanceOf(s)'
             /\ At(s, "push")' => InstanceFor(thread[s].request.key)' = thread'[s].target
  BY <1>1 DEF Routed, At, InstanceFor, InstanceOf, Serving
<1>3. \A n \in Name : \A i \in DOMAIN requests'[n] : InstanceFor(requests[n][i].key)' = n
  BY DEF Routed, Undisturbed, InstanceFor
<1>4. \A e \in Esi : esi'[e].pc = "push" => InstanceFor(esi[e].request.key)' = esi'[e].target
  BY DEF Routed, Undisturbed, InstanceFor
<1> QED BY <1>2, <1>3, <1>4 DEF Routed

\* There is no request after the step, but for one that an ESI is about to push;
LEMMA NowhereRouted ==
  ASSUME Typed', Nowhere',
         \A e \in Esi : esi'[e].pc = "push" => InstanceFor(esi[e].request.key)' = esi'[e].target
  PROVE  Routed'
<1>1. \A s \in Socket : thread'[s] = None \/ thread'[s].pc \notin Serving
  BY NoneAssumption DEF Nowhere, Held, Typed, RequestsAtHand
<1> QED BY <1>1 DEF Nowhere, Routed, At, Serving

\* or it is in a queue;
LEMMA QueueRouted ==
  ASSUME Typed', NEW n \in Name, InQueue(n)',
         \A i \in DOMAIN requests'[n] : InstanceFor(requests[n][i].key)' = n
  PROVE  Routed'
<1>1. \A s \in Socket : thread'[s] = None \/ thread'[s].pc \notin Serving
  BY NoneAssumption DEF InQueue, Held, Typed, RequestsAtHand
<1>2. \A e \in Esi : esi'[e].pc # "push"
  BY DEF InQueue, OnlyWaits
<1>3. \A m \in Name : \A i \in DOMAIN requests'[m] : InstanceFor(requests[m][i].key)' = m
  BY DEF InQueue
<1> QED BY <1>1, <1>2, <1>3 DEF Routed, At, Serving

\* or with a thread.
LEMMA ThreadRouted ==
  ASSUME Typed', NEW s \in Socket, WithThread(s)',
         At(s, "serve")' \/ At(s, "compact")' =>
             InstanceFor(thread[s].request.key)' = InstanceOf(s)',
         At(s, "push")' => InstanceFor(thread[s].request.key)' = thread'[s].target
  PROVE  Routed'
<1>1. \A r \in Socket \ {s} : thread'[r] = None \/ thread'[r].pc \notin Serving
  BY NoneAssumption DEF WithThread, Held, Typed, RequestsAtHand
<1>2. \A e \in Esi : esi'[e].pc # "push"
  BY DEF WithThread, OnlyWaits
<1>3. \A m \in Name : \A i \in DOMAIN requests'[m] : InstanceFor(requests[m][i].key)' = m
  BY DEF WithThread
<1>4. ASSUME NEW r \in Socket
      PROVE  /\ At(r, "serve")' \/ At(r, "compact")' =>
                    InstanceFor(thread[r].request.key)' = InstanceOf(r)'
             /\ At(r, "push")' => InstanceFor(thread[r].request.key)' = thread'[r].target
  <2>1. CASE r = s
    BY <2>1
  <2>2. CASE r # s
    BY <1>1, <2>2 DEF At, Serving
  <2> QED BY <2>1, <2>2
<1> QED BY <1>2, <1>3, <1>4 DEF Routed

\* Whoever holds a request after the step is alone with it.
LEMMA HolderNext ==
  ASSUME Alone', NEW s \in Socket, Held(s)'
  PROVE  WithThread(s)'
BY DEF Alone, Nowhere, InQueue, WithThread

\* With nobody waiting there is no request.
LEMMA IdleNext ==
  ASSUME Typed', Alone', \A e \in Esi : esi'[e].pc # "waiting"
  PROVE  Nowhere'
<1>1. ASSUME NEW e \in Esi, OnlyWaits(e)' PROVE FALSE
  BY <1>1 DEF OnlyWaits
<1>2. ASSUME NEW n \in Name, InQueue(n)' PROVE FALSE
  BY <1>1, <1>2 DEF InQueue, Request
<1>3. ASSUME NEW s \in Socket, WithThread(s)' PROVE FALSE
  <2>1. thread'[s].request \in Request
    BY <1>3 DEF WithThread, Held, Typed, RequestsAtHand
  <2> QED BY <1>1, <1>3, <2>1 DEF WithThread, Request
<1> QED BY <1>2, <1>3 DEF Alone

\* Dispatching a key puts it at the instance chosen, without a value if it was moved,
\* and leaves the others.
LEMMA Dispatched ==
  ASSUME Typed, Placed, NEW k \in Key, NEW n \in Name \cup {None}, NEW excluded,
         Dispatch(k, excluded, n)
  PROVE  /\ \A l \in Key \ {k} : table'[l] = table[l]
         /\ \/ table'[k] \in {table[k], None}
            \/ table'[k] = [instance |-> n, initialized |-> FALSE]
         /\ n # None => table'[k] # None /\ table'[k].instance = n /\ InstanceFor(k)' = n
<1> DEFINE Row == [instance : Name \cup {None}, initialized : BOOLEAN]
           known == IF InstanceFor(k) = None THEN table ELSE Removed(k)
<1>1. table \in [Key -> Row \cup {None}] /\ None \notin Row
  BY NoneAssumption DEF Typed, TypeOK
<1>2. known \in [Key -> Row \cup {None}] /\ \A l \in Key \ {k} : known[l] = table[l]
  BY <1>1 DEF Removed
<1>3. known[k] = None \/ (known[k] = table[k] /\ table[k] \in Row /\ table[k].instance = None)
  BY <1>1 DEF Removed, InstanceFor
<1> HIDE DEF known
<1>4. CASE n = InstanceFor(k) /\ n # None /\ table' = table
  BY <1>4 DEF InstanceFor
<1>5. CASE n = None /\ table' = known
  BY <1>2, <1>3, <1>5
<1>6. CASE n # None /\ table' = Created(known, k, n)
  <2> DEFINE row == [instance |-> n, initialized |-> FALSE]
  <2>1. row \in Row /\ row.instance = n
    BY <1>6
  <2>2. table'[k] = row
    <3>1. CASE known[k] = None
      BY <1>2, <1>6, <3>1 DEF Created
    <3>2. CASE known[k] # None
      <4>1. known[k] = table[k] /\ table[k] \in Row /\ table[k].instance = None /\ table[k] # None
        BY <1>3, <3>2
      <4>2. table'[k] = [table[k] EXCEPT !.instance = n]
        BY <1>2, <1>6, <3>2, <4>1 DEF Created
      <4>3. table[k].initialized = FALSE
        BY <4>1 DEF Placed
      <4> QED BY <4>1, <4>2, <4>3
    <3> QED BY <3>1, <3>2
  <2>3. \A l \in Key \ {k} : table'[l] = table[l]
    BY <1>2, <1>6 DEF Created
  <2>4. table'[k] # None /\ table'[k].instance = n /\ InstanceFor(k)' = n
    BY <1>1, <1>6, <2>1, <2>2 DEF InstanceFor
  <2> QED BY <2>2, <2>3, <2>4
<1>7. \/ n = InstanceFor(k) /\ n # None /\ table' = table
      \/ n = None /\ table' = known
      \/ n # None /\ table' = Created(known, k, n)
  BY DEF Dispatch, known
<1> QED BY <1>4, <1>5, <1>6, <1>7

\* Keys that go, come without a value, or get an instance.
LEMMA PlacedStays ==
  ASSUME Placed,
         \A k \in Key : \/ table'[k] \in {table[k], None} \/ ~table'[k].initialized
                        \/ table'[k].instance # None
  PROVE  Placed'
BY DEF Placed

\* A GET, dispatching a sentence and pushing it.
LEMMA SentencesRouted ==
  ASSUME Typed, Typed', Alone, Alone', LooksElsewhere, Routed, Placed, NEW e \in Esi,
         \/ \E k \in Key : Get(e, k)
         \/ \E op \in {"SET", "STORE"}, k \in Key, n \in Name \cup {None} : Sentence(e, op, k, n)
         \/ PushSentence(e)
  PROVE  Routed' /\ Placed'
<1>1. Nowhere
  BY NothingRequested DEF Get, Sentence, PushSentence
<1>2. ASSUME NEW k \in Key, Get(e, k) PROVE Routed' /\ Placed'
  <2>1. \A f \in Esi : esi'[f].pc = "idle"
    BY <1>2 DEF Get, InFlight
  <2>2. Routed'
    BY <2>1, IdleNext, NowhereRouted
  <2>3. \A l \in Key : table'[l] = table[l] \/ table'[l] = [instance |-> None, initialized |-> FALSE]
    BY <1>2 DEF Get, Created, Typed, TypeOK
  <2> QED BY <2>2, <2>3, PlacedStays
<1>3. ASSUME NEW op \in {"SET", "STORE"}, NEW k \in Key, NEW n \in Name \cup {None},
             Sentence(e, op, k, n)
      PROVE  Routed' /\ Placed'
  <2>1. /\ \A f \in Esi \ {e} : esi'[f].pc = "idle"
        /\ esi'[e].pc \in {"idle", "push"}
        /\ esi'[e].pc = "push" => n # None /\ esi'[e].request.key = k /\ esi'[e].target = n
    BY <1>3 DEF Sentence, InFlight, Illegal, Idle, Typed, TypeOK
  <2>2. Dispatch(k, {}, n)
    BY <1>3 DEF Sentence
  <2>3. /\ n # None => InstanceFor(k)' = n
        /\ \A l \in Key : table'[l] \in {table[l], None} \/ ~table'[l].initialized
    <3>1. /\ \A l \in Key \ {k} : table'[l] = table[l]
          /\ \/ table'[k] \in {table[k], None}
             \/ table'[k] = [instance |-> n, initialized |-> FALSE]
          /\ n # None => InstanceFor(k)' = n
      BY <2>2, Dispatched
    <3> QED BY <3>1
  <2>4. Routed'
    <3>1. \A f \in Esi : esi'[f].pc = "push" =>
              InstanceFor(esi[f].request.key)' = esi'[f].target
      BY <2>1, <2>3 DEF InstanceFor
    <3> QED BY <2>1, <3>1, IdleNext, NowhereRouted
  <2>5. Placed'
    BY <2>3, PlacedStays
  <2> QED BY <2>4, <2>5
<1>4. CASE PushSentence(e)
  <2>1. PICK n \in Name, r \in Request : n = esi[e].target /\ r = esi[e].request
    BY <1>4 DEF PushSentence, Typed, RequestsAtHand
  <2>2. requests[n] = <<>> /\ Append(<<>>, r) = <<r>> /\ DOMAIN <<r>> = {1} /\ <<r>> # <<>>
    BY <1>1, <2>1 DEF Nowhere
  <2>3. requests'[n] = <<r>>
    BY <1>4, <2>1, <2>2 DEF PushSentence, Typed, TypeOK
  <2>4. InQueue(n)'
    BY <2>1, <2>2, <2>3 DEF Alone, Nowhere, InQueue, WithThread
  <2>5. InstanceFor(r.key) = n /\ table' = table
    BY <1>4, <2>1 DEF Routed, PushSentence
  <2>6. \A i \in DOMAIN requests'[n] : InstanceFor(requests[n][i].key)' = n
    BY <2>2, <2>3, <2>5 DEF InstanceFor
  <2> QED BY <2>1, <2>4, <2>5, <2>6, QueueRouted, PlacedStays
<1> QED BY <1>2, <1>3, <1>4

\* A request that is popped goes to a thread of the instance it was queued for.
LEMMA PopRouted ==
  ASSUME Typed, Typed', Alone, Alone', Routed, Placed, NEW s \in Socket, Pop(s)
  PROVE  Routed' /\ Placed'
<1>1. PICK n \in Name, r \in Request :
        /\ n = InstanceOf(s) /\ requests[n] = <<r>> /\ InQueue(n) /\ OnlyWaits(r.esi)
        /\ UNCHANGED <<esi, table>>
        /\ \/ /\ fd[n] = s /\ requests' = [requests EXCEPT ![n] = <<>>]
              /\ thread'[s] # None /\ thread'[s].pc = "serve" /\ thread'[s].request = r
              /\ thread'[s].process = thread[s].process
              /\ \A x \in Socket \ {s} : thread'[x] = thread[x]
           \/ fd[n] # s /\ Return(s) /\ Undisturbed
  BY PopsOne
<1>2. InstanceFor(r.key) = n
  <2>1. 1 \in DOMAIN requests[n] /\ requests[n][1] = r
    BY <1>1
  <2> QED BY <2>1 DEF Routed
<1>3. CASE Undisturbed
  BY <1>1, <1>3, UndisturbedRouted, PlacedStays
<1>4. CASE ~Undisturbed
  <2>1. WithThread(s)'
    BY <1>1, <1>4, HolderNext, NoneAssumption DEF Held
  <2>2. InstanceFor(thread[s].request.key)' = InstanceOf(s)' /\ ~At(s, "push")'
    BY <1>1, <1>2, <1>4 DEF InstanceFor, InstanceOf, At
  <2> QED BY <1>1, <2>1, <2>2, ThreadRouted, PlacedStays
<1> QED BY <1>3, <1>4

\* An answer leaves every ESI idle.
LEMMA AnsweredIdle ==
  ASSUME Typed, Alone, NEW s \in Socket, thread[s] # None, thread[s].pc \in Serving,
         Illegal(thread[s].request.esi) \/ Success(thread[s].request.esi)
  PROVE  \A e \in Esi : esi'[e].pc = "idle"
<1>1. WithThread(s) /\ thread[s].request.esi \in Esi
  BY ServingHeld, HolderServes, ServingType
<1>2. esi' = [esi EXCEPT ![thread[s].request.esi] = Idle]
  BY DEF Illegal, Success
<1> QED BY <1>1, <1>2 DEF Typed, TypeOK, WithThread, OnlyWaits, Idle

\* A thread that goes to another line with its request.
LEMMA GoneOn ==
  ASSUME Typed, Typed', Alone', Routed, NEW s \in Socket, NEW from \in Serving, At(s, from),
         NEW pc \in {"wait", "failed", "compact"}, Goto(s, pc), table' = table,
         pc = "compact" => from = "serve"
  PROVE  Routed'
<1>1. /\ thread'[s] \in Thread /\ thread'[s].pc = pc
      /\ thread'[s].process = thread[s].process /\ thread'[s].request = thread[s].request
  BY GotoType DEF Typed
<1>2. thread'[s] # None /\ thread'[s].pc \in Serving
  BY <1>1, NoneAssumption DEF Serving
<1>3. WithThread(s)'
  BY <1>2, HolderNext, NoneAssumption DEF Held, Typed, RequestsAtHand
<1>4. At(s, "serve")' \/ At(s, "compact")' => InstanceFor(thread[s].request.key)' = InstanceOf(s)'
  BY <1>1 DEF Routed, At, InstanceFor, InstanceOf
<1>5. ~At(s, "push")'
  BY <1>1 DEF At
<1> QED BY <1>3, <1>4, <1>5, ThreadRouted

\* The table when a request has been served: its key is where it was, has a value, or is gone.
LEMMA ServedPlaced ==
  ASSUME Typed, Routed, Placed, NEW s \in Socket, thread[s] # None, thread[s].pc \in Serving,
         \/ table' \in {table, Removed(thread[s].request.key)}
         \/ /\ table' = SetInitialized(thread[s].request.key)
            /\ At(s, "serve") \/ At(s, "compact")
  PROVE  Placed'
<1> DEFINE k == thread[s].request.key
           Row == [instance : Name \cup {None}, initialized : BOOLEAN]
<1>1. k \in Key /\ InstanceOf(s) \in Name /\ InstanceOf(s) # None
  BY ServingType, ConstantsAssumption
<1>2. table \in [Key -> Row \cup {None}]
  BY DEF Typed, TypeOK
<1> HIDE DEF k
<1>3. CASE table' \in {table, Removed(k)}
  BY <1>2, <1>3, PlacedStays DEF Removed
<1>4. CASE table' = SetInitialized(k) /\ InstanceFor(k) = InstanceOf(s)
  <2>1. \A l \in Key \ {k} : table'[l] = table[l]
    BY <1>2, <1>4 DEF SetInitialized
  <2>2. table[k] # None /\ table[k] \in Row /\ table[k].instance # None
    BY <1>1, <1>2, <1>4 DEF InstanceFor
  <2>3. table'[k] = [table[k] EXCEPT !.initialized = TRUE]
    BY <1>1, <1>2, <1>4, <2>2 DEF SetInitialized
  <2>4. table'[k].instance # None
    BY <2>2, <2>3
  <2> QED BY <2>1, <2>4, PlacedStays
<1>5. At(s, "serve") \/ At(s, "compact") => InstanceFor(k) = InstanceOf(s)
  BY DEF Routed, k
<1> QED BY <1>3, <1>4, <1>5 DEF k

\* Sending and receiving, with or without success.
LEMMA ServesRouted ==
  ASSUME Typed, Typed', Alone, Alone', Routed, Placed, NEW s \in Socket,
         \/ NoAnswer(s) \/ Fails(s) \/ SetServed(s) \/ Compact(s)
         \/ StoreRefused(s) \/ StoreServed(s) \/ StoreFailed(s)
  PROVE  Routed' /\ Placed'
<1>1. /\ thread[s] # None
      /\ \E pc \in {"serve", "wait", "compact", "failed"} : At(s, pc)
  BY DEF NoAnswer, Fails, SetServed, Compact, StoreRefused, StoreServed, StoreFailed,
         Answered, Sends, At
<1>2. PICK from \in Serving : At(s, from)
  BY <1>1 DEF Serving
<1>3. thread[s].pc \in Serving
  BY <1>2 DEF At
<1>4. Placed'
  <2>1. \/ table' \in {table, Removed(thread[s].request.key)}
        \/ /\ table' = SetInitialized(thread[s].request.key)
           /\ At(s, "serve") \/ At(s, "compact")
    BY DEF NoAnswer, Fails, SetServed, Compact, StoreRefused, StoreServed, StoreFailed,
           Answered, Sends
  <2> QED BY <1>1, <1>3, <2>1, ServedPlaced
<1>5. CASE Illegal(thread[s].request.esi) \/ Success(thread[s].request.esi)
  <2>1. \A e \in Esi : esi'[e].pc = "idle"
    BY <1>1, <1>3, <1>5, AnsweredIdle
  <2> QED BY <1>4, <2>1, IdleNext, NowhereRouted
<1>6. CASE /\ table' = table
           /\ Goto(s, "wait") \/ Goto(s, "failed") \/ (Goto(s, "compact") /\ At(s, "serve"))
  <2>1. CASE Goto(s, "wait") \/ Goto(s, "failed")
    BY <1>2, <1>4, <1>6, <2>1, GoneOn
  <2>2. CASE Goto(s, "compact") /\ At(s, "serve")
    <3>1. "serve" \in Serving
      BY DEF Serving
    <3> QED BY <1>4, <1>6, <2>2, <3>1, GoneOn
  <2> QED BY <1>6, <2>1, <2>2
<1>7. CASE Fails(s)
  <2>1. thread[s] \in Thread
    BY <1>1, ThreadChanges DEF Typed
  <2>2. /\ thread'[s] \in Thread /\ thread'[s].pc = "failed"
    <3> DEFINE t == [thread[s] EXCEPT !.pc = "failed", !.error = TRUE]
    <3>1. t \in Thread /\ t.pc = "failed"
      BY <2>1 DEF Thread
    <3>2. thread' = [thread EXCEPT ![s] = t]
      BY <1>7, <2>1 DEF Fails, Typed, TypeOK
    <3> HIDE DEF t
    <3> QED BY <3>1, <3>2, ThreadType DEF Typed
  <2>3. thread'[s] # None /\ thread'[s].pc \in Serving
    BY <2>2, NoneAssumption DEF Serving
  <2>4. WithThread(s)'
    BY <2>3, HolderNext, NoneAssumption DEF Held, Typed, RequestsAtHand
  <2> QED BY <1>4, <2>2, <2>4, ThreadRouted DEF At
<1>8. \/ Illegal(thread[s].request.esi) \/ Success(thread[s].request.esi)
      \/ /\ table' = table
         /\ Goto(s, "wait") \/ Goto(s, "failed") \/ (Goto(s, "compact") /\ At(s, "serve"))
      \/ Fails(s)
  BY DEF NoAnswer, SetServed, Compact, StoreRefused, StoreServed, StoreFailed, Answered, Sends
<1> QED BY <1>5, <1>6, <1>7, <1>8

\* A SET that failed goes to the instance it is dispatched to, if there is one.
LEMMA FailedSetRouted ==
  ASSUME Typed, Typed', Alone, Alone', Routed, Placed, NEW s \in Socket,
         \/ SetFailed(s) \/ PushFailedSet(s)
         \/ \E n \in Name \cup {None} : DispatchFailedSet(s, n)
  PROVE  Routed' /\ Placed'
<1>1. /\ thread[s] # None /\ thread[s].pc \in Serving /\ Held(s)
      /\ thread[s] \in Thread /\ thread[s].request \in Request /\ thread[s].request.key \in Key
  <2>1. thread[s] # None /\ thread[s].pc \in Serving
    BY DEF SetFailed, PushFailedSet, DispatchFailedSet, At, Serving
  <2> QED BY <2>1, ServingType, ServingHeld
<1>2. CASE SetFailed(s)
  <2> DEFINE r == [thread[s].request EXCEPT !.excluded = thread[s].request.excluded \cup {InstanceOf(s)}]
             t == [thread[s] EXCEPT !.pc = "redispatch", !.request = r]
  <2>1. r \in Request
    BY <1>1, ThreadChanges DEF Request, Typed
  <2>2. thread' = [thread EXCEPT ![s] = t]
    BY <1>1, <1>2 DEF SetFailed, Typed, TypeOK, Thread
  <2> HIDE DEF r
  <2>3. t \in Thread /\ t.pc = "redispatch" /\ t.request = r
    BY <1>1, <2>1 DEF Thread
  <2> HIDE DEF t
  <2>4. thread'[s] = t /\ thread'[s] # None /\ thread'[s].request # None
    BY <2>1, <2>2, <2>3, ThreadType, NoneAssumption DEF Typed
  <2>5. WithThread(s)' /\ ~At(s, "serve")' /\ ~At(s, "compact")' /\ ~At(s, "push")'
    BY <2>3, <2>4, HolderNext DEF Held, At
  <2>6. table' = Removed(thread[s].request.key)
    BY <1>2 DEF SetFailed
  <2> QED BY <1>1, <2>5, <2>6, ThreadRouted, ServedPlaced
<1>3. ASSUME NEW n \in Name \cup {None}, DispatchFailedSet(s, n) PROVE Routed' /\ Placed'
  <2>0. PICK k \in Key, excluded \in SUBSET Name :
            k = thread[s].request.key /\ excluded = thread[s].request.excluded
    BY <1>1 DEF Request
  <2>1. /\ n # None => InstanceFor(k)' = n
        /\ \A l \in Key : table'[l] \in {table[l], None} \/ ~table'[l].initialized
    <3>1. Dispatch(k, excluded, n)
      BY <1>3, <2>0 DEF DispatchFailedSet
    <3>2. /\ \A l \in Key \ {k} : table'[l] = table[l]
          /\ \/ table'[k] \in {table[k], None}
             \/ table'[k] = [instance |-> n, initialized |-> FALSE]
          /\ n # None => InstanceFor(k)' = n
      BY <3>1, Dispatched
    <3> QED BY <3>2
  <2>2. Placed'
    BY <2>1, PlacedStays
  <2>3. CASE n = None
    <3>1. Illegal(thread[s].request.esi)
      BY <1>3, <2>3 DEF DispatchFailedSet
    <3>2. \A e \in Esi : esi'[e].pc = "idle"
      BY <1>1, <3>1, AnsweredIdle
    <3> QED BY <2>2, <3>2, IdleNext, NowhereRouted
  <2>4. CASE n # None
    <3> DEFINE t == [thread[s] EXCEPT !.pc = "push", !.target = n]
    <3>1. t \in Thread /\ t.pc = "push" /\ t.target = n /\ t.request = thread[s].request
      BY <1>1 DEF Thread
    <3>2. thread' = [thread EXCEPT ![s] = t]
      BY <1>1, <1>3, <2>4 DEF DispatchFailedSet, Typed, TypeOK
    <3> HIDE DEF t
    <3>3. thread'[s] = t /\ thread'[s] # None /\ thread'[s].request # None
      BY <1>1, <3>1, <3>2, ThreadType, NoneAssumption DEF Typed
    <3>4. WithThread(s)' /\ ~At(s, "serve")' /\ ~At(s, "compact")'
      BY <3>1, <3>3, HolderNext DEF Held, At
    <3>5. thread'[s].target = n /\ thread'[s].request = thread[s].request
      BY <3>1, <3>3
    <3>6. InstanceFor(thread[s].request.key)' = thread'[s].target
      BY <2>0, <2>1, <2>4, <3>5 DEF InstanceFor
    <3> QED BY <2>2, <3>4, <3>6, ThreadRouted
  <2> QED BY <2>3, <2>4
<1>4. CASE PushFailedSet(s)
  <2>1. At(s, "push") /\ table' = table
    BY <1>4 DEF PushFailedSet
  <2>2. PICK n \in Name, r \in Request : n = thread[s].target /\ r = thread[s].request
    BY <1>1, <2>1 DEF Typed, RequestsAtHand, At
  <2>3. WithThread(s) /\ Append(<<>>, r) = <<r>> /\ DOMAIN <<r>> = {1} /\ <<r>> # <<>>
    BY <1>1, <2>2, HolderServes
  <2>4. requests'[n] = <<r>>
    BY <1>4, <2>2, <2>3 DEF PushFailedSet, WithThread, Typed, TypeOK
  <2>5. InQueue(n)'
    BY <2>2, <2>3, <2>4 DEF Alone, Nowhere, InQueue, WithThread
  <2>6. InstanceFor(r.key) = n
    BY <2>1, <2>2 DEF Routed
  <2>7. \A i \in DOMAIN requests'[n] : InstanceFor(requests[n][i].key)' = n
    BY <2>1, <2>3, <2>4, <2>6 DEF InstanceFor
  <2> QED BY <2>1, <2>2, <2>5, <2>7, QueueRouted, PlacedStays
<1> QED BY <1>2, <1>3, <1>4

\* Every step.
LEMMA StepRouted ==
  ASSUME Typed, Typed', Alone, Alone', LooksElsewhere, Routed, Placed, Next
  PROVE  Routed' /\ Placed'
<1>1. ASSUME NEW s \in Socket, InstanceStep(s) PROVE Routed' /\ Placed'
  <2>1. CASE Add(s) \/ Refuse(s) \/ Test(s) \/ TestFails(s) \/ Confirm(s) \/ ConfirmFails(s) \/ Check(s)
    BY <2>1, IdleUndisturbed, UndisturbedRouted, PlacedStays
  <2>2. CASE Pop(s)
    BY <2>2, PopRouted
  <2>3. CASE \/ NoAnswer(s) \/ Fails(s) \/ SetServed(s) \/ Compact(s)
             \/ StoreRefused(s) \/ StoreServed(s) \/ StoreFailed(s)
    BY <2>3, ServesRouted
  <2>4. CASE \/ SetFailed(s) \/ PushFailedSet(s)
             \/ \E n \in Name \cup {None} : DispatchFailedSet(s, n)
    BY <2>4, FailedSetRouted
  <2> QED BY <1>1, <2>1, <2>2, <2>3, <2>4 DEF InstanceStep
<1>2. ASSUME NEW p \in Process,
             Connect(p) \/ EndOfFile(p) \/ Kill(p) \/ \E k \in Key : Replace(p, k)
      PROVE  Routed' /\ Placed'
  BY <1>2, ComesUndisturbed, UndisturbedRouted, PlacedStays
<1> QED BY <1>1, <1>2, SentencesRouted DEF Next

-----------------------------------------------------------------------------
(* What a restarted instance recovers *)

Compacting(k) == \E s \in Socket : At(s, "compact") /\ thread[s].request.key = k

\* The instance counts as having the value of the key, or is about to, and has a file of it.
Expected(k, n) ==
    /\ table[k] # None /\ table[k].instance = n
    /\ table[k].initialized \/ Compacting(k)
    /\ k \in disk[n]

Informed(p) == \A k \in Key : Expected(k, NameOf[p]) => k \in process[p].keys

\* What is sent to its socket reaches p.
Live(p) == process[p].socket # None /\ Peer(process[p].socket) = p
Addressed(p, n) == fd[n] = process[p].socket

OnlyItsOwn(p) == \A n \in Name : Addressed(p, n) <=> n = NameOf[p]

\* A process gets its configuration through the number of some instance; if only its
\* own has that number, it has got the keys of that instance.
RecoveredBy(p) ==
    /\ process[p].socket = None => process[p].config = "no"
    /\ Live(p) /\ process[p].config = "yes" =>
           /\ \E n \in Name : Addressed(p, n)
           /\ OnlyItsOwn(p) => Informed(p)

Recovered == \A p \in Process : RecoveredBy(p)

\* A process that is connected after a step, and did not connect in it, was connected
\* before, and the instances that have its number still do.
LEMMA LiveBefore ==
  ASSUME IInv, Next, NEW p \in Process, Live(p)', ~Connect(p)
  PROVE  /\ Live(p) /\ process'[p].socket = process[p].socket
         /\ \A n \in Name : Addressed(p, n) => Addressed(p, n)'
<1>1. None \notin Socket /\ DISCONNECTED \notin Socket /\ None \notin Process
  BY ConstantsAssumption DEF Socket
<1>2. process'[p].socket = process[p].socket
  <2>1. CASE CarriesOn
    BY <2>1 DEF CarriesOn, Live
  <2>2. CASE \E q \in Process : Connect(q)
    BY <2>2 DEF Connect, IInv, Typed, TypeOK
  <2>3. CASE \E s \in Socket : Add(s) \/ TestFails(s) \/ ConfirmFails(s) \/ Check(s)
    BY <2>3 DEF Add, TestFails, ConfirmFails, Check
  <2> QED BY <2>1, <2>2, <2>3, StepsSplit
<1>3. PICK s \in Socket : s = process[p].socket
  BY <1>2 DEF Live, IInv, Typed, TypeOK
<1>4. thread'[s] # None /\ thread'[s].process = p
  BY <1>1, <1>2, <1>3 DEF Live, Peer
<1>5. thread[s] # None /\ thread[s].process = p
  <2>1. CASE CarriesOn
    <3>1. GoesOn(s)
      BY <2>1 DEF CarriesOn
    <3> QED BY <1>4, <3>1 DEF GoesOn
  <2>2. ASSUME NEW q \in Process, Connect(q) PROVE thread[s] # None /\ thread[s].process = p
    <3>1. PICK t \in Socket :
            /\ thread[t] = None
            /\ thread' = [thread EXCEPT ![t] = [process |-> q, pc |-> "add", request |-> None,
                                                target |-> None, error |-> FALSE]]
      BY <2>2 DEF Connect
    <3>2. q # p
      BY <2>2
    <3>3. thread'[t].process = q /\ \A x \in Socket \ {t} : thread'[x] = thread[x]
      BY <3>1 DEF IInv, Typed, TypeOK
    <3> QED BY <1>4, <3>2, <3>3
  <2>3. ASSUME NEW x \in Socket, Add(x) \/ TestFails(x) PROVE thread[s] # None /\ thread[s].process = p
    <3>1. /\ At(x, "add") \/ At(x, "test")
          /\ Goto(x, "confirm")
      BY <2>3 DEF Add, TestFails
    <3>2. /\ thread[x] # None /\ thread'[x].process = thread[x].process
          /\ \A y \in Socket \ {x} : thread'[y] = thread[y]
      BY <3>1, GotoType DEF IInv, Typed, At
    <3> QED BY <1>4, <3>2
  <2>4. ASSUME NEW x \in Socket, ConfirmFails(x) \/ Check(x) PROVE thread[s] # None /\ thread[s].process = p
    <3>1. thread'[x] = None /\ \A y \in Socket \ {x} : thread'[y] = thread[y]
      BY <2>4, ReturnType DEF ConfirmFails, Check, IInv, Typed
    <3> QED BY <1>4, <3>1
  <2> QED BY <2>1, <2>2, <2>3, <2>4, StepsSplit
<1>6. Live(p) /\ Peer(s) = p
  BY <1>1, <1>3, <1>5 DEF Live, Peer
<1>7. \A n \in Name : Addressed(p, n) => Addressed(p, n)'
  BY <1>1, <1>2, <1>3, <1>6, ConnectionStays DEF Addressed
<1> QED BY <1>2, <1>6, <1>7

\* It is enough to look at the processes that had their configuration before, and of
\* those at the ones that have nobody else's number.
LEMMA RecoveredStays ==
  ASSUME IInv, Next, NEW p \in Process, RecoveredBy(p),
         process'[p].socket = None => process'[p].config = "no",
         process'[p].socket # None /\ process'[p].config = "yes" => process[p].config = "yes",
         Live(p) /\ OnlyItsOwn(p) /\ Informed(p)
             /\ process'[p].socket # None /\ process'[p].config = "yes" => Informed(p)'
  PROVE  RecoveredBy(p)'
<1> SUFFICES ASSUME Live(p)', process'[p].config = "yes"
             PROVE  (\E n \in Name : Addressed(p, n)') /\ (OnlyItsOwn(p)' => Informed(p)')
  BY DEF RecoveredBy
<1>1. process[p].config = "yes" /\ process'[p].socket # None
  BY DEF Live
<1>2. ~Connect(p)
  BY <1>1 DEF RecoveredBy, Connect
<1>3. /\ Live(p) /\ \A n \in Name : Addressed(p, n) => Addressed(p, n)'
  BY <1>2, LiveBefore
<1>4. PICK m \in Name : Addressed(p, m)
  BY <1>1, <1>3 DEF RecoveredBy
<1>5. OnlyItsOwn(p)' => OnlyItsOwn(p)
  BY <1>3, <1>4 DEF OnlyItsOwn
<1> QED BY <1>1, <1>3, <1>4, <1>5 DEF RecoveredBy

\* Most steps configure nobody, take no key from a process that runs on, and have no
\* instance expected to have more.
LEMMA QuietlyRecovered ==
  ASSUME IInv, Next, NEW p \in Process, RecoveredBy(p),
         \/ process'[p] \in {process[p], Stopped}
         \/ /\ process'[p].socket # None /\ process'[p].keys = process[p].keys
            /\ process'[p].config \in {"garbled", process[p].config},
         \A k \in Key, n \in Name : Expected(k, n)' => Expected(k, n)
  PROVE  RecoveredBy(p)'
<1>1. NameOf[p] \in Name
  BY ConstantsAssumption
<1>2. /\ process'[p].socket = None => process'[p].config = "no"
      /\ process'[p].socket # None /\ process'[p].config = "yes" => process[p].config = "yes"
      /\ process'[p].socket # None => process'[p].keys = process[p].keys
  BY DEF Stopped, RecoveredBy
<1>3. Informed(p) /\ process'[p].socket # None => Informed(p)'
  BY <1>1, <1>2 DEF Informed
<1> QED BY <1>2, <1>3, RecoveredStays

\* Nor does one that is spoken to before it has its configuration.
LEMMA GarbledRecovered ==
  ASSUME IInv, Next, Recovered, NEW p \in Process, process[p].socket # None,
         process' = [process EXCEPT ![p].config = "garbled"],
         \A k \in Key, n \in Name : Expected(k, n)' => Expected(k, n)
  PROVE  Recovered'
<1>1. ASSUME NEW q \in Process
      PROVE  \/ process'[q] \in {process[q], Stopped}
             \/ /\ process'[q].socket # None /\ process'[q].keys = process[q].keys
                /\ process'[q].config \in {"garbled", process[q].config}
  BY DEF IInv, Typed, TypeOK
<1> QED BY <1>1, QuietlyRecovered DEF Recovered

\* No thread starts to compact.
Steady == \A s \in Socket : At(s, "compact")' =>
              At(s, "compact") /\ thread'[s].request = thread[s].request

\* No instance is expected to have more when its files are the same, and a key that
\* changes in the table was being set already, or has no value.
LEMMA NoneExpected ==
  ASSUME disk' = disk,
         Steady,
         \A k \in Key : \/ table'[k] \in {table[k], None}
                        \/ ~table'[k].initialized /\ \A s \in Socket : ~At(s, "compact")'
                        \/ /\ Compacting(k) /\ table[k] # None
                           /\ table'[k].instance = table[k].instance
  PROVE  \A k \in Key, n \in Name : Expected(k, n)' => Expected(k, n)
<1>1. ASSUME NEW k \in Key PROVE Compacting(k)' => Compacting(k)
  BY DEF Compacting, At, Steady
<1>2. ASSUME NEW k \in Key, NEW n \in Name, Expected(k, n)' PROVE Expected(k, n)
  <2>1. CASE table'[k] \in {table[k], None}
    BY <1>1, <1>2, <2>1 DEF Expected
  <2>2. CASE ~table'[k].initialized /\ \A s \in Socket : ~At(s, "compact")'
    BY <1>2, <2>2 DEF Expected, Compacting, At
  <2>3. CASE Compacting(k) /\ table[k] # None /\ table'[k].instance = table[k].instance
    BY <1>2, <2>3 DEF Expected
  <2> QED BY <2>1, <2>2, <2>3
<1> QED BY <1>2

\* A thread whose request is over, or that goes to another line, does not.
LEMMA ThreadSteady ==
  ASSUME Typed, NEW s \in Socket, thread[s] # None,
         \/ Return(s) \/ Over(s) \/ Fails(s) \/ SetFailed(s)
         \/ \E pc \in {"test", "confirm", "pop", "wait", "failed"} : Goto(s, pc)
         \/ \E n \in Name : thread' = [thread EXCEPT ![s].pc = "push", ![s].target = n]
  PROVE  /\ Steady /\ (thread'[s] = None \/ thread'[s].pc # "compact")
         /\ \A x \in Socket \ {s} : thread'[x] = thread[x]
<1>1. TypeOK /\ thread[s] \in Thread /\ At(s, thread[s].pc)
  BY ThreadChanges DEF Typed, At
<1>2. CASE \/ Fails(s) \/ SetFailed(s)
           \/ \E n \in Name : thread' = [thread EXCEPT ![s].pc = "push", ![s].target = n]
  <2>1. thread' = [thread EXCEPT ![s] = thread'[s]]
        /\ thread'[s].pc \in {"failed", "redispatch", "push"}
    BY <1>1, <1>2 DEF Fails, SetFailed, TypeOK, Thread
  <2> QED BY <1>1, <2>1 DEF TypeOK, Steady, At
<1>3. CASE Return(s)
  BY <1>1, <1>3, ReturnType DEF Steady, At
<1>4. CASE Over(s)
  BY <1>1, <1>4, OverType DEF Steady, At
<1>5. ASSUME NEW pc \in {"test", "confirm", "pop", "wait", "failed"}, Goto(s, pc)
      PROVE  /\ \A x \in Socket \ {s} : thread'[x] = thread[x]
             /\ thread'[s].pc # "compact"
  BY <1>1, <1>5, GotoType
<1> QED BY <1>2, <1>3, <1>4, <1>5 DEF Steady, At

\* Threads outside the body of their loop, but for one that configures a process.
LEMMA IdleRecovered ==
  ASSUME IInv, Next, Recovered, NEW s \in Socket,
         Add(s) \/ Refuse(s) \/ Test(s) \/ TestFails(s) \/ ConfirmFails(s) \/ Check(s)
  PROVE  Recovered'
<1> Typed /\ TypeOK
  BY DEF IInv, Typed
<1>1. thread[s] # None /\ table' = table /\ disk' = disk
      /\ (Return(s) \/ \E pc \in {"test", "confirm"} : Goto(s, pc))
  BY DEF Add, Refuse, Test, TestFails, ConfirmFails, Check, At
<1>2. \A k \in Key, n \in Name : Expected(k, n)' => Expected(k, n)
  BY <1>1, ThreadSteady, NoneExpected
<1>3. CASE Test(s)
  <2>1. /\ Peer(fd[InstanceOf(s)]) \in Process
        /\ process[Peer(fd[InstanceOf(s)])].socket # None
    BY <1>1, <1>3, ThreadChanges, PeerType, NoneAssumption, ConstantsAssumption
       DEF Test, TypeOK, Socket
  <2> QED BY <1>2, <1>3, <2>1, GarbledRecovered DEF Test
<1>4. CASE process' = process
  BY <1>2, <1>4, QuietlyRecovered DEF Recovered
<1> QED BY <1>3, <1>4 DEF Add, Refuse, TestFails, ConfirmFails, Check

\* Connections and processes that come and go.
LEMMA ComesRecovered ==
  ASSUME IInv, Next, Recovered, NEW p \in Process, Connect(p) \/ EndOfFile(p) \/ Kill(p)
  PROVE  Recovered'
<1> Typed /\ TypeOK
  BY DEF IInv, Typed
<1>1. table' = table /\ disk' = disk
  BY DEF Connect, EndOfFile, Kill
<1>2. Steady
  <2>1. CASE Connect(p)
    <3>1. PICK s \in Socket :
            /\ thread[s] = None
            /\ thread' = [thread EXCEPT ![s] = [process |-> p, pc |-> "add", request |-> None,
                                                target |-> None, error |-> FALSE]]
      BY <2>1 DEF Connect
    <3> QED BY <3>1 DEF Steady, At, TypeOK
  <2> QED BY <2>1 DEF EndOfFile, Kill, Steady, At
<1>3. \A k \in Key, n \in Name : Expected(k, n)' => Expected(k, n)
  BY <1>1, <1>2, NoneExpected
<1>4. ASSUME NEW q \in Process
      PROVE  \/ process'[q] \in {process[q], Stopped}
             \/ /\ process'[q].socket # None /\ process'[q].keys = process[q].keys
                /\ process'[q].config \in {"garbled", process[q].config}
  <2>1. CASE Connect(p)
    <3>1. PICK x \in Socket : process' = [process EXCEPT ![p].socket = x]
      BY <2>1 DEF Connect
    <3>2. x # None
      BY ConstantsAssumption DEF Socket
    <3> QED BY <3>1, <3>2 DEF TypeOK
  <2> QED BY <2>1 DEF EndOfFile, Kill, TypeOK
<1> QED BY <1>3, <1>4, QuietlyRecovered DEF Recovered

\* A key that a process replaces leaves its files as well.
LEMMA ReplaceRecovered ==
  ASSUME IInv, Next, Recovered, NEW p \in Process, NEW k \in Key, Replace(p, k)
  PROVE  Recovered'
<1> TypeOK
  BY DEF IInv, Typed
<1>1. /\ table' = table /\ thread' = thread
      /\ disk' = [disk EXCEPT ![NameOf[p]] = disk[NameOf[p]] \ {k}]
      /\ process' = [process EXCEPT ![p].keys = process[p].keys \ {k}]
  BY DEF Replace
<1>2. ASSUME NEW q \in Process PROVE RecoveredBy(q)'
  <2>1. NameOf[q] \in Name
    BY ConstantsAssumption
  <2>2. process'[q].socket = process[q].socket /\ process'[q].config = process[q].config
    BY <1>1 DEF TypeOK
  <2>3. \A l \in Key : l \in disk'[NameOf[q]] /\ l \in process[q].keys => l \in process'[q].keys
    BY <1>1, <2>1 DEF TypeOK
  <2>4. \A l \in Key : Expected(l, NameOf[q])' => Expected(l, NameOf[q]) /\ l \in disk'[NameOf[q]]
    BY <1>1, <2>1 DEF Expected, Compacting, At, TypeOK
  <2>5. Informed(q) => Informed(q)'
    BY <2>3, <2>4 DEF Informed
  <2> QED BY <2>2, <2>5, RecoveredStays DEF Recovered, RecoveredBy
<1> QED BY <1>2 DEF Recovered

\* A thread that compacts holds its request.
LEMMA NobodyCompacts ==
  ASSUME Typed', NEW s \in Socket, ~Held(s)'
  PROVE  ~At(s, "compact")'
BY NoneAssumption DEF Typed, RequestsAtHand, Held, At, Serving

\* A GET, dispatching a sentence and pushing it: nobody compacts meanwhile.
LEMMA SentencesRecovered ==
  ASSUME IInv, IInv', Alone, Next, Placed, Recovered, NEW e \in Esi,
         \/ \E k \in Key : Get(e, k)
         \/ \E op \in {"SET", "STORE"}, k \in Key, n \in Name \cup {None} : Sentence(e, op, k, n)
         \/ PushSentence(e)
  PROVE  Recovered'
<1> Typed /\ Typed' /\ TypeOK
  BY DEF IInv, Typed
<1>1. Nowhere
  BY NothingRequested DEF Get, Sentence, PushSentence
<1>2. thread' = thread /\ process' = process /\ disk' = disk
  BY DEF Get, Sentence, PushSentence
<1>3. \A s \in Socket : ~At(s, "compact")'
  BY <1>1, <1>2, NobodyCompacts DEF Nowhere, Held
<1>4. \A k \in Key : table'[k] \in {table[k], None} \/ ~table'[k].initialized
  <2>1. ASSUME NEW k \in Key, Get(e, k)
        PROVE  \A l \in Key : table'[l] = table[l] \/ table'[l] = [instance |-> None, initialized |-> FALSE]
    BY <2>1 DEF Get, Created, TypeOK
  <2>2. ASSUME NEW op \in {"SET", "STORE"}, NEW k \in Key, NEW n \in Name \cup {None},
               Sentence(e, op, k, n)
        PROVE  \A l \in Key : table'[l] \in {table[l], None} \/ ~table'[l].initialized
    <3>1. Dispatch(k, {}, n)
      BY <2>2 DEF Sentence
    <3>2. /\ \A l \in Key \ {k} : table'[l] = table[l]
          /\ \/ table'[k] \in {table[k], None}
             \/ table'[k] = [instance |-> n, initialized |-> FALSE]
      BY <3>1, Dispatched
    <3> QED BY <3>2
  <2> QED BY <2>1, <2>2 DEF PushSentence
<1>5. \A k \in Key, n \in Name : Expected(k, n)' => Expected(k, n)
  BY <1>2, <1>3, <1>4, NoneExpected DEF Steady
<1> QED BY <1>2, <1>5, QuietlyRecovered DEF Recovered

\* A request that is popped.
LEMMA PopRecovered ==
  ASSUME IInv, Alone, Next, Recovered, NEW s \in Socket, Pop(s)
  PROVE  Recovered'
<1> Typed /\ TypeOK
  BY DEF IInv, Typed
<1>1. process' = process /\ disk' = disk /\ table' = table /\ thread[s] # None
  BY DEF Pop, At
<1>2. Steady
  <2>1. CASE Return(s)
    BY <1>1, <2>1, ThreadSteady
  <2>2. CASE thread'[s].pc = "serve" /\ \A x \in Socket \ {s} : thread'[x] = thread[x]
    BY <2>2 DEF Steady, At
  <2> QED BY <2>1, <2>2, PopsOne
<1>3. \A k \in Key, n \in Name : Expected(k, n)' => Expected(k, n)
  BY <1>1, <1>2, NoneExpected
<1> QED BY <1>1, <1>3, QuietlyRecovered DEF Recovered

\* A request that is not served, or that was when the others compact.
LEMMA UnservedRecovered ==
  ASSUME IInv, Next, Recovered, NEW s \in Socket, thread[s] # None, disk' = disk,
         Over(s) \/ Fails(s) \/ SetFailed(s) \/ Goto(s, "wait") \/ Goto(s, "failed"),
         \A p \in Process :
            \/ process'[p] \in {process[p], Stopped}
            \/ /\ process'[p].socket # None /\ process'[p].keys = process[p].keys
               /\ process'[p].config \in {"garbled", process[p].config},
         \A k \in Key : \/ table'[k] \in {table[k], None}
                        \/ /\ Compacting(k) /\ table[k] # None
                           /\ table'[k].instance = table[k].instance
  PROVE  Recovered'
<1>1. Steady
  BY ThreadSteady DEF IInv
<1>2. \A k \in Key, n \in Name : Expected(k, n)' => Expected(k, n)
  BY <1>1, NoneExpected
<1> QED BY <1>2, QuietlyRecovered DEF Recovered

\* The same where the table only loses a key, and the processes stay what they are.
LEMMA LostRecovered ==
  ASSUME IInv, Next, Recovered, NEW s \in Socket,
         StoreRefused(s) \/ StoreFailed(s) \/ Fails(s) \/ SetFailed(s)
  PROVE  Recovered'
<1> TypeOK
  BY DEF IInv, Typed
<1>1. thread[s] # None /\ disk' = disk /\ process' = process
      /\ (Over(s) \/ Fails(s) \/ SetFailed(s))
  BY DEF StoreRefused, StoreFailed, Fails, SetFailed, Answered, Sends, At
<1>2. \A k \in Key : table'[k] \in {table[k], None}
  BY DEF StoreRefused, StoreFailed, Fails, SetFailed, Removed, TypeOK
<1> QED BY <1>1, <1>2, UnservedRecovered

\* A request that garbles a process, and a compaction, which may garble many.
LEMMA GarblesRecovered ==
  ASSUME IInv, Next, Recovered, Routed, NEW s \in Socket, NoAnswer(s) \/ Compact(s)
  PROVE  Recovered'
<1> Typed /\ TypeOK
  BY DEF IInv, Typed
<1>1. /\ thread[s] # None /\ thread[s].pc \in Serving /\ disk' = disk
      /\ (Over(s) \/ Goto(s, "wait"))
  BY DEF NoAnswer, Compact, Sends, At, Serving
<1>2. fd[InstanceOf(s)] \in Socket \cup {DISCONNECTED} /\ thread[s].request.key \in Key
  BY <1>1, ServingType
<1>3. CASE NoAnswer(s)
  <2>1. table' = table /\ process' = [process EXCEPT ![Peer(fd[InstanceOf(s)])].config = "garbled"]
    BY <1>3 DEF NoAnswer
  <2>2. /\ Peer(fd[InstanceOf(s)]) \in Process
        /\ process[Peer(fd[InstanceOf(s)])].socket # None
    BY <1>2, <1>3, PeerType, ConstantsAssumption DEF NoAnswer, Unreachable, Socket
  <2>3. \A k \in Key, n \in Name : Expected(k, n)' => Expected(k, n)
    BY <1>1, <2>1, ThreadSteady, NoneExpected
  <2> QED BY <2>1, <2>2, <2>3, GarbledRecovered
<1>4. CASE Compact(s)
  <2> DEFINE k == thread[s].request.key
  <2>1. ASSUME NEW p \in Process
        PROVE  \/ process'[p] \in {process[p], Stopped}
               \/ /\ process'[p].socket # None /\ process'[p].keys = process[p].keys
                  /\ process'[p].config \in {"garbled", process[p].config}
    <3>1. ASSUME NEW n \in Name, Peer(fd[n]) = p PROVE process[p].socket # None
      <4>1. fd[n] \in Socket \cup {DISCONNECTED} /\ p # None
        BY ConstantsAssumption DEF TypeOK
      <4> QED BY <3>1, <4>1, PeerType, ConstantsAssumption DEF Socket
    <3>2. ToSet(list) \subseteq Name
      BY DEF ToSet, TypeOK
    <3>3. \/ process'[p] = process[p]
          \/ /\ process'[p] = [process[p] EXCEPT !.config = "garbled"]
             /\ \E n \in Name : Peer(fd[n]) = p
      BY <1>4, <3>2 DEF Compact
    <3> QED BY <3>1, <3>3 DEF TypeOK
  <2>2. Compacting(k) /\ InstanceFor(k) = InstanceOf(s) /\ InstanceOf(s) \in Name
    BY <1>1, <1>4, ServingType DEF Compact, Compacting, Routed
  <2>3. table[k] # None
    BY <2>2, ConstantsAssumption DEF InstanceFor
  <2>4. table' = [table EXCEPT ![k] = [table[k] EXCEPT !.initialized = TRUE]]
    BY <1>2, <1>4, <2>3 DEF Compact, SetInitialized, TypeOK
  <2>5. \A l \in Key : table'[l] = table[l] \/ (l = k /\ table'[k].instance = table[k].instance)
    BY <1>2, <2>3, <2>4 DEF TypeOK
  <2> HIDE DEF k
  <2> QED BY <1>1, <1>4, <2>1, <2>2, <2>3, <2>5, UnservedRecovered DEF Compact
<1> QED BY <1>3, <1>4

\* A key that is written to the files of an instance is in the memory of the process
\* that is reached through its number; and the request was for that instance.
LEMMA WrittenRecovered ==
  ASSUME IInv, Next, Recovered, Routed, NEW s \in Socket, At(s, "serve"),
         NEW p \in Process, p = Peer(fd[InstanceOf(s)]),
         NEW k \in Key, k = thread[s].request.key,
         process' \in {process, [process EXCEPT ![p].keys = process[p].keys \cup {k}]},
         k \in process'[p].keys,
         disk' = [disk EXCEPT ![NameOf[p]] = disk[NameOf[p]] \cup {k}],
         table' \in {table, SetInitialized(k)},
         Over(s) \/ Goto(s, "compact")
  PROVE  Recovered'
<1> Typed /\ TypeOK
  BY DEF IInv, Typed
<1>1. InstanceOf(s) \in Name /\ InstanceOf(s) # None /\ thread[s] # None
  BY ThreadChanges, ConstantsAssumption DEF At
<1>2. InstanceFor(k) = InstanceOf(s)
  BY DEF Routed
<1>3. table[k] # None /\ table[k].instance = InstanceOf(s)
  BY <1>1, <1>2 DEF InstanceFor
<1>4. /\ \A l \in Key \ {k} : table'[l] = table[l]
      /\ table'[k].instance = InstanceOf(s)
  <2>1. CASE table' = SetInitialized(k)
    <3>1. table' = [table EXCEPT ![k] = [table[k] EXCEPT !.initialized = TRUE]]
      BY <1>3, <2>1 DEF SetInitialized
    <3> QED BY <1>3, <3>1 DEF TypeOK
  <2> QED BY <1>3, <2>1
<1>5. ASSUME NEW l \in Key \ {k} PROVE Compacting(l)' => Compacting(l)
  <2>1. /\ \A x \in Socket \ {s} : thread'[x] = thread[x]
        /\ At(s, "compact")' => thread'[s].request = thread[s].request
    <3>1. CASE Over(s)
      BY <1>1, <3>1, ThreadSteady DEF Steady, At
    <3>2. CASE Goto(s, "compact")
      BY <3>2, GotoType
    <3> QED BY <3>1, <3>2
  <2> QED BY <2>1 DEF Compacting, At
<1>6. ASSUME NEW q \in Process PROVE RecoveredBy(q)'
  <2>1. NameOf[q] \in Name
    BY ConstantsAssumption
  <2>2. /\ process'[q].socket = process[q].socket /\ process'[q].config = process[q].config
        /\ process[q].keys \subseteq process'[q].keys
    <3>1. CASE process' = [process EXCEPT ![p].keys = process[p].keys \cup {k}]
      BY <3>1 DEF TypeOK
    <3> QED BY <3>1
  <2>3. ASSUME Live(q), OnlyItsOwn(q), Informed(q), NEW l \in Key, Expected(l, NameOf[q])'
        PROVE  l \in process'[q].keys
    <3>1. CASE l = k
      <4>1. NameOf[q] = InstanceOf(s)
        BY <1>4, <2>3, <3>1 DEF Expected
      <4>2. fd[InstanceOf(s)] = process[q].socket
        BY <2>1, <2>3, <4>1 DEF OnlyItsOwn, Addressed
      <4>3. q = p
        BY <2>3, <4>2 DEF Live
      <4> QED BY <3>1, <4>3
    <3>2. CASE l # k
      <4>1. l \in disk[NameOf[q]]
        BY <2>1, <2>3, <3>2 DEF Expected, TypeOK
      <4>2. Expected(l, NameOf[q])
        BY <1>4, <1>5, <2>3, <3>2, <4>1 DEF Expected
      <4> QED BY <2>2, <2>3, <4>2 DEF Informed
    <3> QED BY <3>1, <3>2
  <2>4. Live(q) /\ OnlyItsOwn(q) /\ Informed(q) => Informed(q)'
    BY <2>3, ConstantsAssumption DEF Informed
  <2> QED BY <2>2, <2>4, RecoveredStays DEF Recovered, RecoveredBy
<1> QED BY <1>6 DEF Recovered

\* A SET and a STORE that are answered.
LEMMA ServedRecovered ==
  ASSUME IInv, Next, Recovered, Routed, NEW s \in Socket, SetServed(s) \/ StoreServed(s)
  PROVE  Recovered'
<1> Typed /\ TypeOK
  BY DEF IInv, Typed
<1>1. /\ At(s, "serve") /\ thread[s] # None /\ thread[s].pc \in Serving /\ ~Unreachable(s)
  BY DEF SetServed, StoreServed, Answered, Sends, Answers, At, Serving
<1>2. PICK p \in Process, k \in Key : p = Peer(fd[InstanceOf(s)]) /\ k = thread[s].request.key
  BY <1>1, ServingType, PeerType DEF Unreachable
<1>3. CASE StoreServed(s)
  <2>1. /\ disk' = [disk EXCEPT ![NameOf[p]] = disk[NameOf[p]] \cup {k}]
        /\ table' = table /\ process' = process /\ k \in process[p].keys /\ Over(s)
    BY <1>2, <1>3 DEF StoreServed
  <2> QED BY <1>1, <1>2, <2>1, WrittenRecovered
<1>4. CASE SetDone(s) /\ table' \in {table, SetInitialized(k)} /\ (Over(s) \/ Goto(s, "compact"))
  <2>1. /\ process' = [process EXCEPT ![p].keys = process[p].keys \cup {k}]
        /\ disk' = [disk EXCEPT ![NameOf[p]] = disk[NameOf[p]] \cup {k}]
    BY <1>2, <1>4 DEF SetDone
  <2>2. k \in process'[p].keys
    BY <2>1 DEF TypeOK
  <2> QED BY <1>1, <1>2, <1>4, <2>1, <2>2, WrittenRecovered
<1>5. CASE process' = process /\ disk' = disk /\ table' = Removed(k) /\ Over(s)
  <2>1. \A l \in Key : table'[l] \in {table[l], None}
    BY <1>5 DEF Removed, TypeOK
  <2> QED BY <1>1, <1>5, <2>1, UnservedRecovered
<1>6. CASE process' = [process EXCEPT ![p] = Stopped] /\ disk' = disk /\ table' = table /\ Goto(s, "failed")
  <2>1. \A q \in Process : process'[q] \in {process[q], Stopped}
    BY <1>6 DEF TypeOK
  <2> QED BY <1>1, <1>6, <2>1, UnservedRecovered
<1> QED BY <1>2, <1>3, <1>4, <1>5, <1>6 DEF SetServed

\* A SET that is dispatched again, and pushed.
LEMMA FailedSetRecovered ==
  ASSUME IInv, IInv', Alone, Alone', Next, Placed, Recovered, NEW s \in Socket,
         PushFailedSet(s) \/ \E n \in Name \cup {None} : DispatchFailedSet(s, n)
  PROVE  Recovered'
<1> Typed /\ Typed' /\ TypeOK
  BY DEF IInv, Typed
<1>1. thread[s] # None /\ thread[s].pc \in Serving /\ process' = process /\ disk' = disk
  BY DEF PushFailedSet, DispatchFailedSet, At, Serving
<1>2. CASE PushFailedSet(s)
  BY <1>1, <1>2, UnservedRecovered DEF PushFailedSet
<1>3. ASSUME NEW n \in Name \cup {None}, DispatchFailedSet(s, n) PROVE Recovered'
  <2>1. /\ Steady /\ (thread'[s] = None \/ thread'[s].pc # "compact")
        /\ \A x \in Socket \ {s} : thread'[x] = thread[x]
    BY <1>1, <1>3, ThreadSteady DEF DispatchFailedSet
  <2>2. \A x \in Socket : ~At(x, "compact")'
    <3>1. \A x \in Socket \ {s} : ~Held(x)'
      BY <1>1, <2>1, ServingHeld, HolderServes DEF WithThread, Held
    <3> QED BY <2>1, <3>1, NobodyCompacts DEF At
  <2>3. PICK k \in Key, excluded \in SUBSET Name : Dispatch(k, excluded, n)
    BY <1>1, <1>3, ServingType DEF DispatchFailedSet, Request
  <2>4. \A l \in Key : table'[l] \in {table[l], None} \/ ~table'[l].initialized
    <3>1. /\ \A l \in Key \ {k} : table'[l] = table[l]
          /\ \/ table'[k] \in {table[k], None}
             \/ table'[k] = [instance |-> n, initialized |-> FALSE]
      BY <2>3, Dispatched
    <3> QED BY <3>1
  <2>5. \A l \in Key, m \in Name : Expected(l, m)' => Expected(l, m)
    BY <1>1, <2>1, <2>2, <2>4, NoneExpected
  <2> QED BY <1>1, <2>5, QuietlyRecovered DEF Recovered
<1> QED BY <1>2, <1>3

\* The configuration goes to the process that has the number of the instance: if no other
\* instance has it, the process has the keys of its own name.
LEMMA ConfirmRecovered ==
  ASSUME IInv, Next, Recovered, NEW s \in Socket, Confirm(s)
  PROVE  Recovered'
<1> Typed /\ TypeOK
  BY DEF IInv, Typed
<1>1. thread[s] # None /\ table' = table /\ disk' = disk /\ fd' = fd /\ Goto(s, "pop")
  BY DEF Confirm, At
<1>2. PICK n \in Name : n = InstanceOf(s) /\ fd[n] \in Socket \cup {DISCONNECTED}
  BY <1>1, ThreadChanges DEF TypeOK
<1>3. PICK p \in Process \cup {None} :
          p = Peer(fd[n]) /\ (p # None => process[p].socket = fd[n] /\ fd[n] # None)
  <2>1. Peer(fd[n]) \in Process \cup {None}
        /\ (Peer(fd[n]) # None => process[Peer(fd[n])].socket = fd[n] /\ fd[n] \in Socket)
    BY <1>2, PeerType
  <2> QED BY <2>1, ConstantsAssumption DEF Socket
<1>4. \A k \in Key, m \in Name : Expected(k, m)' => Expected(k, m)
  BY <1>1, ThreadSteady, NoneExpected
<1>5. process' = IF p = None THEN process ELSE [process EXCEPT ![p] = Configured(p, n)]
  BY <1>2, <1>3 DEF Confirm
<1>6. ASSUME NEW q \in Process, process'[q] \in {process[q], Stopped} PROVE RecoveredBy(q)'
  BY <1>4, <1>6, QuietlyRecovered DEF Recovered
<1>7. CASE p # None /\ process[p].config = "no"
  <2>1. process' = [process EXCEPT ![p] = [process[p] EXCEPT
                       !.config = "yes", !.keys = InstanceKeyList(n) \cap disk[NameOf[p]]]]
    BY <1>5, <1>7 DEF Configured
  <2>2. /\ process'[p].socket = fd[n] /\ process'[p].keys = InstanceKeyList(n) \cap disk[NameOf[p]]
        /\ \A q \in Process \ {p} : process'[q] = process[q]
    BY <1>3, <1>7, <2>1 DEF TypeOK
  <2>3. Addressed(p, n)' /\ process'[p].socket # None
    BY <1>1, <1>3, <1>7, <2>2 DEF Addressed
  <2>4. ASSUME OnlyItsOwn(p)' PROVE Informed(p)'
    <3>1. NameOf[p] = n
      BY <1>2, <2>3, <2>4 DEF OnlyItsOwn
    <3>2. \A k \in Key : Expected(k, n)' => k \in InstanceKeyList(n) \cap disk[n]
      BY <1>1, <1>2 DEF Expected, InstanceKeyList, InstanceFor
    <3> QED BY <2>2, <3>1, <3>2 DEF Informed
  <2>5. RecoveredBy(p)'
    BY <1>2, <2>3, <2>4 DEF RecoveredBy
  <2> QED BY <1>6, <2>2, <2>5 DEF Recovered
<1>8. CASE p = None \/ process[p].config # "no"
  <2>1. p = None \/ Configured(p, n) \in {process[p], Stopped}
    BY <1>3, <1>8 DEF Configured, TypeOK
  <2>2. \A q \in Process : process'[q] \in {process[q], Stopped}
    BY <1>3, <1>5, <2>1 DEF TypeOK
  <2> QED BY <1>6, <2>2 DEF Recovered
<1> QED BY <1>7, <1>8

\* Every step.
LEMMA StepRecovered ==
  ASSUME AInv, AInv', Routed, Placed, Recovered, Next
  PROVE  Recovered'
<1> IInv /\ IInv' /\ Alone /\ Alone'
  BY DEF AInv
<1>1. ASSUME NEW s \in Socket, InstanceStep(s) PROVE Recovered'
  <2>1. CASE Add(s) \/ Refuse(s) \/ Test(s) \/ TestFails(s) \/ ConfirmFails(s) \/ Check(s)
    BY <2>1, IdleRecovered
  <2>2. CASE Confirm(s)
    BY <2>2, ConfirmRecovered
  <2>3. CASE Pop(s)
    BY <2>3, PopRecovered
  <2>4. CASE NoAnswer(s) \/ Compact(s)
    BY <2>4, GarblesRecovered
  <2>5. CASE StoreRefused(s) \/ StoreFailed(s) \/ Fails(s) \/ SetFailed(s)
    BY <2>5, LostRecovered
  <2>6. CASE SetServed(s) \/ StoreServed(s)
    BY <2>6, ServedRecovered
  <2>7. CASE PushFailedSet(s) \/ \E n \in Name \cup {None} : DispatchFailedSet(s, n)
    BY <2>7, FailedSetRecovered
  <2> QED BY <1>1, <2>1, <2>2, <2>3, <2>4, <2>5, <2>6, <2>7 DEF InstanceStep
<1> QED BY <1>1, SentencesRecovered, ComesRecovered, ReplaceRecovered DEF Next

RInv == AInv /\ Routed /\ Placed /\ Recovered

\* At the start nothing is requested, and nothing runs.
LEMMA RecoveredInit == Init => Routed /\ Placed /\ Recovered
BY ConstantsAssumption
   DEF Init, Routed, Placed, Recovered, RecoveredBy, At, Idle, Live, InstanceFor

\* And so they hold throughout.
LEMMA RecoveredHolds == Spec => []RInv
<1>1. Init => RInv
  BY TypeInit, ConnectedInit, AloneInit, RecoveredInit DEF IInv, AInv, RInv
<1>2. RInv /\ AInv' /\ [Next]_vars => RInv'
  <2> SUFFICES ASSUME RInv, AInv', [Next]_vars PROVE Routed' /\ Placed' /\ Recovered'
    BY DEF RInv
  <2>1. CASE Next
    BY <2>1, StepRouted, StepRecovered DEF RInv, AInv, IInv
  <2>2. CASE UNCHANGED vars
    BY <2>2 DEF vars, RInv, Routed, Placed, Recovered, RecoveredBy, At, InstanceFor, InstanceOf,
                Live, Peer, Addressed, OnlyItsOwn, Informed, Expected, Compacting
  <2> QED BY <2>1, <2>2
<1>3. RInv => AInv
  BY DEF RInv
<1> QED BY <1>1, <1>2, AloneHolds, PTL DEF Spec

\* Where every number is its instance's own, each is that of one process only.
LEMMA OwnNumbers ==
  ASSUME TypeOK, OwnSocket, NEW n \in Name, Peer(fd[n]) # None
  PROVE  \E p \in Process : /\ p = Peer(fd[n]) /\ NameOf[p] = n
                            /\ Live(p) /\ OnlyItsOwn(p)
<1>1. fd[n] \in Socket \cup {DISCONNECTED} /\ DISCONNECTED \notin Socket /\ None \notin Socket
  BY ConstantsAssumption DEF TypeOK, Socket
<1>2. PICK p \in Process : p = Peer(fd[n])
  BY <1>1, PeerType
<1>3. fd[n] \in Socket /\ p = thread[fd[n]].process /\ process[p].socket = fd[n]
  BY <1>1, <1>2, PeerType
<1>4. NameOf[p] = n
  BY <1>1, <1>3 DEF OwnSocket, InstanceOf
<1>5. \A m \in Name : fd[m] = fd[n] => m = n
  BY <1>1, <1>3 DEF OwnSocket
<1> QED BY <1>1, <1>2, <1>3, <1>4, <1>5 DEF Live, OnlyItsOwn, Addressed

\* An instance that is started again has all the keys of which it has files and the
\* table an initialised row, whatever failed before, while every number is its own.
THEOREM RestartsRecover == Spec => []FilesAreRecovered
<1>1. RInv => FilesAreRecovered
  <2> SUFFICES ASSUME RInv, OwnSocket, NEW k \in Key, table[k] # None, table[k].initialized,
                      NEW n, n = table[k].instance, Peer(fd[n]) # None,
                      process[Peer(fd[n])].config = "yes", k \in disk[n]
               PROVE  k \in process[Peer(fd[n])].keys
    BY DEF FilesAreRecovered
  <2>1. TypeOK
    BY DEF RInv, AInv, IInv, Typed
  <2>2. n \in Name
    BY <2>1 DEF TypeOK, RInv, Placed
  <2>3. PICK p \in Process : p = Peer(fd[n]) /\ NameOf[p] = n /\ Live(p) /\ OnlyItsOwn(p)
    BY <2>1, <2>2, OwnNumbers
  <2>4. Informed(p)
    BY <2>3 DEF RInv, Recovered, RecoveredBy
  <2> QED BY <2>3, <2>4 DEF Informed, Expected
<1> QED BY <1>1, RecoveredHolds, PTL
=============================================================================
