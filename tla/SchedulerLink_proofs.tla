------------------------- MODULE SchedulerLink_proofs -------------------------
(***************************************************************************)
(* What holds of the link between the coordinator and the scheduler for    *)
(* any threads and any number of sentences and status commands.  First,    *)
(* however many sentences are in flight: protocol_recv_sem is a token.     *)
(* Then, with one sentence at a time: the thread that asks gets its own    *)
(* answer, from the slot or from the socket.                               *)
(***************************************************************************)
EXTENDS SchedulerLink, FiniteSetTheorems, SequenceTheorems, TLAPS

-----------------------------------------------------------------------------
(* Types *)

\* The words that are sent to the scheduler.
Sent == [kind : Question \cup {"body"}, of : Subject]

\* Only a thread that waits can be woken.
ThreadTyped ==
    /\ thread \in [Thread -> [pc : Place, woken : BOOLEAN]]
    /\ \A t \in Thread : thread[t].woken => thread[t].pc \in Waiting

\* The types as they hold with any number of sentences in flight: of the semaphores
\* it is known only that they are numbers.
Typed ==
    /\ toScheduler \in Seq(Sent) /\ toCoordinator \in Seq(Word)
    /\ mutex \in Nat /\ recvSem \in Nat /\ pendingSem \in Nat
    /\ main \in [pc : {"select", "wait", "body", "lost"}, op : Question, of : Subject]
    /\ console \in {"idle", "locked"}
    /\ asked \in Nat /\ shown \in Nat
    /\ pending \in Word
    /\ reader \in {"wait", "recv", "status", "state"}
    /\ ThreadTyped
    /\ sentences \in Nat
    /\ running \in BOOLEAN

\* A word that is sent.
LEMMA Words ==
  ASSUME NEW kind, NEW of \in Subject
  PROVE  /\ kind \in Question \cup Answer => W(kind, of) \in Word
         /\ kind \in Question \cup {"body"} => W(kind, of) \in Sent
         /\ W(kind, of).kind = kind /\ W(kind, of).of = of
BY DEF W, Word, Sent

\* The first word of a queue, and what it leaves.
LEMMA FirstWord ==
  ASSUME NEW S, NEW q \in Seq(S), q # <<>>
  PROVE  Tail(q) \in Seq(S) /\ Head(q) \in S /\ Head(q) = q[1] /\ 1 \in DOMAIN q
<1>1. Tail(q) \in Seq(S) /\ Head(q) \in S
  BY HeadTailProperties
<1> QED BY <1>1

\* A thread that goes on to pc.
LEMMA GoToType ==
  ASSUME Typed, NEW t \in Thread, NEW pc \in Place, GoTo(t, pc)
  PROVE  /\ ThreadTyped'
         /\ thread'[t].pc = pc /\ thread'[t].woken = FALSE
         /\ \A s \in Thread \ {t} : thread'[s] = thread[s]
BY DEF Typed, ThreadTyped, GoTo

\* Sending and replying.
LEMMA SendType ==
  ASSUME Typed, NEW kind, NEW of \in Subject
  PROVE  /\ kind \in Question \cup {"body"} => Append(toScheduler, W(kind, of)) \in Seq(Sent)
         /\ kind \in Question \cup Answer => Append(toCoordinator, W(kind, of)) \in Seq(Word)
BY Words, AppendProperties DEF Typed

LEMMA TypedInit == Init => Typed
BY DEF Init, Typed, ThreadTyped, W, Word, Subject, Place, Waiting, Question

\* The steps of the threads with a sentence.
LEMMA SentenceTyped ==
  ASSUME Typed, NEW t \in Thread, Ask(t) \/ Sentence(t)
  PROVE  Typed'
<1> t \in Subject
  BY DEF Subject
<1>1. CASE Ask(t)
  <2>1. toScheduler' \in Seq(Sent)
    BY <1>1, SendType DEF Ask, Send, Question
  <2>2. ThreadTyped'
    BY <1>1, GoToType DEF Ask, Place
  <2> QED BY <1>1, <2>1, <2>2 DEF Ask, Typed, scheduler
<1>2. CASE SendKey(t)
  <2>1. toScheduler' \in Seq(Sent)
    BY <1>2, SendType DEF SendKey, Send
  <2>2. ThreadTyped'
    BY <1>2, GoToType DEF SendKey, Place, Waiting
  <2> QED BY <1>2, <2>1, <2>2 DEF SendKey, Typed, scheduler
<1>3. CASE Wake(t)
  <2>1. ThreadTyped'
    BY <1>3 DEF Wake, Typed, ThreadTyped
  <2>2. pendingSem' \in Nat
    BY <1>3 DEF Wake, Typed
  <2> QED BY <1>3, <2>1, <2>2 DEF Wake, Typed, scheduler
<1>4. CASE ReadState(t)
  <2>1. CASE pending.kind = "KEY_IS_NOT_BLOCKED"
    <3>1. ThreadTyped'
      BY <1>4, <2>1, GoToType DEF ReadState, Place
    <3> QED BY <1>4, <2>1, <3>1 DEF ReadState, Typed, scheduler
  <2>2. CASE pending.kind = "KEY_IS_BLOCKED"
    <3>1. ThreadTyped'
      BY <1>4, <2>2, GoToType DEF ReadState, Place
    <3>2. toScheduler' \in Seq(Sent)
      BY <1>4, <2>2, SendType DEF ReadState, Send, Question
    <3> QED BY <1>4, <2>2, <3>1, <3>2 DEF ReadState, Typed, scheduler
  <2>3. CASE pending.kind \notin {"KEY_IS_NOT_BLOCKED", "KEY_IS_BLOCKED"}
    BY <1>4, <2>3 DEF ReadState, Typed, ThreadTyped, scheduler
  <2> QED BY <2>1, <2>2, <2>3
<1>5. CASE ReadOwner(t)
  <2>1. toCoordinator' \in Seq(Word)
    BY <1>5, FirstWord DEF ReadOwner, Typed
  <2>2. CASE Head(toCoordinator).kind \in OwnerAnswer
    <3>1. ThreadTyped'
      BY <1>5, <2>2, GoToType DEF ReadOwner, Place
    <3> QED BY <1>5, <2>1, <2>2, <3>1 DEF ReadOwner, Typed, scheduler
  <2>3. CASE Head(toCoordinator).kind \notin OwnerAnswer
    BY <1>5, <2>1, <2>3 DEF ReadOwner, Typed, ThreadTyped, scheduler
  <2> QED BY <2>2, <2>3
<1>6. CASE BlockKey(t)
  <2>1. toScheduler' \in Seq(Sent)
    BY <1>6, SendType DEF BlockKey, Send, Question, Typed
  <2>2. ThreadTyped'
    BY <1>6, GoToType DEF BlockKey, Place, Waiting
  <2> QED BY <1>6, <2>1, <2>2 DEF BlockKey, Typed, scheduler
<1>7. CASE UnblockKey(t)
  <2>1. toScheduler' \in Seq(Sent)
    BY <1>7, SendType DEF UnblockKey, Send, Question, Typed
  <2>2. ThreadTyped'
    BY <1>7, GoToType DEF UnblockKey, Place
  <2> QED BY <1>7, <2>1, <2>2 DEF UnblockKey, Typed, scheduler
<1>8. CASE Acknowledged(t)
  <2>1. ThreadTyped'
    BY <1>8, GoToType DEF Acknowledged, Place
  <2> QED BY <1>8, <2>1 DEF Acknowledged, Typed, scheduler
<1> QED BY <1>1, <1>2, <1>3, <1>4, <1>5, <1>6, <1>7, <1>8 DEF Sentence

\* The steps of the thread that reads the socket.
LEMMA ReaderTyped ==
  ASSUME Typed, Reader
  PROVE  Typed'
<1> Status \in Subject
  BY DEF Subject
<1>1. CASE ReaderWait
  BY <1>1 DEF ReaderWait, Typed, ThreadTyped, scheduler
<1>2. CASE ReaderRecv
  <2>1. toCoordinator' \in Seq(Word) /\ Head(toCoordinator) \in Word
    BY <1>2, FirstWord DEF ReaderRecv, Typed
  <2> QED BY <1>2, <2>1 DEF ReaderRecv, Typed, ThreadTyped, scheduler
<1>3. CASE SendStatus
  <2>1. toScheduler' \in Seq(Sent)
    BY <1>3, SendType DEF SendStatus, Send, Question
  <2> QED BY <1>3, <2>1 DEF SendStatus, Typed, ThreadTyped, scheduler
<1> QED BY <1>1, <1>2, <1>3 DEF Reader

\* The steps of the scheduler's two threads.
LEMMA SchedulerTyped ==
  ASSUME Typed, Main \/ StatusLock \/ StatusSend
  PROVE  Typed'
<1> Status \in Subject
  BY DEF Subject
<1>1. CASE Receive
  <2> DEFINE w == Head(toScheduler)
  <2>1. toScheduler' \in Seq(Sent) /\ w.kind \in Question \cup {"body"} /\ w.of \in Subject
    <3>1. toScheduler' \in Seq(Sent) /\ w \in Sent
      BY <1>1, FirstWord DEF Receive, Typed
    <3> QED BY <3>1 DEF Sent
  <2>2. \A answer \in OwnerAnswer : Append(toCoordinator, W(answer, w.of)) \in Seq(Word)
    BY <2>1, SendType DEF OwnerAnswer, Answer
  <2> HIDE DEF w
  <2>3. \/ main' = [main EXCEPT !.pc = "lost"] /\ UNCHANGED <<toCoordinator, mutex>>
        \/ toCoordinator' \in Seq(Word) /\ mutex' = mutex + 1 /\ UNCHANGED main
        \/ /\ w.kind \in Question
           /\ main' = [pc |-> "wait", op |-> w.kind, of |-> w.of]
           /\ UNCHANGED <<toCoordinator, mutex>>
    BY <1>1, <2>1, <2>2 DEF Receive, Reply, w
  <2>4. /\ main' \in [pc : {"select", "wait", "body", "lost"}, op : Question, of : Subject]
        /\ toCoordinator' \in Seq(Word) /\ mutex' \in Nat
    <3>1. /\ main \in [pc : {"select", "wait", "body", "lost"}, op : Question, of : Subject]
          /\ toCoordinator \in Seq(Word) /\ mutex \in Nat
      BY DEF Typed
    <3>2. toCoordinator' \in Seq(Word) /\ mutex' \in Nat
      BY <2>3, <3>1
    <3> QED BY <2>1, <2>3, <3>1, <3>2
  <2> QED BY <1>1, <2>1, <2>4 DEF Receive, Typed, ThreadTyped, coordinator
<1>2. CASE Lock
  <2>1. Append(toCoordinator, W("KEY_BLOCKED_SUCCESFULLY", main.of)) \in Seq(Word)
    <3>1. main.of \in Subject
      BY DEF Typed
    <3> QED BY <3>1, SendType DEF Answer
  <2>2. toCoordinator' \in Seq(Word)
    BY <1>2, <2>1 DEF Lock, Reply, Typed
  <2> QED BY <1>2, <2>2 DEF Lock, Typed, ThreadTyped, coordinator
<1>3. CASE Body
  <2>1. toScheduler' \in Seq(Sent) /\ main.of \in Subject
    BY <1>3, FirstWord DEF Body, Typed
  <2>2. \A kind \in Answer : Append(toCoordinator, W(kind, main.of)) \in Seq(Word)
    BY <2>1, SendType
  <2>4. toCoordinator' \in Seq(Word)
    BY <1>3, <2>2 DEF Body, Reply, Answer, Typed
  <2>3. mutex' \in Nat /\ shown' \in Nat /\ \E pc \in {"select", "lost"} : main' = [main EXCEPT !.pc = pc]
    BY <1>3 DEF Body, Typed
  <2> QED BY <1>3, <2>1, <2>3, <2>4 DEF Body, Typed, ThreadTyped, coordinator
<1>4. CASE StatusLock
  BY <1>4 DEF StatusLock, Typed, ThreadTyped, coordinator
<1>5. CASE StatusSend
  <2>1. toCoordinator' \in Seq(Word)
    BY <1>5, SendType DEF StatusSend, Reply, Question
  <2> QED BY <1>5, <2>1 DEF StatusSend, Typed, ThreadTyped, coordinator
<1> QED BY <1>1, <1>2, <1>3, <1>4, <1>5 DEF Main

\* Every step keeps the types.
LEMMA StepTyped == Typed /\ [Next]_vars => Typed'
<1> SUFFICES ASSUME Typed, [Next]_vars PROVE Typed'
  OBVIOUS
<1>1. CASE Next
  BY <1>1, SentenceTyped, ReaderTyped, SchedulerTyped DEF Next
<1>2. CASE UNCHANGED vars
  BY <1>2 DEF vars, scheduler, coordinator, Typed, ThreadTyped
<1> QED BY <1>1, <1>2

-----------------------------------------------------------------------------
(* The token, with any number of sentences in flight *)

Woken == {t \in Thread : thread[t].woken}
Directs == {t \in Thread : thread[t].pc = "direct"}

\* protocol_recv_sem, the slot, the reader, who has been woken, who reads the socket.
Tokens(recv, pend, read, woken, directs) ==
    recv + pend + (IF read = "wait" THEN 0 ELSE 1) + Cardinality(woken) + Cardinality(directs)

TokenInv ==
    /\ Typed
    /\ IsFiniteSet(Woken) /\ IsFiniteSet(Directs)
    /\ Tokens(recvSem, pendingSem, reader, Woken, Directs) = 1

\* At the start it is in protocol_recv_sem.
LEMMA TokenInit == Init => TokenInv
<1> SUFFICES ASSUME Init PROVE TokenInv
  OBVIOUS
<1>1. Woken = {} /\ Directs = {}
  BY DEF Init, Woken, Directs
<1> QED BY <1>1, TypedInit, FS_EmptySet DEF Init, TokenInv, Tokens

\* A thread that goes from one line to another is woken no more.
LEMMA WhoGoes ==
  ASSUME Typed, NEW t \in Thread, NEW pc \in Place, GoTo(t, pc)
  PROVE  /\ Woken' = Woken \ {t}
         /\ Directs' = IF pc = "direct" THEN Directs \cup {t} ELSE Directs \ {t}
BY GoToType DEF Woken, Directs

\* The token stays where it is while the slot, the reader and those threads do.
LEMMA TokenStays ==
  ASSUME TokenInv, Typed', UNCHANGED <<recvSem, pendingSem, reader>>,
         Woken' = Woken, Directs' = Directs
  PROVE  TokenInv'
BY DEF TokenInv, Tokens

\* A thread hands it from one of the five places to the next.
LEMMA SentenceToken ==
  ASSUME TokenInv, NEW t \in Thread, Ask(t) \/ Sentence(t)
  PROVE  TokenInv'
<1> Typed /\ Typed'
  BY SentenceTyped DEF TokenInv
<1> DEFINE w == Cardinality(Woken)
           d == Cardinality(Directs)
<1>1. /\ w \in Nat /\ d \in Nat /\ recvSem \in Nat /\ pendingSem \in Nat
      /\ IsFiniteSet(Woken) /\ IsFiniteSet(Directs)
      /\ recvSem + pendingSem + (IF reader = "wait" THEN 0 ELSE 1) + w + d = 1
  BY FS_CardinalityType DEF TokenInv, Tokens, Typed
<1>2. /\ IsFiniteSet(Woken \cup {t}) /\ Cardinality(Woken \cup {t}) = IF t \in Woken THEN w ELSE w + 1
      /\ IsFiniteSet(Woken \ {t}) /\ Cardinality(Woken \ {t}) = IF t \in Woken THEN w - 1 ELSE w
  BY <1>1, FS_AddElement, FS_RemoveElement
<1>3. /\ IsFiniteSet(Directs \cup {t}) /\ Cardinality(Directs \cup {t}) = IF t \in Directs THEN d ELSE d + 1
      /\ IsFiniteSet(Directs \ {t}) /\ Cardinality(Directs \ {t}) = IF t \in Directs THEN d - 1 ELSE d
  BY <1>1, FS_AddElement, FS_RemoveElement
<1>4. t \in Woken => thread[t].pc \in Waiting
  BY DEF Typed, ThreadTyped, Woken
<1> HIDE DEF w, d
<1>5. CASE Ask(t) \/ SendKey(t) \/ BlockKey(t) \/ UnblockKey(t)
  <2>1. PICK pc \in Place \ {"direct"} : GoTo(t, pc)
    BY <1>5 DEF Ask, SendKey, BlockKey, UnblockKey, Place, Waiting
  <2>2. thread[t].pc \notin Waiting /\ thread[t].pc # "direct"
    BY <1>5 DEF Ask, SendKey, BlockKey, UnblockKey, At, Waiting
  <2>3. Woken' = Woken /\ Directs' = Directs
    <3>1. t \notin Woken /\ t \notin Directs
      BY <1>4, <2>2 DEF Directs
    <3> QED BY <2>1, <3>1, WhoGoes
  <2>4. UNCHANGED <<recvSem, pendingSem, reader>>
    BY <1>5 DEF Ask, SendKey, BlockKey, UnblockKey
  <2> QED BY <2>3, <2>4, TokenStays
<1>6. CASE Wake(t)
  <2>1. Woken' = Woken \cup {t} /\ t \notin Woken /\ Directs' = Directs
    BY <1>6 DEF Wake, Woken, Directs, Typed, ThreadTyped
  <2>2. pendingSem' = pendingSem - 1 /\ UNCHANGED <<recvSem, reader>>
    BY <1>6 DEF Wake
  <2>3. Cardinality(Woken') = w + 1 /\ Cardinality(Directs') = d
    BY <1>2, <2>1 DEF d
  <2>4. IsFiniteSet(Woken') /\ IsFiniteSet(Directs')
    BY <1>1, <1>2, <2>1
  <2> QED BY <1>1, <2>2, <2>3, <2>4 DEF TokenInv, Tokens
<1>7. CASE ReadState(t)
  <2>1. t \in Woken /\ t \notin Directs
    BY <1>7 DEF ReadState, At, Woken, Directs
  <2>2. UNCHANGED <<pendingSem, reader>>
    BY <1>7 DEF ReadState
  <2>3. CASE GoTo(t, "free") /\ recvSem' = recvSem + 1
    <3>1. Woken' = Woken \ {t} /\ Directs' = Directs
      BY <2>1, <2>3, WhoGoes DEF Place
    <3>2. Cardinality(Woken') = w - 1 /\ Cardinality(Directs') = d
      BY <1>2, <2>1, <3>1 DEF d
    <3>3. IsFiniteSet(Woken') /\ IsFiniteSet(Directs')
      BY <1>1, <1>2, <3>1
    <3> QED BY <1>1, <2>2, <2>3, <3>2, <3>3 DEF TokenInv, Tokens
  <2>4. CASE GoTo(t, "direct") /\ UNCHANGED recvSem
    <3>1. Woken' = Woken \ {t} /\ Directs' = Directs \cup {t}
      BY <2>1, <2>4, WhoGoes DEF Place
    <3>2. Cardinality(Woken') = w - 1 /\ Cardinality(Directs') = d + 1
      BY <1>2, <1>3, <2>1, <3>1
    <3>3. IsFiniteSet(Woken') /\ IsFiniteSet(Directs')
      BY <1>2, <1>3, <3>1
    <3> QED BY <1>1, <2>2, <2>4, <3>2, <3>3 DEF TokenInv, Tokens
  <2>5. CASE UNCHANGED <<thread, recvSem>>
    BY <2>2, <2>5, TokenStays DEF Woken, Directs
  <2> QED BY <1>7, <2>3, <2>4, <2>5 DEF ReadState
<1>8. CASE ReadOwner(t)
  <2>1. t \notin Woken /\ t \in Directs
    BY <1>4, <1>8 DEF ReadOwner, At, Directs, Waiting
  <2>2. UNCHANGED <<pendingSem, reader>>
    BY <1>8 DEF ReadOwner
  <2>3. CASE recvSem' = recvSem + 1 /\ \E pc \in {"own", "idle"} : GoTo(t, pc)
    <3>1. Woken' = Woken /\ Directs' = Directs \ {t}
      BY <2>1, <2>3, WhoGoes DEF Place
    <3>2. Cardinality(Woken') = w /\ Cardinality(Directs') = d - 1
      BY <1>3, <2>1, <3>1 DEF w
    <3>3. IsFiniteSet(Woken') /\ IsFiniteSet(Directs')
      BY <1>1, <1>3, <3>1
    <3> QED BY <1>1, <2>2, <2>3, <3>2, <3>3 DEF TokenInv, Tokens
  <2>4. CASE UNCHANGED <<thread, recvSem>>
    BY <2>2, <2>4, TokenStays DEF Woken, Directs
  <2> QED BY <1>8, <2>3, <2>4 DEF ReadOwner
<1>9. CASE Acknowledged(t)
  <2>1. t \in Woken /\ t \notin Directs
    BY <1>9 DEF Acknowledged, At, Woken, Directs
  <2>2. UNCHANGED <<pendingSem, reader>> /\ recvSem' = recvSem + 1 /\ GoTo(t, "idle")
    BY <1>9 DEF Acknowledged
  <2>3. Woken' = Woken \ {t} /\ Directs' = Directs
    BY <2>1, <2>2, WhoGoes DEF Place
  <2>4. Cardinality(Woken') = w - 1 /\ Cardinality(Directs') = d
    BY <1>2, <2>1, <2>3 DEF d
  <2>5. IsFiniteSet(Woken') /\ IsFiniteSet(Directs')
    BY <1>1, <1>2, <2>3
  <2> QED BY <1>1, <2>2, <2>4, <2>5 DEF TokenInv, Tokens
<1> QED BY <1>5, <1>6, <1>7, <1>8, <1>9 DEF Sentence

\* So do the reader and, without touching it, the scheduler.
LEMMA StepToken == TokenInv /\ [Next]_vars => TokenInv'
<1> SUFFICES ASSUME TokenInv, [Next]_vars PROVE TokenInv'
  OBVIOUS
<1> Typed /\ Typed'
  BY StepTyped DEF TokenInv
<1>1. ASSUME NEW t \in Thread, Ask(t) \/ Sentence(t) PROVE TokenInv'
  BY <1>1, SentenceToken
<1>2. CASE Reader
  <2>1. Woken' = Woken /\ Directs' = Directs
    BY <1>2 DEF Reader, ReaderWait, ReaderRecv, SendStatus, Woken, Directs
  <2> DEFINE w == Cardinality(Woken)
             d == Cardinality(Directs)
  <2>2. /\ w \in Nat /\ d \in Nat /\ recvSem \in Nat /\ pendingSem \in Nat
        /\ recvSem + pendingSem + (IF reader = "wait" THEN 0 ELSE 1) + w + d = 1
    BY FS_CardinalityType DEF TokenInv, Tokens, Typed
  <2> HIDE DEF w, d
  <2>3. recvSem' + pendingSem' + (IF reader' = "wait" THEN 0 ELSE 1) + w + d = 1
    BY <1>2, <2>2 DEF Reader, ReaderWait, ReaderRecv, SendStatus
  <2> QED BY <2>1, <2>3 DEF TokenInv, Tokens, w, d
<1>3. CASE Main \/ StatusLock \/ StatusSend \/ UNCHANGED vars
  <2>1. UNCHANGED <<recvSem, pendingSem, reader, thread>>
    BY <1>3 DEF Main, Receive, Lock, Body, StatusLock, StatusSend, vars, coordinator
  <2> QED BY <2>1, TokenStays DEF Woken, Directs
<1> QED BY <1>1, <1>2, <1>3 DEF Next

LEMMA TokenHolds == Spec => []TokenInv
BY TokenInit, StepToken, PTL DEF Spec

\* Who has it is alone.
LEMMA OneHolder ==
  ASSUME TokenInv
  PROVE  /\ recvSem \in 0..1 /\ pendingSem \in 0..1
         /\ \A t \in Thread : thread[t].woken =>
                recvSem = 0 /\ pendingSem = 0 /\ reader = "wait" /\ thread[t].pc # "direct"
         /\ \A t \in Thread : thread[t].pc = "direct" =>
                recvSem = 0 /\ pendingSem = 0 /\ reader = "wait" /\ ~thread[t].woken
         /\ pendingSem = 1 => recvSem = 0 /\ reader = "wait" /\ \A t \in Thread : ~thread[t].woken
<1> DEFINE w == Cardinality(Woken)
           d == Cardinality(Directs)
<1>1. /\ w \in Nat /\ d \in Nat /\ recvSem \in Nat /\ pendingSem \in Nat
      /\ recvSem + pendingSem + (IF reader = "wait" THEN 0 ELSE 1) + w + d = 1
  BY FS_CardinalityType DEF TokenInv, Tokens, Typed
<1>2. (\E t \in Thread : thread[t].woken) => w # 0
  BY FS_EmptySet DEF TokenInv, Woken
<1>3. (\E t \in Thread : thread[t].pc = "direct") => d # 0
  BY FS_EmptySet DEF TokenInv, Directs
<1>4. \A t \in Thread : thread[t].woken \in BOOLEAN
  BY DEF TokenInv, Typed, ThreadTyped
<1> HIDE DEF w, d
<1> QED BY <1>1, <1>2, <1>3, <1>4

-----------------------------------------------------------------------------
(* The words under way *)

\* A queue with no word of a thread, with one, with two in their order.
Quiet(q) == \A i \in DOMAIN q : q[i].of = Status
One(q, w) == \E i \in DOMAIN q : q[i] = w /\ \A j \in DOMAIN q \ {i} : q[j].of = Status
Two(q, v, w) ==
    \E i, j \in DOMAIN q :
        /\ i < j /\ q[i] = v /\ q[j] = w
        /\ \A l \in DOMAIN q \ {i, j} : q[l].of = Status

\* Another word at the end.
LEMMA QueueGrows ==
  ASSUME NEW S, NEW q \in Seq(S), NEW w \in S
  PROVE  /\ w.of = Status =>
               /\ Quiet(q) => Quiet(Append(q, w))
               /\ \A v : One(q, v) => One(Append(q, w), v)
               /\ \A u, v : Two(q, u, v) => Two(Append(q, w), u, v)
         /\ Quiet(q) => One(Append(q, w), w)
         /\ \A v : One(q, v) => Two(Append(q, w), v, w)
<1> DEFINE n == Len(q)
           a == Append(q, w)
<1>1. /\ n \in Nat /\ DOMAIN q = 1..n /\ DOMAIN a = 1 .. n + 1
      /\ \A i \in 1..n : a[i] = q[i]
      /\ a[n + 1] = w
  BY AppendProperties
<1> HIDE DEF n, a
<1>2. Quiet(q) /\ w.of = Status => Quiet(a)
  BY <1>1 DEF Quiet
<1>3. \A v : One(q, v) /\ w.of = Status => One(a, v)
  BY <1>1 DEF One
<1>4. ASSUME NEW u, NEW v, Two(q, u, v), w.of = Status PROVE Two(a, u, v)
  <2>1. PICK i \in 1..n, j \in 1..n : i < j /\ q[i] = u /\ q[j] = v
                                      /\ \A l \in 1..n \ {i, j} : q[l].of = Status
    BY <1>1, <1>4 DEF Two
  <2>2. \A l \in 1..n+1 \ {i, j} : a[l].of = Status
    BY <1>1, <1>4, <2>1
  <2> QED BY <1>1, <2>1, <2>2 DEF Two
<1>5. Quiet(q) => One(a, w)
  BY <1>1 DEF Quiet, One
<1>6. ASSUME NEW v, One(q, v) PROVE Two(a, v, w)
  <2>1. PICK i \in 1..n : q[i] = v /\ \A j \in 1..n \ {i} : q[j].of = Status
    BY <1>1, <1>6 DEF One
  <2>2. \A l \in 1..n+1 \ {i, n+1} : a[l].of = Status
    BY <1>1, <2>1
  <2>3. i < n + 1 /\ n + 1 \in 1..n+1 /\ i \in 1..n+1 /\ a[i] = v /\ a[n + 1] = w
    BY <1>1, <2>1
  <2> QED BY <1>1, <2>2, <2>3 DEF Two
<1> QED BY <1>2, <1>3, <1>4, <1>5, <1>6 DEF a

\* The first word is taken.
LEMMA QueueShrinks ==
  ASSUME NEW S, NEW q \in Seq(S), q # <<>>
  PROVE  /\ Quiet(q) => Head(q).of = Status /\ Quiet(Tail(q))
         /\ \A v : One(q, v) => \/ Head(q) = v /\ Quiet(Tail(q))
                                \/ Head(q).of = Status /\ One(Tail(q), v)
         /\ \A u, v : Two(q, u, v) => \/ Head(q) = u /\ One(Tail(q), v)
                                      \/ Head(q).of = Status /\ Two(Tail(q), u, v)
<1> DEFINE n == Len(q)
           b == Tail(q)
<1>1. /\ n \in Nat /\ n > 0 /\ DOMAIN q = 1..n /\ DOMAIN b = 1 .. n - 1
      /\ \A i \in 1 .. n - 1 : b[i] = q[i + 1]
      /\ Head(q) = q[1] /\ 1 \in 1..n
  BY HeadTailProperties, FirstWord
<1> HIDE DEF n, b
<1>2. Quiet(q) => q[1].of = Status /\ Quiet(b)
  BY <1>1 DEF Quiet
<1>3. ASSUME NEW v, One(q, v)
      PROVE  \/ q[1] = v /\ Quiet(b)
             \/ q[1].of = Status /\ One(b, v)
  <2>1. PICK i \in 1..n : q[i] = v /\ \A j \in 1..n \ {i} : q[j].of = Status
    BY <1>1, <1>3 DEF One
  <2>2. CASE i = 1
    <3>1. \A j \in 1 .. n - 1 : b[j].of = Status
      <4> SUFFICES ASSUME NEW j \in 1 .. n - 1 PROVE b[j].of = Status
        OBVIOUS
      <4>1. j + 1 \in 1..n \ {i} /\ b[j] = q[j + 1]
        BY <1>1, <2>2
      <4> QED BY <2>1, <4>1
    <3>2. Quiet(b)
      BY <1>1, <3>1 DEF Quiet
    <3> QED BY <2>1, <2>2, <3>2
  <2>3. CASE i # 1
    <3>1. i - 1 \in 1 .. n - 1 /\ b[i - 1] = v
      BY <1>1, <2>1, <2>3
    <3>2. \A j \in (1 .. n - 1) \ {i - 1} : b[j].of = Status
      <4> SUFFICES ASSUME NEW j \in (1 .. n - 1) \ {i - 1} PROVE b[j].of = Status
        OBVIOUS
      <4>1. j + 1 \in 1..n \ {i} /\ b[j] = q[j + 1]
        BY <1>1
      <4> QED BY <2>1, <4>1
    <3>3. One(b, v)
      BY <1>1, <3>1, <3>2 DEF One
    <3> QED BY <1>1, <2>1, <2>3, <3>3
  <2> QED BY <2>2, <2>3
<1>4. ASSUME NEW u, NEW v, Two(q, u, v)
      PROVE  \/ q[1] = u /\ One(b, v)
             \/ q[1].of = Status /\ Two(b, u, v)
  <2>1. PICK i \in 1..n, j \in 1..n : i < j /\ q[i] = u /\ q[j] = v
                                      /\ \A l \in 1..n \ {i, j} : q[l].of = Status
    BY <1>1, <1>4 DEF Two
  <2>2. j - 1 \in 1 .. n - 1 /\ b[j - 1] = v
    BY <1>1, <2>1
  <2>3. \A l \in (1 .. n - 1) \ {i - 1, j - 1} : b[l].of = Status
    <3> SUFFICES ASSUME NEW l \in (1 .. n - 1) \ {i - 1, j - 1} PROVE b[l].of = Status
      OBVIOUS
    <3>1. l + 1 \in 1..n \ {i, j} /\ b[l] = q[l + 1]
      BY <1>1
    <3> QED BY <2>1, <3>1
  <2>4. CASE i = 1
    <3>1. \A l \in (1 .. n - 1) \ {j - 1} : b[l].of = Status
      BY <2>3, <2>4
    <3>2. One(b, v)
      BY <1>1, <2>2, <3>1 DEF One
    <3> QED BY <2>1, <2>4, <3>2
  <2>5. CASE i # 1
    <3>1. i - 1 \in 1 .. n - 1 /\ b[i - 1] = u /\ i - 1 < j - 1
      BY <1>1, <2>1, <2>5
    <3>2. q[1].of = Status
      BY <1>1, <2>1, <2>5
    <3> DEFINE i1 == i - 1
               j1 == j - 1
    <3>3. /\ i1 \in DOMAIN b /\ j1 \in DOMAIN b /\ i1 < j1 /\ b[i1] = u /\ b[j1] = v
          /\ \A l \in DOMAIN b \ {i1, j1} : b[l].of = Status
      BY <1>1, <2>2, <2>3, <3>1
    <3> HIDE DEF i1, j1
    <3>4. Two(b, u, v)
      BY <3>3 DEF Two
    <3> QED BY <3>2, <3>4
  <2> QED BY <2>4, <2>5
<1> QED BY <1>1, <1>2, <1>3, <1>4 DEF b

-----------------------------------------------------------------------------
(* One sentence at a time: where it is *)

OneAtATime == MaxInFlight <= 1

\* The question a thread asks at pc, and whether its argument follows the opcode yet.
Opcode(pc) ==
    IF pc \in {"asking", "asked"} THEN "IS_THIS_KEY_BLOCKED"
    ELSE IF pc = "direct" THEN "IS_KEY_BLOCKED_BY_EXECUTING_ESI"
    ELSE IF pc = "blocking" THEN "BLOCK_KEY"
    ELSE "UNLOCK_KEY"
Bodied(pc) == pc \in {"asked", "unlocked"}

\* The scheduler, main, works on nothing of a thread, or on the question op of t.
Free(m) == m.pc \in {"wait", "body"} => m.of = Status
Serves(m, op, t) == m.pc \in {"wait", "body"} /\ m.op = op /\ m.of = t

\* The question is on its way on q, or the scheduler has read its opcode.
Half(q, m, op, t) ==
    \/ Free(m) /\ One(q, W(op, t))
    \/ Serves(m, op, t) /\ Quiet(q)
Whole(q, m, op, t) ==
    \/ Free(m) /\ Two(q, W(op, t), W("body", t))
    \/ Serves(m, op, t) /\ One(q, W("body", t))

\* What the scheduler has of the sentence; nothing is known once it is out of step.
Asking(t) ==
    main.pc # "lost" =>
        IF Bodied(thread[t].pc) THEN Whole(toScheduler, main, Opcode(thread[t].pc), t)
                                ELSE Half(toScheduler, main, Opcode(thread[t].pc), t)
Answering == main.pc # "lost" => Free(main) /\ Quiet(toScheduler)

\* There is no answer, or one on the socket, or one in the slot.
NoAnswer(t) == pendingSem = 0 /\ ~thread[t].woken /\ Quiet(toCoordinator)
AnswerSent(t) ==
    /\ pendingSem = 0 /\ ~thread[t].woken
    /\ \E kind \in AnswerTo(thread[t].pc) : One(toCoordinator, W(kind, t))
AnswerInSlot(t) ==
    /\ pendingSem = IF thread[t].woken THEN 0 ELSE 1
    /\ Quiet(toCoordinator)
    /\ pending.of = t /\ pending.kind \in AnswerTo(thread[t].pc)

Stage(t) ==
    \/ thread[t].pc \in {"idle", "free", "own"} /\ NoAnswer(t) /\ Answering
    \/ /\ thread[t].pc \in {"asking", "asked", "blocking", "unlocking", "unlocked"}
       /\ NoAnswer(t) /\ Asking(t)
    \/ thread[t].pc \in Waiting /\ Answering /\ (AnswerSent(t) \/ AnswerInSlot(t))
    \/ thread[t].pc = "direct" /\ toCoordinator = <<>> /\ Asking(t)
    \/ /\ thread[t].pc = "direct" /\ Answering
       /\ \E kind \in OwnerAnswer :
              toCoordinator # <<>> /\ Head(toCoordinator) = W(kind, t) /\ One(toCoordinator, W(kind, t))

Others(t) == \A s \in Thread \ {t} : thread[s].pc = "idle" /\ ~thread[s].woken
Nobody ==
    /\ \A s \in Thread : thread[s].pc = "idle" /\ ~thread[s].woken
    /\ pendingSem = 0 /\ Quiet(toCoordinator) /\ Answering

\* The sentence in flight is at one stage, and the coordinator has not exited.
Conversation == running /\ (Nobody \/ \E t \in Thread : Others(t) /\ Stage(t))

\* What all the words of a queue are: the console's requests and the answers to them;
\* words of threads only; no KEY_IS_BLOCKED, or only at the end.
AllStatus(q) ==
    \A i \in DOMAIN q :
        IF q[i].of = Status THEN q[i].kind = "KEY_STATUS" ELSE q[i].kind \in Answer
AllRequests(q) == \A i \in DOMAIN q : q[i].of = Status => q[i].kind \in {"KEY_STATUS", "body"}
AllThreads(q) == \A i \in DOMAIN q : q[i].of # Status
NoneBlocked(q) == \A i \in DOMAIN q : q[i].kind # "KEY_IS_BLOCKED"
LastBlocked(q) == \A i \in DOMAIN q : q[i].kind = "KEY_IS_BLOCKED" => i = Len(q)

\* What is not of a thread is a question for the state of a key, or its answer.
StatusWords ==
    /\ AllStatus(toCoordinator) /\ AllRequests(toScheduler)
    /\ main.pc \in {"wait", "body"} /\ main.of = Status => main.op = "KEY_STATUS"

\* Until the console asks there are none, and the scheduler reads what was written.
NoStatusYet ==
    asked = 0 =>
        /\ main.pc # "lost" /\ reader \notin {"status", "state"}
        /\ AllThreads(toScheduler) /\ AllThreads(toCoordinator)
        /\ main.pc \in {"wait", "body"} => main.of # Status

\* KEY_IS_BLOCKED keeps mutex_coordinador from its sending to the question after it.
InSlot == pending.kind = "KEY_IS_BLOCKED" /\ (pendingSem = 1 \/ \E t \in Thread : thread[t].woken)
Kept ==
    \/ \E t \in Thread : thread[t].pc = "direct" /\ toCoordinator = <<>>
    \/ ~NoneBlocked(toCoordinator)
    \/ InSlot

\* It is taken by one of main(), the console and that answer; the answer is the last
\* word on the socket.
MutexTaken ==
    /\ mutex \in 0..1
    /\ console = "locked" => mutex = 0
    /\ main.pc = "body" => mutex = 0 /\ console = "idle"
    /\ Kept => mutex = 0 /\ console = "idle" /\ main.pc # "body"
    /\ LastBlocked(toCoordinator)
    /\ InSlot => toCoordinator = <<>>

LinkInv == TokenInv /\ StatusWords /\ NoStatusYet /\ Conversation /\ MutexTaken
-----------------------------------------------------------------------------
(* One sentence at a time: the conversation goes on *)

\* What pc has asked for, and which answer it expects.
LEMMA Answers ==
  /\ AnswerTo("asked") = {"KEY_IS_BLOCKED", "KEY_IS_NOT_BLOCKED"}
  /\ AnswerTo("blocking") = {"KEY_BLOCKED_SUCCESFULLY"}
  /\ AnswerTo("unlocked") = {"KEY_UNLOCKED_SUCCESFULLY"}
  /\ \A pc \in Waiting : AnswerTo(pc) \subseteq Answer
<1>1. /\ AnswerTo("asked") = {"KEY_IS_BLOCKED", "KEY_IS_NOT_BLOCKED"}
      /\ AnswerTo("blocking") = {"KEY_BLOCKED_SUCCESFULLY"}
      /\ AnswerTo("unlocked") = {"KEY_UNLOCKED_SUCCESFULLY"}
  BY DEF AnswerTo
<1> QED BY <1>1 DEF Waiting, Answer

\* A thread is not the console.
LEMMA Console == \A t \in Thread : t # Status /\ t \in Subject
BY LinkAssumption DEF Subject

\* A thread that is not idle is the one whose sentence is in flight.
LEMMA InFlightAlone ==
  ASSUME Conversation, NEW t \in Thread, thread[t].pc # "idle"
  PROVE  Others(t) /\ Stage(t)
BY DEF Conversation, Nobody, Others

\* While all the threads are idle nothing of a thread is under way.
LEMMA AllIdle ==
  ASSUME Conversation, \A t \in Thread : thread[t].pc = "idle"
  PROVE  Nobody
BY DEF Conversation, Stage, Nobody, NoAnswer, Others, Waiting

\* The thread in flight goes on to pc.
LEMMA GoesOn ==
  ASSUME Typed, NEW t \in Thread, NEW pc \in Place, GoTo(t, pc), Others(t), Stage(t)', running'
  PROVE  Conversation'
BY GoToType DEF Others, Conversation

\* A step that moves no thread keeps the conversation when it keeps the stage.
LEMMA NoneGoes ==
  ASSUME Conversation, UNCHANGED <<thread, running>>,
         pendingSem = 0 /\ Quiet(toCoordinator) /\ Answering
             => (pendingSem = 0 /\ Quiet(toCoordinator) /\ Answering)',
         \A t \in Thread : Stage(t) => Stage(t)'
  PROVE  Conversation'
<1>1. CASE Nobody
  BY <1>1 DEF Conversation, Nobody
<1>2. CASE \E t \in Thread : Others(t) /\ Stage(t)
  <2>1. PICK t \in Thread : Others(t) /\ Stage(t)
    BY <1>2
  <2>2. Others(t)' /\ Stage(t)'
    BY <2>1 DEF Others
  <2> QED BY <2>2 DEF Conversation
<1> QED BY <1>1, <1>2 DEF Conversation

\* The bound on the sentences in flight leaves only one.
LEMMA AskAlone ==
  ASSUME OneAtATime, Cardinality(InFlight) < MaxInFlight,
         NEW s \in Thread, InFlight \subseteq {s}
  PROVE  InFlight = {}
<1>1. IsFiniteSet({s}) /\ Cardinality({s}) = 1
  BY FS_Singleton
<1>2. IsFiniteSet(InFlight) /\ Cardinality(InFlight) \in Nat
  BY <1>1, FS_Subset, FS_CardinalityType
<1>3. Cardinality(InFlight) = 0
  BY <1>2, LinkAssumption DEF OneAtATime
<1> QED BY <1>2, <1>3, FS_EmptySet

LEMMA AskConversation ==
  ASSUME LinkInv, OneAtATime, NEW t \in Thread, Ask(t)
  PROVE  Conversation'
<1>1. Nobody
  <2>1. CASE Nobody
    BY <2>1
  <2>2. CASE \E s \in Thread : Others(s)
    <3>1. PICK s \in Thread : Others(s)
      BY <2>2
    <3>2. InFlight \subseteq {s}
      BY <3>1 DEF InFlight, Others
    <3>3. InFlight = {}
      BY <3>2, AskAlone DEF Ask
    <3> QED BY <3>3, AllIdle DEF InFlight, LinkInv
  <2> QED BY <2>1, <2>2 DEF LinkInv, Conversation
<1>2. Typed /\ t \in Subject /\ t # Status
  BY Console DEF LinkInv, TokenInv
<1>3. GoTo(t, "asking") /\ "asking" \in Place
  BY DEF Ask, Place
<1>4. thread'[t].pc = "asking" /\ ~thread'[t].woken
  BY <1>2, <1>3, GoToType
<1>5. Others(t)
  BY <1>1 DEF Nobody, Others
<1>6. NoAnswer(t)'
  BY <1>1, <1>4 DEF Nobody, NoAnswer, Ask
<1>7. Asking(t)'
  <2> SUFFICES ASSUME main.pc # "lost" PROVE Half(toScheduler', main, "IS_THIS_KEY_BLOCKED", t)
    BY <1>4 DEF Asking, Opcode, Bodied, Ask, scheduler
  <2>1. Free(main) /\ Quiet(toScheduler)
    BY <1>1 DEF Nobody, Answering
  <2>2. toScheduler \in Seq(Sent) /\ W("IS_THIS_KEY_BLOCKED", t) \in Sent
    BY <1>2, Words DEF Typed, Question
  <2>3. One(toScheduler', W("IS_THIS_KEY_BLOCKED", t))
    BY <2>1, <2>2, QueueGrows DEF Ask, Send
  <2> QED BY <2>1, <2>3 DEF Half
<1>8. Stage(t)'
  BY <1>4, <1>6, <1>7 DEF Stage
<1> QED BY <1>2, <1>3, <1>5, <1>8, GoesOn DEF Ask, LinkInv, Conversation

\* The argument follows its opcode.
LEMMA SendKeyConversation ==
  ASSUME LinkInv, NEW t \in Thread, SendKey(t)
  PROVE  Conversation'
<1>1. Typed /\ t \in Subject /\ t # Status
  BY Console DEF LinkInv, TokenInv
<1>2. PICK pc \in {"asked", "unlocked"} :
        /\ GoTo(t, pc)
        /\ thread[t].pc = IF pc = "asked" THEN "asking" ELSE "unlocking"
  BY DEF SendKey, At
<1>3. pc \in Place
  BY <1>2 DEF Place, Waiting
<1>4. thread'[t].pc = pc /\ ~thread'[t].woken
  BY <1>1, <1>2, <1>3, GoToType
<1>5. Others(t) /\ NoAnswer(t) /\ Asking(t)
  BY <1>2, InFlightAlone DEF LinkInv, Stage, Waiting
<1>6. NoAnswer(t)'
  BY <1>4, <1>5 DEF NoAnswer, SendKey
<1> DEFINE op == Opcode(pc)
<1>7. Opcode(thread[t].pc) = op /\ ~Bodied(thread[t].pc) /\ Bodied(pc)
  BY <1>2 DEF Opcode, Bodied
<1> HIDE DEF op
<1>8. Asking(t)'
  <2> SUFFICES ASSUME main.pc # "lost" PROVE Whole(toScheduler', main, op, t)
    BY <1>4, <1>7 DEF Asking, op, SendKey, scheduler
  <2>1. Half(toScheduler, main, op, t)
    BY <1>5, <1>7 DEF Asking
  <2>2. toScheduler \in Seq(Sent) /\ W("body", t) \in Sent /\ toScheduler' = Append(toScheduler, W("body", t))
    BY <1>1, Words DEF Typed, SendKey, Send
  <2>3. One(toScheduler, W(op, t)) => Two(toScheduler', W(op, t), W("body", t))
    BY <2>2, QueueGrows
  <2>4. Quiet(toScheduler) => One(toScheduler', W("body", t))
    BY <2>2, QueueGrows
  <2> QED BY <2>1, <2>3, <2>4 DEF Half, Whole
<1>9. Stage(t)'
  BY <1>2, <1>4, <1>6, <1>8 DEF Stage
<1> QED BY <1>1, <1>2, <1>3, <1>5, <1>9, GoesOn DEF SendKey, LinkInv, Conversation

\* What a woken thread finds in the slot.
LEMMA WokenFinds ==
  ASSUME LinkInv, NEW t \in Thread, thread[t].woken
  PROVE  /\ thread[t].pc \in Waiting /\ Others(t) /\ Answering
         /\ pendingSem = 0 /\ Quiet(toCoordinator)
         /\ pending.of = t /\ pending.kind \in AnswerTo(thread[t].pc)
<1>1. thread[t].pc \in Waiting /\ thread[t].pc # "idle"
  BY DEF LinkInv, TokenInv, Typed, ThreadTyped, Waiting
<1>2. Others(t) /\ Stage(t)
  BY <1>1, InFlightAlone DEF LinkInv
<1> QED BY <1>1, <1>2 DEF Stage, NoAnswer, AnswerSent, AnswerInSlot, Waiting

LEMMA WakeConversation ==
  ASSUME LinkInv, NEW t \in Thread, Wake(t)
  PROVE  Conversation'
<1>1. thread[t].pc \in Waiting /\ thread[t].pc # "idle" /\ ~thread[t].woken /\ pendingSem > 0
  BY DEF Wake, Waiting
<1>2. Others(t) /\ Stage(t)
  BY <1>1, InFlightAlone DEF LinkInv
<1>3. pendingSem # 0
  BY <1>1
<1>4. Answering /\ AnswerInSlot(t) /\ pendingSem = 1
  BY <1>1, <1>2, <1>3 DEF Stage, NoAnswer, AnswerSent, AnswerInSlot, Waiting
<1>5. /\ thread'[t].woken /\ thread'[t].pc = thread[t].pc
      /\ \A s \in Thread \ {t} : thread'[s] = thread[s]
  BY DEF Wake, LinkInv, TokenInv, Typed, ThreadTyped
<1>6. AnswerInSlot(t)'
  BY <1>4, <1>5 DEF AnswerInSlot, Wake
<1>7. Stage(t)'
  BY <1>1, <1>4, <1>5, <1>6 DEF Stage, Answering, Wake, scheduler
<1>8. Others(t)'
  BY <1>2, <1>5 DEF Others
<1> QED BY <1>7, <1>8 DEF Conversation, Wake, LinkInv

\* The slot holds the answer to the first question: the coordinator does not exit.
LEMMA ReadStateConversation ==
  ASSUME LinkInv, NEW t \in Thread, ReadState(t)
  PROVE  Conversation'
<1>1. Typed /\ t \in Subject /\ t # Status /\ running
  BY Console DEF LinkInv, TokenInv, Conversation
<1>2. thread[t].pc = "asked" /\ thread[t].woken
  BY DEF ReadState, At
<1>3. /\ Others(t) /\ Answering /\ pendingSem = 0 /\ Quiet(toCoordinator)
      /\ pending.kind \in {"KEY_IS_BLOCKED", "KEY_IS_NOT_BLOCKED"}
  BY <1>2, WokenFinds, Answers
<1>4. CASE pending.kind = "KEY_IS_NOT_BLOCKED"
  <2>1. GoTo(t, "free") /\ UNCHANGED <<toScheduler, running>> /\ "free" \in Place
    BY <1>4 DEF ReadState, Place
  <2>2. thread'[t].pc = "free" /\ ~thread'[t].woken
    BY <1>1, <2>1, GoToType
  <2>3. NoAnswer(t)' /\ Answering'
    BY <1>3, <2>1, <2>2 DEF NoAnswer, Answering, ReadState, scheduler
  <2>4. Stage(t)'
    BY <2>2, <2>3 DEF Stage
  <2> QED BY <1>1, <1>3, <2>1, <2>4, GoesOn
<1>5. CASE pending.kind = "KEY_IS_BLOCKED"
  <2> DEFINE w == W("IS_KEY_BLOCKED_BY_EXECUTING_ESI", t)
  <2>1. /\ GoTo(t, "direct") /\ toScheduler' = Append(toScheduler, w) /\ UNCHANGED running
        /\ "direct" \in Place
    BY <1>5 DEF ReadState, Place, Send
  <2>2. thread'[t].pc = "direct" /\ ~thread'[t].woken
    BY <1>1, <2>1, GoToType
  <2>3. toCoordinator' = <<>>
    BY <1>2, <1>5 DEF LinkInv, MutexTaken, InSlot, ReadState
  <2>4. Asking(t)'
    <3> SUFFICES ASSUME main.pc # "lost" PROVE Half(toScheduler', main, "IS_KEY_BLOCKED_BY_EXECUTING_ESI", t)
      BY <2>2 DEF Asking, Opcode, Bodied, ReadState, scheduler
    <3>1. Free(main) /\ Quiet(toScheduler)
      BY <1>3 DEF Answering
    <3>2. toScheduler \in Seq(Sent) /\ w \in Sent
      BY <1>1, Words DEF Typed, Question
    <3>3. One(toScheduler', w)
      BY <2>1, <3>1, <3>2, QueueGrows
    <3> QED BY <3>1, <3>3 DEF Half
  <2>5. Stage(t)'
    BY <2>2, <2>3, <2>4 DEF Stage
  <2> QED BY <1>1, <1>3, <2>1, <2>5, GoesOn
<1> QED BY <1>3, <1>4, <1>5

\* The socket holds the answer to the second question.
LEMMA DirectFinds ==
  ASSUME LinkInv, NEW t \in Thread, thread[t].pc = "direct"
  PROVE  /\ Others(t) /\ pendingSem = 0 /\ ~thread[t].woken
         /\ \/ toCoordinator = <<>> /\ Asking(t)
            \/ /\ Answering /\ toCoordinator # <<>> /\ Quiet(Tail(toCoordinator))
               /\ Head(toCoordinator).of = t /\ Head(toCoordinator).kind \in OwnerAnswer
<1>1. Others(t) /\ Stage(t)
  BY InFlightAlone DEF LinkInv
<1>2. pendingSem = 0 /\ ~thread[t].woken
  BY OneHolder DEF LinkInv
<1>3. ASSUME NEW kind \in OwnerAnswer, toCoordinator # <<>>,
             Head(toCoordinator) = W(kind, t), One(toCoordinator, W(kind, t))
      PROVE  /\ Quiet(Tail(toCoordinator))
             /\ Head(toCoordinator).of = t /\ Head(toCoordinator).kind \in OwnerAnswer
  <2>1. Head(toCoordinator).of = t /\ Head(toCoordinator).kind = kind /\ t # Status
    BY <1>3, Console DEF W
  <2>2. toCoordinator \in Seq(Word)
    BY DEF LinkInv, TokenInv, Typed
  <2> QED BY <1>3, <2>1, <2>2, QueueShrinks
<1> QED BY <1>1, <1>2, <1>3 DEF Stage, Waiting

LEMMA ReadOwnerConversation ==
  ASSUME LinkInv, NEW t \in Thread, ReadOwner(t)
  PROVE  Conversation'
<1>1. Typed
  BY DEF LinkInv, TokenInv
<1>2. thread[t].pc = "direct" /\ toCoordinator # <<>> /\ running
  BY DEF ReadOwner, At
<1>3. /\ Others(t) /\ pendingSem = 0 /\ Answering /\ Quiet(Tail(toCoordinator))
      /\ Head(toCoordinator).kind \in OwnerAnswer
  BY <1>2, DirectFinds
<1>4. PICK pc \in {"own", "idle"} : GoTo(t, pc) /\ UNCHANGED running
  BY <1>3 DEF ReadOwner
<1>5. pc \in Place
  BY <1>4 DEF Place
<1>6. thread'[t].pc = pc /\ ~thread'[t].woken
  BY <1>1, <1>4, <1>5, GoToType
<1>7. NoAnswer(t)' /\ Answering'
  BY <1>3, <1>6 DEF NoAnswer, Answering, ReadOwner, scheduler
<1>8. Stage(t)'
  BY <1>4, <1>6, <1>7 DEF Stage
<1> QED BY <1>1, <1>2, <1>3, <1>4, <1>5, <1>8, GoesOn

\* BLOCK_KEY and UNLOCK_KEY are sent, or the sentence ends.
LEMMA OrderConversation ==
  ASSUME LinkInv, NEW t \in Thread, BlockKey(t) \/ UnblockKey(t)
  PROVE  Conversation'
<1>1. Typed /\ t \in Subject /\ t # Status
  BY Console DEF LinkInv, TokenInv
<1>2. thread[t].pc \in {"free", "own"}
  BY DEF BlockKey, UnblockKey, At
<1>3. Others(t) /\ NoAnswer(t) /\ Answering
  BY <1>2, InFlightAlone DEF LinkInv, Stage, Waiting
<1>4. UNCHANGED <<running, main, pendingSem, toCoordinator>> /\ running
  BY DEF BlockKey, UnblockKey, scheduler, At
<1>5. CASE GoTo(t, "idle") /\ UNCHANGED toScheduler
  <2>1. thread'[t].pc = "idle" /\ ~thread'[t].woken /\ "idle" \in Place
    BY <1>1, <1>5, GoToType DEF Place
  <2>2. Stage(t)'
    BY <1>3, <1>4, <1>5, <2>1 DEF Stage, NoAnswer, Answering
  <2> QED BY <1>1, <1>3, <1>4, <1>5, <2>1, <2>2, GoesOn
<1>6. CASE \E pc \in {"blocking", "unlocking"} : Send(Opcode(pc), t) /\ GoTo(t, pc)
  <2>1. PICK pc \in {"blocking", "unlocking"} : Send(Opcode(pc), t) /\ GoTo(t, pc)
    BY <1>6
  <2>2. pc \in Place /\ ~Bodied(pc) /\ Opcode(pc) \in Question
    BY <2>1 DEF Place, Waiting, Bodied, Opcode, Question
  <2>3. thread'[t].pc = pc /\ ~thread'[t].woken
    BY <1>1, <2>1, <2>2, GoToType
  <2>4. NoAnswer(t)'
    BY <1>3, <1>4, <2>3 DEF NoAnswer
  <2>5. Asking(t)'
    <3> SUFFICES ASSUME main.pc # "lost" PROVE Half(toScheduler', main, Opcode(pc), t)
      BY <1>4, <2>2, <2>3 DEF Asking
    <3>1. Free(main) /\ Quiet(toScheduler)
      BY <1>3 DEF Answering
    <3>2. toScheduler \in Seq(Sent) /\ W(Opcode(pc), t) \in Sent
      BY <1>1, <2>2, Words DEF Typed
    <3>3. One(toScheduler', W(Opcode(pc), t))
      BY <2>1, <3>1, <3>2, QueueGrows DEF Send
    <3> QED BY <3>1, <3>3 DEF Half
  <2>6. Stage(t)'
    BY <2>1, <2>3, <2>4, <2>5 DEF Stage
  <2> QED BY <1>1, <1>3, <1>4, <2>1, <2>2, <2>6, GoesOn
<1> QED BY <1>5, <1>6 DEF BlockKey, UnblockKey, Opcode

LEMMA AcknowledgedConversation ==
  ASSUME LinkInv, NEW t \in Thread, Acknowledged(t)
  PROVE  Conversation'
<1>1. Typed /\ running
  BY DEF LinkInv, TokenInv, Conversation
<1>2. Others(t) /\ Answering /\ pendingSem = 0 /\ Quiet(toCoordinator)
  BY WokenFinds DEF Acknowledged
<1>3. GoTo(t, "idle") /\ "idle" \in Place
  BY DEF Acknowledged, Place
<1>4. thread'[t].pc = "idle" /\ ~thread'[t].woken
  BY <1>1, <1>3, GoToType
<1>5. Stage(t)'
  BY <1>2, <1>4 DEF Stage, NoAnswer, Answering, Acknowledged, scheduler
<1> QED BY <1>1, <1>2, <1>3, <1>5, GoesOn DEF Acknowledged
\* A word of the console's request at the end of a queue disturbs no question.
LEMMA StatusAppended ==
  ASSUME NEW q \in Seq(Sent), NEW m, NEW w \in Sent, w.of = Status
  PROVE  /\ Quiet(q) => Quiet(Append(q, w))
         /\ \A op, t : Half(q, m, op, t) => Half(Append(q, w), m, op, t)
         /\ \A op, t : Whole(q, m, op, t) => Whole(Append(q, w), m, op, t)
<1>1. /\ Quiet(q) => Quiet(Append(q, w))
      /\ \A v : One(q, v) => One(Append(q, w), v)
      /\ \A u, v : Two(q, u, v) => Two(Append(q, w), u, v)
  BY QueueGrows
<1> QED BY <1>1 DEF Half, Whole

\* A step of the reader that sends nothing and takes nothing.
LEMMA ReaderConversation ==
  ASSUME LinkInv, ReaderWait \/ SendStatus
  PROVE  Conversation'
<1>1. UNCHANGED <<thread, running, main, pendingSem, pending, toCoordinator>>
  BY DEF ReaderWait, SendStatus, scheduler
<1>2. \/ toScheduler' = toScheduler
      \/ \E w \in Sent : w.of = Status /\ toScheduler' = Append(toScheduler, w)
  <2>1. \A kind \in {"KEY_STATUS", "body"} : W(kind, Status) \in Sent /\ W(kind, Status).of = Status
    BY Words DEF Question, Subject
  <2> QED BY <2>1 DEF ReaderWait, SendStatus, Send
<1>3. /\ Quiet(toScheduler) => Quiet(toScheduler')
      /\ \A op, t : Half(toScheduler, main, op, t) => Half(toScheduler', main, op, t)
      /\ \A op, t : Whole(toScheduler, main, op, t) => Whole(toScheduler', main, op, t)
  <2>1. toScheduler \in Seq(Sent)
    BY DEF LinkInv, TokenInv, Typed
  <2>2. CASE toScheduler' = toScheduler
    BY <2>2
  <2>3. ASSUME NEW w \in Sent, w.of = Status, toScheduler' = Append(toScheduler, w)
        PROVE  /\ Quiet(toScheduler) => Quiet(toScheduler')
               /\ \A op, t : Half(toScheduler, main, op, t) => Half(toScheduler', main, op, t)
               /\ \A op, t : Whole(toScheduler, main, op, t) => Whole(toScheduler', main, op, t)
    BY <2>1, <2>3, StatusAppended
  <2> QED BY <1>2, <2>2, <2>3
<1>4. Answering => Answering'
  BY <1>1, <1>3 DEF Answering
<1>5. ASSUME NEW t \in Thread, Stage(t) PROVE Stage(t)'
  <2>1. Asking(t) => Asking(t)'
    BY <1>1, <1>3 DEF Asking
  <2>2. /\ NoAnswer(t) => NoAnswer(t)'
        /\ AnswerSent(t) => AnswerSent(t)'
        /\ AnswerInSlot(t) => AnswerInSlot(t)'
    BY <1>1 DEF NoAnswer, AnswerSent, AnswerInSlot
  <2> QED BY <1>1, <1>4, <1>5, <2>1, <2>2 DEF Stage
<1> QED BY <1>1, <1>4, <1>5, NoneGoes DEF LinkInv

\* The reader takes a word: a request of the console, or the answer in flight.
LEMMA ReaderRecvConversation ==
  ASSUME LinkInv, ReaderRecv
  PROVE  Conversation'
<1> DEFINE w == Head(toCoordinator)
<1>1. /\ UNCHANGED <<thread, running, main, toScheduler>>
      /\ toCoordinator # <<>> /\ toCoordinator' = Tail(toCoordinator)
  BY DEF ReaderRecv, scheduler
<1>2. toCoordinator \in Seq(Word) /\ w = toCoordinator[1] /\ 1 \in DOMAIN toCoordinator
  BY <1>1, FirstWord DEF LinkInv, TokenInv, Typed
<1>3. IF w.of = Status THEN w.kind = "KEY_STATUS" ELSE w.kind \in Answer
  BY <1>2 DEF LinkInv, StatusWords, AllStatus
<1>4. IF w.of = Status THEN UNCHANGED <<pendingSem, pending>>
                       ELSE pending' = w /\ pendingSem' = pendingSem + 1
  BY <1>3 DEF ReaderRecv, Answer
<1>5. pendingSem = 0 /\ \A t \in Thread : ~thread[t].woken /\ thread[t].pc # "direct"
  BY OneHolder DEF LinkInv, ReaderRecv
<1>6. Answering => Answering'
  BY <1>1 DEF Answering
<1>7. Quiet(toCoordinator) => pendingSem' = 0 /\ Quiet(toCoordinator')
  BY <1>1, <1>2, <1>4, <1>5, QueueShrinks
<1> HIDE DEF w
<1>8. ASSUME NEW t \in Thread, Stage(t) PROVE Stage(t)'
  <2>1. Asking(t) => Asking(t)'
    BY <1>1 DEF Asking
  <2>2. NoAnswer(t) => NoAnswer(t)'
    BY <1>1, <1>7 DEF NoAnswer
  <2>3. AnswerSent(t) => AnswerSent(t)' \/ AnswerInSlot(t)'
    <3> SUFFICES ASSUME NEW kind \in AnswerTo(thread[t].pc), One(toCoordinator, W(kind, t))
                 PROVE  AnswerSent(t)' \/ AnswerInSlot(t)'
      BY DEF AnswerSent
    <3>1. CASE w = W(kind, t) /\ Quiet(toCoordinator')
      <4>1. w.of = t /\ w.kind = kind /\ t # Status
        BY <3>1, Console DEF W
      <4> QED BY <1>1, <1>4, <1>5, <3>1, <4>1 DEF AnswerInSlot
    <3>2. CASE w.of = Status /\ One(toCoordinator', W(kind, t))
      BY <1>1, <1>4, <1>5, <3>2 DEF AnswerSent
    <3> QED BY <1>1, <1>2, <3>1, <3>2, QueueShrinks DEF w
  <2>4. ~AnswerInSlot(t)
    BY <1>5 DEF AnswerInSlot
  <2> QED BY <1>1, <1>5, <1>6, <1>8, <2>1, <2>2, <2>3, <2>4 DEF Stage
<1> QED BY <1>1, <1>5, <1>6, <1>7, <1>8, NoneGoes DEF LinkInv

\* The scheduler reads an opcode: the question of the thread, the console's, or
\* something that is none.
LEMMA ReceiveConversation ==
  ASSUME LinkInv, Receive
  PROVE  Conversation'
<1> DEFINE w == Head(toScheduler)
           asks == "IS_KEY_BLOCKED_BY_EXECUTING_ESI"
<1>1. /\ UNCHANGED <<thread, running, pendingSem, pending>>
      /\ main.pc = "select"
      /\ toScheduler # <<>> /\ toScheduler' = Tail(toScheduler)
  BY DEF Receive, coordinator
<1>2. /\ toScheduler \in Seq(Sent) /\ toCoordinator \in Seq(Word)
      /\ w = toScheduler[1] /\ 1 \in DOMAIN toScheduler
  BY <1>1, FirstWord DEF LinkInv, TokenInv, Typed
<1>3. w.of = Status => w.kind \in {"KEY_STATUS", "body"}
  BY <1>2 DEF LinkInv, StatusWords, AllRequests
<1>4. \/ w.kind = "body" /\ main'.pc = "lost" /\ UNCHANGED toCoordinator
      \/ /\ w.kind = asks /\ UNCHANGED main
         /\ \E answer \in OwnerAnswer : toCoordinator' = Append(toCoordinator, W(answer, w.of))
      \/ /\ w.kind \notin {"body", asks} /\ UNCHANGED toCoordinator
         /\ main'.pc = "wait" /\ main'.op = w.kind /\ main'.of = w.of
  BY DEF Receive, Reply, LinkInv, TokenInv, Typed
<1>5. /\ \A op, t : ~Serves(main, op, t)
      /\ Free(main)
  BY <1>1 DEF Serves, Free
<1>6. w.of = Status => UNCHANGED toCoordinator /\ (main'.pc = "lost" \/ Free(main'))
  BY <1>3, <1>4 DEF Free
<1> HIDE DEF w
<1>7. Quiet(toScheduler) => w.of = Status /\ Quiet(toScheduler')
  BY <1>1, <1>2, QueueShrinks DEF w
<1>8. Answering => Answering' /\ UNCHANGED toCoordinator
  BY <1>1, <1>6, <1>7 DEF Answering
<1>9. ASSUME NEW t \in Thread, Stage(t) PROVE Stage(t)'
  <2> DEFINE op == Opcode(thread[t].pc)
  <2> HIDE DEF op
  <2>0. t # Status
    BY Console
  <2>1. ASSUME Asking(t), thread[t].pc # "direct",
               thread[t].pc \in {"asking", "asked", "blocking", "unlocking", "unlocked"}
        PROVE  Asking(t)' /\ UNCHANGED toCoordinator
    <3>1. op \notin {"body", asks}
      BY <2>1 DEF op, Opcode
    <3>2. W(op, t).kind = op /\ W(op, t).of = t
      BY DEF W
    <3>3. w = W(op, t) => UNCHANGED toCoordinator /\ Serves(main', op, t)
      BY <1>4, <3>1, <3>2 DEF Serves
    <3>4. CASE Bodied(thread[t].pc)
      <4>1. Two(toScheduler, W(op, t), W("body", t))
        BY <1>1, <1>5, <2>1, <3>4 DEF Asking, Whole, op
      <4>2. \/ w = W(op, t) /\ One(toScheduler', W("body", t))
            \/ w.of = Status /\ Two(toScheduler', W(op, t), W("body", t))
        BY <1>1, <1>2, <4>1, QueueShrinks DEF w
      <4>3. UNCHANGED toCoordinator /\ (main'.pc = "lost" \/ Whole(toScheduler', main', op, t))
        BY <1>6, <3>3, <4>2 DEF Whole
      <4> QED BY <1>1, <3>4, <4>3 DEF Asking, op
    <3>5. CASE ~Bodied(thread[t].pc)
      <4>1. One(toScheduler, W(op, t))
        BY <1>1, <1>5, <2>1, <3>5 DEF Asking, Half, op
      <4>2. \/ w = W(op, t) /\ Quiet(toScheduler')
            \/ w.of = Status /\ One(toScheduler', W(op, t))
        BY <1>1, <1>2, <4>1, QueueShrinks DEF w
      <4>3. UNCHANGED toCoordinator /\ (main'.pc = "lost" \/ Half(toScheduler', main', op, t))
        BY <1>6, <3>3, <4>2 DEF Half
      <4> QED BY <1>1, <3>5, <4>3 DEF Asking, op
    <3> QED BY <3>4, <3>5
  <2>2. ASSUME Asking(t), thread[t].pc = "direct", toCoordinator = <<>>
        PROVE  Stage(t)'
    <3>1. op = asks /\ ~Bodied(thread[t].pc)
      BY <2>2 DEF op, Opcode, Bodied
    <3>2. One(toScheduler, W(asks, t))
      BY <1>1, <1>5, <2>2, <3>1 DEF Asking, Half, op
    <3>3. CASE w = W(asks, t) /\ Quiet(toScheduler')
      <4>1. w.kind = asks /\ w.of = t
        BY <3>3 DEF W
      <4>2. PICK answer \in OwnerAnswer : toCoordinator' = Append(toCoordinator, W(answer, t))
        BY <1>4, <4>1
      <4>3. W(answer, t) \in Word
        BY Console, Words DEF OwnerAnswer, Answer
      <4>4. toCoordinator' # <<>> /\ Head(toCoordinator') = W(answer, t)
        BY <1>2, <2>2, <4>2, <4>3, HeadTailProperties, AppendProperties
      <4>5. One(toCoordinator', W(answer, t))
        <5>1. Quiet(toCoordinator)
          BY <2>2 DEF Quiet
        <5> QED BY <1>2, <4>2, <4>3, <5>1, QueueGrows
      <4>6. Answering'
        BY <1>4, <1>5, <3>3, <4>1 DEF Answering
      <4> QED BY <1>1, <2>2, <4>2, <4>4, <4>5, <4>6 DEF Stage
    <3>4. CASE w.of = Status /\ One(toScheduler', W(asks, t))
      <4>1. Asking(t)'
        BY <1>1, <1>6, <3>1, <3>4 DEF Asking, Half, op
      <4> QED BY <1>1, <1>6, <2>2, <3>4, <4>1 DEF Stage
    <3> QED BY <1>1, <1>2, <3>2, <3>3, <3>4, QueueShrinks DEF w
  <2>3. toCoordinator' = toCoordinator =>
            /\ NoAnswer(t) => NoAnswer(t)'
            /\ AnswerSent(t) => AnswerSent(t)'
            /\ AnswerInSlot(t) => AnswerInSlot(t)'
    BY <1>1 DEF NoAnswer, AnswerSent, AnswerInSlot
  <2> QED BY <1>1, <1>8, <1>9, <2>1, <2>2, <2>3 DEF Stage
<1>10. pendingSem = 0 /\ Quiet(toCoordinator) /\ Answering
          => (pendingSem = 0 /\ Quiet(toCoordinator) /\ Answering)'
  BY <1>1, <1>8
<1> QED BY <1>1, <1>9, <1>10, NoneGoes DEF LinkInv
\* The scheduler takes its semaphore, or answers BLOCK_KEY, which has no argument.
LEMMA LockConversation ==
  ASSUME LinkInv, Lock
  PROVE  Conversation'
<1>1. UNCHANGED <<thread, running, pendingSem, pending, toScheduler>> /\ main.pc = "wait"
  BY DEF Lock, coordinator
<1>2. /\ main'.op = main.op /\ main'.of = main.of
      /\ IF main.op = "BLOCK_KEY"
         THEN /\ main'.pc = "select"
              /\ toCoordinator' = Append(toCoordinator, W("KEY_BLOCKED_SUCCESFULLY", main.of))
         ELSE main'.pc = "body" /\ UNCHANGED toCoordinator
  BY DEF Lock, Reply, LinkInv, TokenInv, Typed
<1>3. main.of = Status => main.op = "KEY_STATUS"
  BY <1>1 DEF LinkInv, StatusWords
<1>4. Free(main) => Free(main') /\ UNCHANGED toCoordinator
  BY <1>1, <1>2, <1>3 DEF Free
<1>5. \A op, t : Serves(main, op, t) /\ op # "BLOCK_KEY" =>
          Serves(main', op, t) /\ UNCHANGED toCoordinator
  BY <1>1, <1>2 DEF Serves
<1>6. Answering => Answering' /\ UNCHANGED toCoordinator
  BY <1>1, <1>2, <1>4 DEF Answering
<1>7. ASSUME NEW t \in Thread, Stage(t) PROVE Stage(t)'
  <2> DEFINE op == Opcode(thread[t].pc)
  <2> HIDE DEF op
  <2>1. Asking(t) /\ op # "BLOCK_KEY" => Asking(t)' /\ UNCHANGED toCoordinator
    <3> SUFFICES ASSUME Asking(t), op # "BLOCK_KEY"
                 PROVE  Asking(t)' /\ UNCHANGED toCoordinator
      OBVIOUS
    <3>1. /\ Half(toScheduler, main, op, t) =>
                 Half(toScheduler, main', op, t) /\ UNCHANGED toCoordinator
          /\ Whole(toScheduler, main, op, t) =>
                 Whole(toScheduler, main', op, t) /\ UNCHANGED toCoordinator
      BY <1>4, <1>5 DEF Half, Whole
    <3> QED BY <1>1, <3>1 DEF Asking, op
  <2>2. ASSUME thread[t].pc = "blocking", NoAnswer(t), Asking(t)
        PROVE  Stage(t)'
    <3>1. op = "BLOCK_KEY" /\ ~Bodied(thread[t].pc)
      BY <2>2 DEF op, Opcode, Bodied
    <3>2. Half(toScheduler, main, op, t)
      BY <1>1, <2>2, <3>1 DEF Asking, op
    <3>3. CASE Free(main) /\ One(toScheduler, W(op, t))
      <4>1. UNCHANGED toCoordinator /\ Half(toScheduler, main', op, t)
        BY <1>4, <3>3 DEF Half
      <4>2. Asking(t)' /\ NoAnswer(t)'
        BY <1>1, <2>2, <3>1, <4>1 DEF Asking, NoAnswer, op
      <4> QED BY <1>1, <2>2, <4>2 DEF Stage
    <3>4. CASE Serves(main, op, t) /\ Quiet(toScheduler)
      <4> DEFINE v == W("KEY_BLOCKED_SUCCESFULLY", t)
      <4>1. main'.pc = "select" /\ toCoordinator' = Append(toCoordinator, v)
        BY <1>2, <3>1, <3>4 DEF Serves
      <4>2. Answering'
        BY <1>1, <3>4, <4>1 DEF Answering, Free
      <4>3. toCoordinator \in Seq(Word) /\ v \in Word
        BY Console, Words DEF LinkInv, TokenInv, Typed, Answer
      <4>4. One(toCoordinator', v)
        BY <2>2, <4>1, <4>3, QueueGrows DEF NoAnswer
      <4>5. AnswerSent(t)'
        BY <1>1, <2>2, <4>4, Answers DEF AnswerSent, NoAnswer
      <4> QED BY <1>1, <2>2, <4>2, <4>5 DEF Stage, Waiting
    <3> QED BY <3>2, <3>3, <3>4 DEF Half
  <2>3. toCoordinator' = toCoordinator =>
            /\ NoAnswer(t) => NoAnswer(t)'
            /\ AnswerSent(t) => AnswerSent(t)'
            /\ AnswerInSlot(t) => AnswerInSlot(t)'
    BY <1>1 DEF NoAnswer, AnswerSent, AnswerInSlot
  <2>4. op = "BLOCK_KEY" => thread[t].pc = "blocking"
    BY DEF op, Opcode
  <2> QED BY <1>1, <1>6, <1>7, <2>1, <2>2, <2>3, <2>4 DEF Stage
<1>8. pendingSem = 0 /\ Quiet(toCoordinator) /\ Answering
          => (pendingSem = 0 /\ Quiet(toCoordinator) /\ Answering)'
  BY <1>1, <1>6
<1> QED BY <1>1, <1>7, <1>8, NoneGoes DEF LinkInv

\* The argument of the question: the thread's is answered, the console's is shown.
LEMMA BodyConversation ==
  ASSUME LinkInv, Body
  PROVE  Conversation'
<1> DEFINE w == Head(toScheduler)
<1>1. /\ UNCHANGED <<thread, running, pendingSem, pending>> /\ main.pc = "body"
      /\ toScheduler # <<>> /\ toScheduler' = Tail(toScheduler)
  BY DEF Body, coordinator
<1>2. toScheduler \in Seq(Sent) /\ toCoordinator \in Seq(Word)
  BY DEF LinkInv, TokenInv, Typed
<1>3. \/ w # W("body", main.of) /\ main'.pc = "lost" /\ UNCHANGED toCoordinator
      \/ /\ w = W("body", main.of) /\ main'.pc = "select"
         /\ \/ /\ main.op = "IS_THIS_KEY_BLOCKED"
               /\ \E kind \in {"KEY_IS_BLOCKED", "KEY_IS_NOT_BLOCKED"} :
                      toCoordinator' = Append(toCoordinator, W(kind, main.of))
            \/ /\ main.op = "UNLOCK_KEY"
               /\ toCoordinator' = Append(toCoordinator, W("KEY_UNLOCKED_SUCCESFULLY", main.of))
            \/ main.op = "KEY_STATUS" /\ UNCHANGED toCoordinator
  BY DEF Body, Reply, LinkInv, TokenInv, Typed
<1>4. main.of = Status => main.op = "KEY_STATUS"
  BY <1>1 DEF LinkInv, StatusWords
<1>5. W("body", main.of).of = main.of
  BY DEF W
<1>6. Free(main) <=> main.of = Status
  BY <1>1 DEF Free
<1> HIDE DEF w
<1>7. Free(main) => UNCHANGED toCoordinator
  BY <1>3, <1>4, <1>6
<1>8. main'.pc \in {"lost", "select"} /\ Free(main')
  BY <1>3 DEF Free
<1>9. Quiet(toScheduler) => Quiet(toScheduler') /\ w.of = Status
  BY <1>1, <1>2, QueueShrinks DEF w
<1>10. Answering => Answering' /\ UNCHANGED toCoordinator
  BY <1>1, <1>7, <1>8, <1>9 DEF Answering
<1>11. ASSUME NEW t \in Thread, Stage(t) PROVE Stage(t)'
  <2> DEFINE op == Opcode(thread[t].pc)
  <2> HIDE DEF op
  <2>1. t # Status /\ t \in Subject
    BY Console
  <2>2. W(op, t).of = t /\ W("body", t).of = t /\ W(op, t).kind = op /\ W("body", t).kind = "body"
    BY DEF W
  <2>3. op # "body"
    BY DEF op, Opcode
  <2>4. ASSUME Asking(t), Free(main)
        PROVE  Asking(t)' /\ UNCHANGED toCoordinator
    <3>1. ~Serves(main, op, t)
      BY <1>6, <2>1, <2>4 DEF Serves
    <3>2. CASE Bodied(thread[t].pc)
      <4>1. Two(toScheduler, W(op, t), W("body", t))
        BY <1>1, <2>4, <3>1, <3>2 DEF Asking, Whole, op
      <4>2. \/ w = W(op, t)
            \/ Two(toScheduler', W(op, t), W("body", t))
        BY <1>1, <1>2, <4>1, QueueShrinks DEF w
      <4>3. w = W(op, t) => main'.pc = "lost"
        BY <1>3, <2>2, <2>3, W("body", main.of).kind = "body" DEF W
      <4> QED BY <1>1, <1>7, <1>8, <2>4, <3>2, <4>2, <4>3 DEF Asking, Whole, op
    <3>3. CASE ~Bodied(thread[t].pc)
      <4>1. One(toScheduler, W(op, t))
        BY <1>1, <2>4, <3>1, <3>3 DEF Asking, Half, op
      <4>2. \/ w = W(op, t)
            \/ One(toScheduler', W(op, t))
        BY <1>1, <1>2, <4>1, QueueShrinks DEF w
      <4>3. w = W(op, t) => main'.pc = "lost"
        BY <1>3, <2>2, <2>3, W("body", main.of).kind = "body" DEF W
      <4> QED BY <1>1, <1>7, <1>8, <2>4, <3>3, <4>2, <4>3 DEF Asking, Half, op
    <3> QED BY <3>2, <3>3
  <2>5. ASSUME Asking(t), ~Free(main), thread[t].pc # "asked", thread[t].pc # "unlocked"
        PROVE  Asking(t)' /\ UNCHANGED toCoordinator
    <3>1. Serves(main, op, t) /\ Quiet(toScheduler)
      BY <1>1, <2>5 DEF Asking, Half, Bodied, op
    <3>2. w.of = Status /\ main.of = t
      BY <1>9, <3>1 DEF Serves
    <3>3. main'.pc = "lost" /\ UNCHANGED toCoordinator
      BY <1>3, <1>5, <2>1, <3>2
    <3> QED BY <3>3 DEF Asking
  <2>6. ASSUME Asking(t), ~Free(main), NoAnswer(t), thread[t].pc \in {"asked", "unlocked"}
        PROVE  Stage(t)'
    <3>1. Serves(main, op, t) /\ One(toScheduler, W("body", t))
      BY <1>1, <2>6 DEF Asking, Whole, Bodied, op
    <3>2. main.op = op /\ main.of = t
      BY <3>1 DEF Serves
    <3>3. CASE w.of = Status
      <4>1. main'.pc = "lost" /\ UNCHANGED toCoordinator
        BY <1>3, <1>5, <2>1, <3>2, <3>3
      <4>2. Asking(t)' /\ NoAnswer(t)'
        BY <1>1, <2>6, <4>1 DEF Asking, NoAnswer
      <4> QED BY <1>1, <2>6, <4>2 DEF Stage
    <3>4. CASE w = W("body", t) /\ Quiet(toScheduler')
      <4>1. op = IF thread[t].pc = "asked" THEN "IS_THIS_KEY_BLOCKED" ELSE "UNLOCK_KEY"
        BY <2>6 DEF op, Opcode
      <4>2. PICK kind \in AnswerTo(thread[t].pc) : toCoordinator' = Append(toCoordinator, W(kind, t))
        BY <1>3, <2>6, <3>2, <3>4, <4>1, Answers
      <4>3. main'.pc = "select"
        BY <1>3, <3>2, <3>4
      <4>4. Answering'
        BY <1>8, <3>4 DEF Answering
      <4>5. thread[t].pc \in Waiting /\ W(kind, t) \in Word
        BY <2>1, <2>6, <4>2, Answers, Words DEF Waiting
      <4>6. One(toCoordinator', W(kind, t))
        BY <1>2, <2>6, <4>2, <4>5, QueueGrows DEF NoAnswer
      <4>7. AnswerSent(t)'
        BY <1>1, <2>6, <4>2, <4>6 DEF AnswerSent, NoAnswer
      <4> QED BY <1>1, <4>4, <4>5, <4>7 DEF Stage
    <3> QED BY <1>1, <1>2, <3>1, <3>3, <3>4, QueueShrinks DEF w
  <2>7. toCoordinator' = toCoordinator =>
            /\ NoAnswer(t) => NoAnswer(t)'
            /\ AnswerSent(t) => AnswerSent(t)'
            /\ AnswerInSlot(t) => AnswerInSlot(t)'
    BY <1>1 DEF NoAnswer, AnswerSent, AnswerInSlot
  <2>8. CASE /\ thread[t].pc \in {"asking", "asked", "blocking", "unlocking", "unlocked"}
             /\ NoAnswer(t) /\ Asking(t)
    BY <1>1, <2>4, <2>5, <2>6, <2>7, <2>8 DEF Stage
  <2>9. CASE thread[t].pc = "direct" /\ toCoordinator = <<>> /\ Asking(t)
    BY <1>1, <2>4, <2>5, <2>9 DEF Stage
  <2> QED BY <1>1, <1>10, <1>11, <2>7, <2>8, <2>9 DEF Stage
<1>12. pendingSem = 0 /\ Quiet(toCoordinator) /\ Answering
          => (pendingSem = 0 /\ Quiet(toCoordinator) /\ Answering)'
  BY <1>1, <1>10
<1> QED BY <1>1, <1>11, <1>12, NoneGoes DEF LinkInv

\* The console asks, but never while an answer to the second question is awaited.
LEMMA ConsoleConversation ==
  ASSUME LinkInv, StatusLock \/ StatusSend
  PROVE  Conversation'
<1> DEFINE w == W("KEY_STATUS", Status)
<1>1. UNCHANGED <<thread, running, pendingSem, pending, toScheduler, main>>
  BY DEF StatusLock, StatusSend, coordinator
<1>2. \/ UNCHANGED toCoordinator
      \/ console = "locked" /\ toCoordinator' = Append(toCoordinator, w)
  BY DEF StatusLock, StatusSend, Reply
<1>3. toCoordinator \in Seq(Word) /\ w \in Word /\ w.of = Status
  BY Words DEF LinkInv, TokenInv, Typed, Question, Subject
<1> HIDE DEF w
<1>4. /\ Quiet(toCoordinator) => Quiet(toCoordinator')
      /\ \A v : One(toCoordinator, v) => One(toCoordinator', v)
  <2>1. CASE UNCHANGED toCoordinator
    BY <2>1
  <2>2. CASE toCoordinator' = Append(toCoordinator, w)
    BY <1>3, <2>2, QueueGrows
  <2> QED BY <1>2, <2>1, <2>2
<1>5. Answering => Answering'
  BY <1>1 DEF Answering
<1>6. ASSUME NEW t \in Thread, Stage(t) PROVE Stage(t)'
  <2>1. Asking(t) => Asking(t)'
    BY <1>1 DEF Asking
  <2>2. /\ NoAnswer(t) => NoAnswer(t)'
        /\ AnswerSent(t) => AnswerSent(t)'
        /\ AnswerInSlot(t) => AnswerInSlot(t)'
    BY <1>1, <1>4 DEF NoAnswer, AnswerSent, AnswerInSlot
  <2>3. thread[t].pc = "direct" /\ toCoordinator = <<>> => toCoordinator' = <<>>
    <3>1. thread[t].pc = "direct" /\ toCoordinator = <<>> => console = "idle"
      BY DEF LinkInv, MutexTaken, Kept
    <3> QED BY <1>2, <3>1
  <2>4. toCoordinator # <<>> => toCoordinator' # <<>> /\ Head(toCoordinator') = Head(toCoordinator)
    BY <1>2, <1>3, HeadTailProperties, AppendProperties
  <2> QED BY <1>1, <1>4, <1>5, <1>6, <2>1, <2>2, <2>3, <2>4 DEF Stage
<1> QED BY <1>1, <1>4, <1>5, <1>6, NoneGoes DEF LinkInv
\* Every step, with one sentence at a time.
LEMMA StepConversation == LinkInv /\ OneAtATime /\ [Next]_vars => Conversation'
<1> SUFFICES ASSUME LinkInv, OneAtATime, [Next]_vars PROVE Conversation'
  OBVIOUS
<1>1. ASSUME NEW t \in Thread, Ask(t) \/ Sentence(t) PROVE Conversation'
  BY <1>1, AskConversation, SendKeyConversation, WakeConversation, ReadStateConversation,
     ReadOwnerConversation, OrderConversation, AcknowledgedConversation DEF Sentence
<1>2. CASE Reader
  BY <1>2, ReaderConversation, ReaderRecvConversation DEF Reader
<1>3. CASE Main
  BY <1>3, ReceiveConversation, LockConversation, BodyConversation DEF Main
<1>4. CASE StatusLock \/ StatusSend
  BY <1>4, ConsoleConversation
<1>5. CASE UNCHANGED vars
  <2>1. UNCHANGED <<toScheduler, toCoordinator, main, pendingSem, pending, thread, running>>
    BY <1>5 DEF vars, scheduler, coordinator
  <2>2. Answering => Answering'
    BY <2>1 DEF Answering
  <2>3. ASSUME NEW t \in Thread, Stage(t) PROVE Stage(t)'
    <3>1. Asking(t) => Asking(t)'
      BY <2>1 DEF Asking
    <3>2. /\ NoAnswer(t) => NoAnswer(t)'
          /\ AnswerSent(t) => AnswerSent(t)'
          /\ AnswerInSlot(t) => AnswerInSlot(t)'
      BY <2>1 DEF NoAnswer, AnswerSent, AnswerInSlot
    <3> QED BY <2>1, <2>2, <2>3, <3>1, <3>2 DEF Stage
  <2> QED BY <2>1, <2>2, <2>3, NoneGoes DEF LinkInv
<1> QED BY <1>1, <1>2, <1>3, <1>4, <1>5 DEF Next

-----------------------------------------------------------------------------
(* One sentence at a time: the words, the console's and the semaphore *)

\* Where the words of a queue come from.
LEMMA EachWord ==
  ASSUME NEW S, NEW q \in Seq(S)
  PROVE  /\ \A w \in S :
               /\ DOMAIN Append(q, w) = 1 .. Len(q) + 1 /\ Len(Append(q, w)) = Len(q) + 1
               /\ Append(q, w)[Len(q) + 1] = w
               /\ \A i \in 1 .. Len(q) : Append(q, w)[i] = q[i]
         /\ q # <<>> =>
               /\ DOMAIN Tail(q) = 1 .. Len(q) - 1 /\ Len(Tail(q)) = Len(q) - 1
               /\ \A i \in 1 .. Len(q) - 1 : Tail(q)[i] = q[i + 1] /\ i + 1 \in DOMAIN q
         /\ DOMAIN q = 1 .. Len(q) /\ Len(q) \in Nat
BY AppendProperties, HeadTailProperties

\* What holds of every word of a queue holds when one of the kind is added, or one taken.
LEMMA AllGrow ==
  ASSUME NEW S, NEW q \in Seq(S), NEW w \in S
  PROVE  /\ AllStatus(q) /\ (IF w.of = Status THEN w.kind = "KEY_STATUS" ELSE w.kind \in Answer)
               => AllStatus(Append(q, w))
         /\ AllRequests(q) /\ (w.of = Status => w.kind \in {"KEY_STATUS", "body"})
               => AllRequests(Append(q, w))
         /\ AllThreads(q) /\ w.of # Status => AllThreads(Append(q, w))
         /\ NoneBlocked(q) /\ w.kind # "KEY_IS_BLOCKED" => NoneBlocked(Append(q, w))
         /\ NoneBlocked(q) => LastBlocked(Append(q, w))
<1> DEFINE a == Append(q, w)
           n == Len(q)
<1>1. /\ n \in Nat /\ DOMAIN q = 1..n /\ DOMAIN a = 1 .. n + 1 /\ Len(a) = n + 1
      /\ a[n + 1] = w /\ \A i \in 1..n : a[i] = q[i]
  BY EachWord
<1> HIDE DEF a, n
<1>2. \A i \in DOMAIN a : i = n + 1 \/ i \in 1..n
  BY <1>1
<1> QED BY <1>1, <1>2 DEF AllStatus, AllRequests, AllThreads, NoneBlocked, LastBlocked, a

LEMMA AllShrink ==
  ASSUME NEW S, NEW q \in Seq(S), q # <<>>
  PROVE  /\ AllStatus(q) => AllStatus(Tail(q))
         /\ AllRequests(q) => AllRequests(Tail(q))
         /\ AllThreads(q) => AllThreads(Tail(q))
         /\ NoneBlocked(q) => NoneBlocked(Tail(q))
         /\ LastBlocked(q) => LastBlocked(Tail(q))
         /\ LastBlocked(q) /\ Head(q).kind = "KEY_IS_BLOCKED" => Tail(q) = <<>>
<1> DEFINE b == Tail(q)
           n == Len(q)
<1>1. /\ n \in Nat /\ DOMAIN q = 1..n /\ DOMAIN b = 1 .. n - 1 /\ Len(b) = n - 1
      /\ \A i \in 1 .. n - 1 : b[i] = q[i + 1] /\ i + 1 \in 1..n
      /\ Head(q) = q[1] /\ 1 \in 1..n
  BY EachWord, FirstWord
<1>2. b \in Seq(S) /\ (Len(b) = 0 => b = <<>>)
  BY FirstWord, EmptySeq
<1> HIDE DEF b, n
<1>3. /\ AllStatus(q) => AllStatus(b)
      /\ AllRequests(q) => AllRequests(b)
      /\ AllThreads(q) => AllThreads(b)
      /\ NoneBlocked(q) => NoneBlocked(b)
  BY <1>1 DEF AllStatus, AllRequests, AllThreads, NoneBlocked
<1>4. LastBlocked(q) => LastBlocked(b)
  BY <1>1 DEF LastBlocked, n
<1>5. LastBlocked(q) /\ q[1].kind = "KEY_IS_BLOCKED" => b = <<>>
  <2>1. LastBlocked(q) /\ q[1].kind = "KEY_IS_BLOCKED" => n = 1
    BY <1>1 DEF LastBlocked, n
  <2> QED BY <1>1, <1>2, <2>1
<1> QED BY <1>1, <1>3, <1>4, <1>5 DEF b
\* What the scheduler's main thread finds in front of it, when it is a thread's.
LEMMA FirstIsOpcode ==
  ASSUME LinkInv, main.pc = "select", toScheduler # <<>>, Head(toScheduler).of # Status
  PROVE  \E t \in Thread :
            /\ Head(toScheduler) = W(Opcode(thread[t].pc), t)
            /\ thread[t].pc \in {"asking", "asked", "blocking", "unlocking", "unlocked", "direct"}
            /\ thread[t].pc = "direct" => toCoordinator = <<>>
<1>1. toScheduler \in Seq(Sent)
  BY DEF LinkInv, TokenInv, Typed
<1>2. ~Quiet(toScheduler)
  BY <1>1, QueueShrinks
<1>3. ~Answering
  BY <1>2 DEF Answering
<1>4. PICK t \in Thread : Stage(t)
  BY <1>3 DEF LinkInv, Conversation, Nobody
<1>5. /\ Asking(t)
      /\ thread[t].pc \in {"asking", "asked", "blocking", "unlocking", "unlocked", "direct"}
      /\ thread[t].pc = "direct" => toCoordinator = <<>>
  BY <1>3, <1>4 DEF Stage
<1> DEFINE op == Opcode(thread[t].pc)
<1>6. One(toScheduler, W(op, t)) \/ Two(toScheduler, W(op, t), W("body", t))
  BY <1>5 DEF Asking, Half, Whole, Serves
<1>7. Head(toScheduler) = W(op, t)
  BY <1>1, <1>6, QueueShrinks
<1> QED BY <1>5, <1>7

\* While it serves a thread, what it reads of the thread is the argument.
LEMMA BodyFollows ==
  ASSUME LinkInv, main.pc = "body", main.of # Status, toScheduler # <<>>,
         Head(toScheduler).of # Status
  PROVE  Head(toScheduler) = W("body", main.of)
<1>1. toScheduler \in Seq(Sent)
  BY DEF LinkInv, TokenInv, Typed
<1>2. ~Quiet(toScheduler) /\ ~Free(main)
  BY <1>1, QueueShrinks DEF Free
<1>3. PICK t \in Thread : Asking(t)
  BY <1>2 DEF LinkInv, Conversation, Nobody, Stage, Answering
<1> DEFINE op == Opcode(thread[t].pc)
<1>4. Serves(main, op, t) /\ One(toScheduler, W("body", t))
  BY <1>2, <1>3 DEF Asking, Half, Whole
<1>5. Head(toScheduler) = W("body", t)
  BY <1>1, <1>4, QueueShrinks
<1> QED BY <1>4, <1>5 DEF Serves

\* What a step does to what is on its way to the scheduler.
LEMMA ToScheduler ==
  ASSUME Typed, [Next]_vars
  PROVE  \/ toScheduler' = toScheduler
         \/ /\ Main /\ toScheduler # <<>> /\ toScheduler' = Tail(toScheduler)
         \/ \E w \in Sent : w.of # Status /\ toScheduler' = Append(toScheduler, w)
         \/ /\ reader \in {"status", "state"}
            /\ \E w \in Sent : /\ w.of = Status /\ w.kind \in {"KEY_STATUS", "body"}
                               /\ toScheduler' = Append(toScheduler, w)
<1>1. ASSUME NEW t \in Thread, Ask(t) \/ Sentence(t)
      PROVE  \/ toScheduler' = toScheduler
             \/ \E w \in Sent : w.of # Status /\ toScheduler' = Append(toScheduler, w)
  <2>1. \/ toScheduler' = toScheduler
        \/ \E kind \in Question \cup {"body"} : toScheduler' = Append(toScheduler, W(kind, t))
    BY <1>1 DEF Ask, Sentence, SendKey, Wake, ReadState, ReadOwner, BlockKey, UnblockKey,
                Acknowledged, Send, Question
  <2>2. \A kind \in Question \cup {"body"} : W(kind, t) \in Sent /\ W(kind, t).of # Status
    BY Words, Console
  <2> QED BY <2>1, <2>2
<1>2. CASE Reader
  <2>1. \A kind \in {"KEY_STATUS", "body"} :
            W(kind, Status) \in Sent /\ W(kind, Status).of = Status /\ W(kind, Status).kind = kind
    BY Words DEF Question, Subject
  <2>2. \/ toScheduler' = toScheduler
        \/ /\ reader \in {"status", "state"}
           /\ \E kind \in {"KEY_STATUS", "body"} : toScheduler' = Append(toScheduler, W(kind, Status))
    BY <1>2 DEF Reader, ReaderWait, ReaderRecv, SendStatus, Send
  <2> QED BY <2>1, <2>2
<1>3. CASE Main
  BY <1>3 DEF Main, Receive, Lock, Body
<1>4. CASE StatusLock \/ StatusSend \/ UNCHANGED vars
  BY <1>4 DEF StatusLock, StatusSend, vars
<1> QED BY <1>1, <1>2, <1>3, <1>4 DEF Next

\* What the scheduler writes: the answer to a thread, or the console's request.
LEMMA ToCoordinator ==
  ASSUME LinkInv, [Next]_vars
  PROVE  \/ toCoordinator' = toCoordinator
         \/ toCoordinator # <<>> /\ toCoordinator' = Tail(toCoordinator)
         \/ /\ \E w \in Word : w.of # Status /\ w.kind \in Answer
                               /\ toCoordinator' = Append(toCoordinator, w)
            /\ UNCHANGED asked
         \/ toCoordinator' = Append(toCoordinator, W("KEY_STATUS", Status)) /\ asked' # 0
<1> Typed
  BY DEF LinkInv, TokenInv
<1>1. ASSUME NEW t \in Thread, Ask(t) \/ Sentence(t)
      PROVE  \/ toCoordinator' = toCoordinator
             \/ toCoordinator # <<>> /\ toCoordinator' = Tail(toCoordinator)
  BY <1>1 DEF Ask, Sentence, SendKey, Wake, ReadState, ReadOwner, BlockKey, UnblockKey,
              Acknowledged
<1>2. CASE Reader
  BY <1>2 DEF Reader, ReaderWait, ReaderRecv, SendStatus
<1>3. CASE Main
  <2>1. ASSUME NEW kind \in Answer, NEW of \in Subject, of # Status,
               toCoordinator' = Append(toCoordinator, W(kind, of))
        PROVE  \E w \in Word : w.of # Status /\ w.kind \in Answer
                               /\ toCoordinator' = Append(toCoordinator, w)
    BY <2>1, Words
  <2>2. CASE Receive
    <3> DEFINE w == Head(toScheduler)
    <3>1. w \in Sent /\ (w.of = Status => w.kind \in {"KEY_STATUS", "body"})
      BY <2>2, FirstWord DEF Receive, Typed, LinkInv, StatusWords, AllRequests
    <3>2. w.of \in Subject
      BY <3>1 DEF Sent
    <3> HIDE DEF w
    <3>3. \/ toCoordinator' = toCoordinator
          \/ /\ w.of # Status
             /\ \E kind \in Answer : toCoordinator' = Append(toCoordinator, W(kind, w.of))
      BY <2>2, <3>1 DEF Receive, Reply, OwnerAnswer, Answer, w
    <3> QED BY <2>1, <2>2, <3>2, <3>3 DEF Receive
  <2>3. CASE Lock \/ Body
    <3>1. main.of \in Subject /\ (main.of = Status => main.op = "KEY_STATUS")
      BY <2>3 DEF Lock, Body, Typed, LinkInv, StatusWords
    <3>2. \/ toCoordinator' = toCoordinator
          \/ /\ main.of # Status
             /\ \E kind \in Answer : toCoordinator' = Append(toCoordinator, W(kind, main.of))
      BY <2>3, <3>1 DEF Lock, Body, Reply, Answer
    <3> QED BY <2>1, <2>3, <3>1, <3>2 DEF Lock, Body
  <2> QED BY <1>3, <2>2, <2>3 DEF Main
<1>4. CASE StatusLock \/ StatusSend
  BY <1>4 DEF StatusLock, StatusSend, Reply, Typed
<1>5. CASE UNCHANGED vars
  BY <1>5 DEF vars
<1> QED BY <1>1, <1>2, <1>3, <1>4, <1>5 DEF Next

\* The words of the console stay what they are.
LEMMA StepStatusWords == LinkInv /\ [Next]_vars => StatusWords'
<1> SUFFICES ASSUME LinkInv, [Next]_vars PROVE StatusWords'
  OBVIOUS
<1>1. Typed /\ toScheduler \in Seq(Sent) /\ toCoordinator \in Seq(Word)
  BY DEF LinkInv, TokenInv, Typed
<1>2. AllRequests(toScheduler')
  <2>1. AllRequests(toScheduler)
    BY DEF LinkInv, StatusWords
  <2> QED BY <1>1, <2>1, ToScheduler, AllGrow, AllShrink
<1>3. AllStatus(toCoordinator')
  <2>1. AllStatus(toCoordinator)
    BY DEF LinkInv, StatusWords
  <2>2. /\ W("KEY_STATUS", Status) \in Word
        /\ W("KEY_STATUS", Status).of = Status /\ W("KEY_STATUS", Status).kind = "KEY_STATUS"
    BY Words DEF Question, Subject
  <2> QED BY <1>1, <2>1, <2>2, ToCoordinator, AllGrow, AllShrink
<1>4. main'.pc \in {"wait", "body"} /\ main'.of = Status => main'.op = "KEY_STATUS"
  <2>1. CASE Receive
    <3> DEFINE w == Head(toScheduler)
    <3>1. w.of = Status => w.kind \in {"KEY_STATUS", "body"}
      BY <1>1, <2>1, FirstWord DEF Receive, LinkInv, StatusWords, AllRequests
    <3> HIDE DEF w
    <3>2. \/ main'.pc \in {"lost", "select"}
          \/ w.kind # "body" /\ main'.op = w.kind /\ main'.of = w.of
      BY <1>1, <2>1 DEF Receive, Typed, w
    <3> QED BY <3>1, <3>2
  <2>2. CASE Lock \/ Body
    BY <1>1, <2>2 DEF Lock, Body, LinkInv, StatusWords, Typed
  <2>3. CASE UNCHANGED main
    BY <2>3 DEF LinkInv, StatusWords
  <2> QED BY <2>1, <2>2, <2>3 DEF Next, Sentence, Reader, Main, Ask, SendKey, Wake, ReadState,
             ReadOwner, BlockKey, UnblockKey, Acknowledged, ReaderWait, ReaderRecv,
             SendStatus, StatusLock, StatusSend, vars, scheduler
<1> QED BY <1>2, <1>3, <1>4 DEF StatusWords

\* Until the console asks, the scheduler stays in step.
LEMMA StepNoStatusYet == LinkInv /\ [Next]_vars => NoStatusYet'
<1> SUFFICES ASSUME LinkInv, [Next]_vars, asked' = 0
             PROVE  /\ main'.pc # "lost" /\ reader' \notin {"status", "state"}
                    /\ AllThreads(toScheduler') /\ AllThreads(toCoordinator')
                    /\ main'.pc \in {"wait", "body"} => main'.of # Status
  BY DEF NoStatusYet
<1>1. Typed /\ toScheduler \in Seq(Sent) /\ toCoordinator \in Seq(Word) /\ asked \in Nat
  BY DEF LinkInv, TokenInv, Typed
<1>2. asked = 0 /\ ~StatusSend
  <2>1. asked' \in {asked, asked + 1} /\ (StatusSend => asked' = asked + 1)
    BY DEF Next, Sentence, Reader, Main, Ask, SendKey, Wake, ReadState, ReadOwner, BlockKey,
           UnblockKey, Acknowledged, ReaderWait, ReaderRecv, SendStatus, Receive, Lock, Body,
           StatusLock, StatusSend, vars, scheduler
  <2> QED BY <1>1, <2>1
<1>3. /\ main.pc # "lost" /\ reader \notin {"status", "state"}
      /\ AllThreads(toScheduler) /\ AllThreads(toCoordinator)
      /\ main.pc \in {"wait", "body"} => main.of # Status
  BY <1>2 DEF LinkInv, NoStatusYet
<1>4. toScheduler # <<>> => Head(toScheduler).of # Status
  BY <1>1, <1>3, FirstWord DEF AllThreads
<1>5. AllThreads(toScheduler')
  BY <1>1, <1>3, ToScheduler, AllGrow, AllShrink
<1>6. AllThreads(toCoordinator')
  BY <1>1, <1>3, ToCoordinator, AllGrow, AllShrink
<1>7. reader' \notin {"status", "state"}
  <2>1. CASE ReaderRecv
    <3>1. Head(toCoordinator).kind # "KEY_STATUS"
      BY <1>1, <1>3, <2>1, FirstWord
         DEF ReaderRecv, AllThreads, AllStatus, LinkInv, StatusWords, Answer
    <3> QED BY <2>1, <3>1 DEF ReaderRecv
  <2>2. CASE ReaderWait
    BY <2>2 DEF ReaderWait
  <2>3. CASE UNCHANGED reader
    BY <1>3, <2>3
  <2> QED BY <1>3, <2>1, <2>2, <2>3 DEF Next, Sentence, Reader, Main, Ask, SendKey, Wake, ReadState,
             ReadOwner, BlockKey, UnblockKey, Acknowledged, SendStatus, Receive, Lock, Body,
             StatusLock, StatusSend, vars, coordinator
<1>8. main'.pc # "lost" /\ (main'.pc \in {"wait", "body"} => main'.of # Status)
  <2>1. CASE Receive
    <3> DEFINE w == Head(toScheduler)
    <3>1. w.of # Status
      BY <1>4, <2>1 DEF Receive
    <3>2. PICK t \in Thread : w = W(Opcode(thread[t].pc), t)
      BY <2>1, <3>1, FirstIsOpcode DEF Receive
    <3>3. w.kind # "body"
      BY <3>2 DEF W, Opcode
    <3> HIDE DEF w
    <3> QED BY <1>1, <1>3, <2>1, <3>1, <3>3 DEF Receive, Typed, w
  <2>2. CASE Lock
    BY <1>1, <1>3, <2>2 DEF Lock, Typed
  <2>3. CASE Body
    <3>1. Head(toScheduler) = W("body", main.of)
      BY <1>3, <1>4, <2>3, BodyFollows DEF Body
    <3> QED BY <1>1, <2>3, <3>1 DEF Body, Typed
  <2>4. CASE UNCHANGED main
    BY <1>3, <2>4
  <2> QED BY <2>1, <2>2, <2>3, <2>4 DEF Next, Sentence, Reader, Main, Ask, SendKey, Wake, ReadState,
             ReadOwner, BlockKey, UnblockKey, Acknowledged, ReaderWait, ReaderRecv,
             SendStatus, StatusLock, StatusSend, vars, scheduler
<1> QED BY <1>5, <1>6, <1>7, <1>8
\* KEY_IS_BLOCKED goes from the socket to the slot, to the thread that asked, and ends
\* when that thread has its answer from the socket.
LEMMA SentenceMutex ==
  ASSUME LinkInv, NEW t \in Thread, Ask(t) \/ Sentence(t)
  PROVE  MutexTaken'
<1>1. Typed /\ UNCHANGED <<mutex, main, console, pending>>
  BY DEF LinkInv, TokenInv, Ask, Sentence, SendKey, Wake, ReadState, ReadOwner, BlockKey,
         UnblockKey, Acknowledged, scheduler
<1>2. CASE Ask(t) \/ SendKey(t) \/ BlockKey(t) \/ UnblockKey(t) \/ Acknowledged(t)
  <2>1. UNCHANGED <<toCoordinator, pendingSem>> /\ \E pc \in Place \ {"direct"} : GoTo(t, pc)
    BY <1>2 DEF Ask, SendKey, BlockKey, UnblockKey, Acknowledged, Place, Waiting
  <2>2. \A s \in Thread : /\ thread'[s].woken => thread[s].woken
                          /\ thread'[s].pc = "direct" => thread[s].pc = "direct"
    BY <1>1, <2>1, GoToType
  <2>3. (InSlot' => InSlot) /\ (Kept' => Kept)
    BY <1>1, <2>1, <2>2 DEF InSlot, Kept
  <2> QED BY <1>1, <2>1, <2>3 DEF LinkInv, MutexTaken
<1>3. CASE Wake(t)
  <2>1. pendingSem = 1
    BY <1>3, OneHolder DEF LinkInv, Wake
  <2>2. \A s \in Thread : thread'[s].pc = thread[s].pc
    BY <1>1, <1>3 DEF Wake, Typed, ThreadTyped
  <2>3. UNCHANGED toCoordinator
    BY <1>3 DEF Wake
  <2>4. (InSlot' => InSlot) /\ (Kept' => Kept)
    BY <1>1, <2>1, <2>2, <2>3 DEF InSlot, Kept
  <2> QED BY <1>1, <2>3, <2>4 DEF LinkInv, MutexTaken
<1>4. CASE ReadState(t)
  <2>1. UNCHANGED <<toCoordinator, pendingSem>> /\ thread[t].woken
    BY <1>4 DEF ReadState
  <2>2. \/ /\ pending.kind = "KEY_IS_NOT_BLOCKED" /\ GoTo(t, "free")
        \/ pending.kind = "KEY_IS_BLOCKED" /\ GoTo(t, "direct")
        \/ UNCHANGED thread
    BY <1>4 DEF ReadState
  <2>3. /\ \A s \in Thread : thread'[s].woken => thread[s].woken
        /\ \A s \in Thread : thread'[s].pc = "direct" =>
               thread[s].pc = "direct" \/ pending.kind = "KEY_IS_BLOCKED"
    BY <1>1, <2>2, GoToType DEF Place
  <2>4. InSlot' => InSlot
    BY <1>1, <2>1, <2>3 DEF InSlot
  <2>5. pending.kind = "KEY_IS_BLOCKED" => InSlot
    BY <2>1 DEF InSlot
  <2>6. Kept' => Kept
    BY <1>1, <2>1, <2>3, <2>4, <2>5 DEF Kept
  <2> QED BY <1>1, <2>1, <2>4, <2>6 DEF LinkInv, MutexTaken
<1>5. CASE ReadOwner(t)
  <2>1. /\ thread[t].pc = "direct" /\ toCoordinator # <<>> /\ toCoordinator' = Tail(toCoordinator)
        /\ toCoordinator \in Seq(Word)
    BY <1>1, <1>5 DEF ReadOwner, At, Typed
  <2>2. /\ Head(toCoordinator).kind \in OwnerAnswer /\ Others(t) /\ ~thread[t].woken
        /\ pendingSem = 0
    BY <2>1, DirectFinds
  <2>3. UNCHANGED pendingSem /\ \E pc \in {"own", "idle"} : GoTo(t, pc)
    BY <1>5, <2>2 DEF ReadOwner
  <2>4. \A s \in Thread : ~thread'[s].woken /\ thread'[s].pc # "direct"
    BY <1>1, <2>2, <2>3, GoToType DEF Others, Place
  <2>5. ~InSlot'
    BY <2>2, <2>3, <2>4 DEF InSlot
  <2>6. /\ NoneBlocked(toCoordinator) => NoneBlocked(toCoordinator')
        /\ LastBlocked(toCoordinator) => LastBlocked(toCoordinator')
    BY <2>1, AllShrink
  <2>7. Kept' => Kept
    BY <2>4, <2>5, <2>6 DEF Kept
  <2> QED BY <1>1, <2>5, <2>6, <2>7 DEF LinkInv, MutexTaken
<1> QED BY <1>2, <1>3, <1>4, <1>5 DEF Sentence

LEMMA ReaderMutex ==
  ASSUME LinkInv, Reader
  PROVE  MutexTaken'
<1>1. UNCHANGED <<mutex, main, console, thread>> /\ Typed
  BY DEF LinkInv, TokenInv, Reader, ReaderWait, ReaderRecv, SendStatus, scheduler
<1>2. CASE ReaderWait \/ SendStatus
  <2>1. UNCHANGED <<toCoordinator, pendingSem, pending>>
    BY <1>2 DEF ReaderWait, SendStatus
  <2>2. (InSlot' => InSlot) /\ (Kept' => Kept)
    BY <1>1, <2>1 DEF InSlot, Kept
  <2> QED BY <1>1, <2>1, <2>2 DEF LinkInv, MutexTaken
<1>3. CASE ReaderRecv
  <2> DEFINE w == Head(toCoordinator)
  <2>1. /\ toCoordinator # <<>> /\ toCoordinator' = Tail(toCoordinator)
        /\ toCoordinator \in Seq(Word)
    BY <1>1, <1>3 DEF ReaderRecv, Typed
  <2>2. w = toCoordinator[1] /\ 1 \in DOMAIN toCoordinator
    BY <2>1, FirstWord
  <2>3. \A t \in Thread : thread[t].pc # "direct"
    BY <1>3, OneHolder DEF LinkInv, ReaderRecv
  <2>4. UNCHANGED <<pendingSem, pending>> \/ pending' = w
    BY <1>3 DEF ReaderRecv
  <2>5. /\ NoneBlocked(toCoordinator) => NoneBlocked(toCoordinator') /\ w.kind # "KEY_IS_BLOCKED"
        /\ LastBlocked(toCoordinator) => LastBlocked(toCoordinator')
        /\ LastBlocked(toCoordinator) /\ w.kind = "KEY_IS_BLOCKED" => toCoordinator' = <<>>
    BY <2>1, <2>2, AllShrink DEF NoneBlocked
  <2> HIDE DEF w
  <2>6. InSlot => toCoordinator = <<>>
    BY DEF LinkInv, MutexTaken
  <2>7. InSlot' => w.kind = "KEY_IS_BLOCKED"
    BY <1>1, <2>1, <2>4, <2>6 DEF InSlot
  <2>8. Kept' => Kept
    BY <1>1, <2>3, <2>5, <2>7 DEF Kept
  <2> QED BY <1>1, <2>5, <2>7, <2>8 DEF LinkInv, MutexTaken
<1> QED BY <1>2, <1>3 DEF Reader

\* Whoever writes to the coordinator holds the semaphore, or answers the thread that
\* the semaphore was kept for.
LEMMA SchedulerMutex ==
  ASSUME LinkInv, Main \/ StatusLock \/ StatusSend
  PROVE  MutexTaken'
<1>1. UNCHANGED <<thread, pendingSem, pending>> /\ Typed /\ toCoordinator \in Seq(Word)
  BY DEF LinkInv, TokenInv, Typed, Main, Receive, Lock, Body, StatusLock, StatusSend, coordinator
<1>2. InSlot' <=> InSlot
  BY <1>1 DEF InSlot
<1>3. /\ mutex \in 0..1
      /\ console = "locked" => mutex = 0
      /\ main.pc = "body" => mutex = 0 /\ console = "idle"
      /\ Kept => mutex = 0 /\ console = "idle" /\ main.pc # "body"
      /\ LastBlocked(toCoordinator)
      /\ InSlot => toCoordinator = <<>>
  BY DEF LinkInv, MutexTaken
<1>4. console # "locked" => console = "idle"
  BY <1>1 DEF Typed
<1>5. ASSUME UNCHANGED toCoordinator
      PROVE  (Kept' <=> Kept) /\ LastBlocked(toCoordinator') /\ (InSlot' => toCoordinator' = <<>>)
  BY <1>1, <1>2, <1>3, <1>5 DEF Kept
<1>6. ASSUME ~Kept, NEW w \in Word, toCoordinator' = Append(toCoordinator, w)
      PROVE  /\ w.kind # "KEY_IS_BLOCKED" => ~Kept'
             /\ LastBlocked(toCoordinator') /\ ~InSlot'
  <2>1. NoneBlocked(toCoordinator) /\ ~InSlot
    BY <1>6 DEF Kept
  <2>2. toCoordinator' # <<>>
    BY <1>1, <1>6, AppendProperties
  <2>3. /\ w.kind # "KEY_IS_BLOCKED" => NoneBlocked(toCoordinator')
        /\ LastBlocked(toCoordinator')
    BY <1>1, <1>6, <2>1, AllGrow
  <2> QED BY <1>2, <2>1, <2>2, <2>3 DEF Kept
<1>7. CASE Receive
  <2> DEFINE v == Head(toScheduler)
  <2>1. UNCHANGED console /\ main.pc = "select" /\ toScheduler # <<>>
    BY <1>7 DEF Receive
  <2>2. CASE v.kind = "IS_KEY_BLOCKED_BY_EXECUTING_ESI"
    <3>1. toScheduler \in Seq(Sent) /\ v \in Sent
      BY <1>1, <2>1, FirstWord DEF Typed
    <3>2. v.of # Status
      BY <2>1, <2>2, <3>1, FirstWord DEF LinkInv, StatusWords, AllRequests
    <3>3. PICK t \in Thread : /\ v = W(Opcode(thread[t].pc), t)
                              /\ thread[t].pc \in {"asking", "asked", "blocking", "unlocking", "unlocked", "direct"}
                              /\ thread[t].pc = "direct" => toCoordinator = <<>>
      BY <2>1, <3>2, FirstIsOpcode
    <3>4. thread[t].pc = "direct" /\ toCoordinator = <<>>
      BY <2>2, <3>3 DEF W, Opcode
    <3>5. Kept /\ ~InSlot
      <4>1. Others(t) /\ ~thread[t].woken /\ pendingSem = 0
        BY <3>4, DirectFinds
      <4>2. \A s \in Thread : ~thread[s].woken
        BY <4>1 DEF Others
      <4> QED BY <3>4, <4>1, <4>2 DEF Kept, InSlot
    <3>6. PICK answer \in OwnerAnswer : toCoordinator' = Append(toCoordinator, W(answer, v.of))
      BY <1>7, <2>2 DEF Receive, Reply
    <3>7. UNCHANGED main /\ mutex' = mutex + 1
      BY <1>7, <2>2 DEF Receive
    <3>8. /\ W(answer, v.of) \in Word /\ W(answer, v.of).kind # "KEY_IS_BLOCKED"
      <4>1. v.of \in Subject /\ answer \in Answer /\ answer # "KEY_IS_BLOCKED"
        BY <3>1, <3>6 DEF Sent, OwnerAnswer, Answer
      <4> QED BY <4>1, Words
    <3>9. NoneBlocked(toCoordinator)
      BY <3>4 DEF NoneBlocked
    <3>10. NoneBlocked(toCoordinator') /\ LastBlocked(toCoordinator') /\ toCoordinator' # <<>>
      BY <1>1, <3>6, <3>8, <3>9, AllGrow, AppendProperties
    <3>11. ~Kept'
      BY <1>2, <3>5, <3>10 DEF Kept
    <3> QED BY <1>2, <1>3, <2>1, <3>5, <3>7, <3>10, <3>11 DEF MutexTaken
  <2>3. CASE v.kind # "IS_KEY_BLOCKED_BY_EXECUTING_ESI"
    <3>1. UNCHANGED <<toCoordinator, mutex>> /\ main'.pc # "body"
      BY <1>1, <1>7, <2>3 DEF Receive, Typed
    <3> QED BY <1>3, <1>5, <2>1, <3>1 DEF MutexTaken
  <2> QED BY <2>2, <2>3
<1>8. CASE Lock
  <2>1. UNCHANGED console /\ mutex = 1 /\ ~Kept /\ console = "idle"
    BY <1>3, <1>4, <1>8 DEF Lock
  <2>2. CASE main.op = "BLOCK_KEY"
    <3> DEFINE w == W("KEY_BLOCKED_SUCCESFULLY", main.of)
    <3>1. toCoordinator' = Append(toCoordinator, w) /\ UNCHANGED mutex /\ main'.pc # "body"
      BY <1>1, <1>8, <2>2 DEF Lock, Reply, Typed
    <3>2. w \in Word /\ w.kind # "KEY_IS_BLOCKED"
      <4>1. main.of \in Subject
        BY <1>1 DEF Typed
      <4> QED BY <4>1, Words DEF Answer
    <3>3. ~Kept' /\ LastBlocked(toCoordinator') /\ ~InSlot'
      BY <1>6, <2>1, <3>1, <3>2
    <3> QED BY <2>1, <3>1, <3>3 DEF MutexTaken
  <2>3. CASE main.op # "BLOCK_KEY"
    <3>1. UNCHANGED toCoordinator /\ mutex' = 0
      BY <1>8, <2>1, <2>3 DEF Lock
    <3> QED BY <1>5, <2>1, <3>1 DEF MutexTaken
  <2> QED BY <2>2, <2>3
<1>9. CASE Body
  <2>1. UNCHANGED console /\ main.pc = "body" /\ mutex = 0 /\ console = "idle" /\ ~Kept
    BY <1>3, <1>9 DEF Body
  <2>2. main'.pc # "body"
    BY <1>1, <1>9 DEF Body, Typed
  <2>3. CASE UNCHANGED toCoordinator
    <3>1. ~Kept' /\ LastBlocked(toCoordinator') /\ (InSlot' => toCoordinator' = <<>>)
      BY <1>5, <2>1, <2>3
    <3>2. mutex' \in 0..1
      BY <1>9, <2>1 DEF Body
    <3> QED BY <2>1, <2>2, <3>1, <3>2 DEF MutexTaken
  <2>4. ASSUME NEW kind \in Answer, toCoordinator' = Append(toCoordinator, W(kind, main.of)),
               IF kind = "KEY_IS_BLOCKED" THEN mutex' = mutex ELSE mutex' = mutex + 1
        PROVE  MutexTaken'
    <3>1. W(kind, main.of) \in Word /\ W(kind, main.of).kind = kind
      <4>1. main.of \in Subject
        BY <1>1 DEF Typed
      <4> QED BY <4>1, Words
    <3>2. (kind # "KEY_IS_BLOCKED" => ~Kept') /\ LastBlocked(toCoordinator') /\ ~InSlot'
      BY <1>6, <2>1, <2>4, <3>1
    <3> QED BY <2>1, <2>2, <2>4, <3>2 DEF MutexTaken
  <2>5. \/ UNCHANGED toCoordinator
        \/ \E kind \in {"KEY_IS_BLOCKED", "KEY_IS_NOT_BLOCKED", "KEY_UNLOCKED_SUCCESFULLY"} :
              /\ toCoordinator' = Append(toCoordinator, W(kind, main.of))
              /\ IF kind = "KEY_IS_BLOCKED" THEN mutex' = mutex ELSE mutex' = mutex + 1
    BY <1>9 DEF Body, Reply
  <2> QED BY <2>3, <2>4, <2>5 DEF Answer
<1>10. CASE StatusLock
  <2>1. /\ UNCHANGED <<toCoordinator, main>> /\ mutex = 1 /\ mutex' = 0
        /\ ~Kept /\ main.pc # "body"
    BY <1>3, <1>10 DEF StatusLock
  <2> QED BY <1>5, <2>1 DEF MutexTaken
<1>11. CASE StatusSend
  <2> DEFINE w == W("KEY_STATUS", Status)
  <2>1. /\ UNCHANGED main /\ mutex = 0 /\ mutex' = mutex + 1 /\ console' = "idle"
        /\ ~Kept /\ main.pc # "body" /\ toCoordinator' = Append(toCoordinator, w)
    BY <1>3, <1>11 DEF StatusSend, Reply
  <2>2. w \in Word /\ w.kind # "KEY_IS_BLOCKED"
    BY Words DEF Question, Subject
  <2>3. ~Kept' /\ LastBlocked(toCoordinator') /\ ~InSlot'
    BY <1>6, <2>1, <2>2
  <2> QED BY <2>1, <2>3 DEF MutexTaken
<1> QED BY <1>7, <1>8, <1>9, <1>10, <1>11 DEF Main

LEMMA StepMutex == LinkInv /\ [Next]_vars => MutexTaken'
<1> SUFFICES ASSUME LinkInv, [Next]_vars PROVE MutexTaken'
  OBVIOUS
<1>1. CASE UNCHANGED vars
  <2>1. UNCHANGED <<mutex, console, main, toCoordinator, thread, pending, pendingSem>>
    BY <1>1 DEF vars, scheduler, coordinator
  <2>2. (InSlot' <=> InSlot) /\ (Kept' <=> Kept)
    BY <2>1 DEF InSlot, Kept
  <2> QED BY <2>1, <2>2 DEF LinkInv, MutexTaken
<1> QED BY <1>1, SentenceMutex, ReaderMutex, SchedulerMutex DEF Next

-----------------------------------------------------------------------------
(* The invariants *)

LEMMA LinkInit == Init => LinkInv
<1> SUFFICES ASSUME Init PROVE LinkInv
  OBVIOUS
<1>1. /\ DOMAIN toScheduler = {} /\ DOMAIN toCoordinator = {}
      /\ main.pc = "select" /\ mutex = 1 /\ console = "idle" /\ pendingSem = 0
      /\ reader = "wait" /\ running
      /\ \A t \in Thread : thread[t].pc = "idle" /\ ~thread[t].woken
  BY DEF Init
<1>2. Quiet(toScheduler) /\ Quiet(toCoordinator)
  BY <1>1 DEF Quiet
<1>3. Conversation
  BY <1>1, <1>2 DEF Conversation, Nobody, Answering, Free
<1>4. StatusWords /\ NoStatusYet
  BY <1>1 DEF StatusWords, NoStatusYet, AllStatus, AllRequests, AllThreads
<1>5. ~Kept /\ ~InSlot
  BY <1>1 DEF Kept, InSlot, NoneBlocked
<1>6. MutexTaken
  BY <1>1, <1>5 DEF MutexTaken, LastBlocked
<1> QED BY <1>3, <1>4, <1>6, TokenInit DEF LinkInv

LEMMA LinkHolds == OneAtATime /\ Spec => []LinkInv
<1> SUFFICES ASSUME OneAtATime PROVE Spec => []LinkInv
  OBVIOUS
<1>1. LinkInv /\ [Next]_vars => LinkInv'
  BY StepToken, StepStatusWords, StepNoStatusYet, StepConversation, StepMutex DEF LinkInv
<1> QED BY <1>1, LinkInit, PTL DEF Spec

\* protocol_recv_sem is a token, whatever the number of sentences in flight: the reader
\* of the socket, an answer in the slot, a thread that has one and a thread that reads
\* the socket itself exclude each other (protocol_recv_sem in scheduler-connection.c).
THEOREM TokenIsOne == Spec => []OneToken
<1>1. TokenInv => OneToken
  BY DEF TokenInv, OneToken, Tokens, Woken, Directs
<1> QED BY <1>1, TokenHolds, PTL

\* With one sentence at a time every variable keeps its type: the two semaphores of the
\* scheduler's connection and mutex_coordinador of the scheduler never exceed one.
THEOREM LinkTypeCorrect == OneAtATime /\ Spec => []TypeOK
<1>1. LinkInv => TypeOK
  <2> SUFFICES ASSUME LinkInv PROVE TypeOK
    OBVIOUS
  <2>1. recvSem \in 0..1 /\ pendingSem \in 0..1 /\ mutex \in 0..1
    BY OneHolder DEF LinkInv, MutexTaken
  <2>2. toScheduler \in Seq(Word)
    <3>1. Sent \subseteq Word
      BY DEF Sent, Word
    <3>2. toScheduler \in Seq(Sent)
      BY DEF LinkInv, TokenInv, Typed
    <3> QED BY <3>1, <3>2
  <2> QED BY <2>1, <2>2 DEF LinkInv, TokenInv, Typed, ThreadTyped, TypeOK
<1> QED BY <1>1, LinkHolds, PTL

\* With one sentence at a time the thread that waits in scheduler_pending_protocol_recv
\* is the one the answer in the slot is for.
THEOREM AnswersReachTheirThread == OneAtATime /\ Spec => []AnswerReachesAsker
<1>1. LinkInv => AnswerReachesAsker
  <2> SUFFICES ASSUME LinkInv, pendingSem > 0, NEW t \in Thread, thread[t].pc \in Waiting,
                      ~thread[t].woken
               PROVE  pending.of = t
    BY DEF AnswerReachesAsker
  <2>1. Stage(t) /\ pendingSem # 0
    BY InFlightAlone DEF LinkInv, Waiting
  <2> QED BY <2>1 DEF Stage, NoAnswer, AnswerSent, AnswerInSlot, Waiting
<1> QED BY <1>1, LinkHolds, PTL

\* With one sentence at a time the slot holds, from the wake-up of a thread to its
\* reading, the answer to the question of that thread.
THEOREM SlotKept == OneAtATime /\ Spec => []SlotIsKept
<1>1. LinkInv => SlotIsKept
  BY WokenFinds DEF SlotIsKept
<1> QED BY <1>1, LinkHolds, PTL

\* With one sentence at a time the thread that reads the socket itself finds there the
\* answer to its second question: mutex_coordinador, which KEY_IS_BLOCKED leaves taken,
\* keeps the console's request out.
THEOREM OwnersAnswered == OneAtATime /\ Spec => []OwnerAnswered
<1>1. LinkInv => OwnerAnswered
  BY DirectFinds DEF OwnerAnswered
<1> QED BY <1>1, LinkHolds, PTL

\* With one sentence at a time the scheduler reads an opcode where one was written and
\* its argument after it, as long as the console has not asked for a status.
THEOREM StaysInStep == OneAtATime /\ Spec => []InStep
<1>1. LinkInv => InStep
  BY DEF LinkInv, NoStatusYet, InStep
<1> QED BY <1>1, LinkHolds, PTL

\* With one sentence at a time no answer ends the coordinator: scheduler_exit() is never
\* called for a message that is not the one expected.
THEOREM NeverExits == OneAtATime /\ Spec => []running
<1>1. LinkInv => running
  BY DEF LinkInv, Conversation
<1> QED BY <1>1, LinkHolds, PTL
=============================================================================
