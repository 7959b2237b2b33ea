------------------------ MODULE Planificador_proofs -------------------------
(***************************************************************************)
(* Proofs about the scheduler, for any number of ESIs, keys, connections   *)
(* and console commands.                                                   *)
(*                                                                         *)
(*   TypeCorrect      Spec => []InControl                                   *)
(*   OneOwnerCorrect  Spec => [](Alternate /\ OneOwner), if no ESI process *)
(*                    is cut in the middle of its sentence                 *)
(*   LocksImplemented Spec => ImplementsKeyLocks, under the same condition *)
(*                                                                         *)
(* The first part shows that every action keeps TypeOK and Control, the    *)
(* second that g_locked_keys only changes as LocksStep says, the third     *)
(* that the coordinator's conversation and the flags of main() alternate.  *)
(***************************************************************************)
EXTENDS Planificador, ListFacts

-----------------------------------------------------------------------------
(* Types and control *)

\* update_blocked_esi_queue without a waiter: at most one entry of g_locked_keys goes.
LEMMA ForgetKeyThins ==
  ASSUME NEW S, NEW s \in Seq(S), NEW k
  PROVE  Thinned(ForgetKey(s, k), s)
<1> DEFINE I == {i \in 1..Len(s) : s[i].key = k}
<1>1. CASE I = {}
  BY <1>1 DEF RemoveFirstMatch, ForgetKey, Thinned
<1>2. CASE I # {}
  <2>1. Min(I) \in I
    <3>1. Len(s) \in Nat /\ I \in SUBSET (1..Len(s))
      BY LenProperties
    <3> HIDE DEF I
    <3> QED BY <1>2, <3>1, MinIndex
  <2>2. SelectInSeq(s, LAMBDA c : c.key = k) = Min(I)
    BY <1>2 DEF SelectInSeq
  <2>3. ForgetKey(s, k) = RemoveAt(s, Min(I))
    BY <1>2, <2>2 DEF RemoveFirstMatch, ForgetKey
  <2> QED BY <2>1, <2>3 DEF Thinned
<1> QED BY <1>1, <1>2

\* release_resources: at most one entry of an ESI goes from a list of claims.
LEMMA ForgetEsiThins ==
  ASSUME NEW S, NEW s \in Seq(S), NEW e
  PROVE  Thinned(ForgetEsi(s, e), s)
<1> DEFINE I == {i \in 1..Len(s) : s[i].esi = e}
<1>1. CASE I = {}
  BY <1>1 DEF RemoveFirstMatch, ForgetEsi, Thinned
<1>2. CASE I # {}
  <2>1. Min(I) \in I
    <3>1. Len(s) \in Nat /\ I \in SUBSET (1..Len(s))
      BY LenProperties
    <3> HIDE DEF I
    <3> QED BY <1>2, <3>1, MinIndex
  <2>2. SelectInSeq(s, LAMBDA c : c.esi = e) = Min(I)
    BY <1>2 DEF SelectInSeq
  <2>3. ForgetEsi(s, e) = RemoveAt(s, Min(I))
    BY <1>2, <2>2 DEF RemoveFirstMatch, ForgetEsi
  <2> QED BY <2>1, <2>3 DEF Thinned
<1> QED BY <1>1, <1>2

\* list_find by key: an index of the list whose entry has the key, or 0.
LEMMA FirstOfKeyIndex ==
  ASSUME NEW S, NEW s \in Seq(S), NEW k
  PROVE  /\ FirstOfKey(s, k) # 0 => FirstOfKey(s, k) \in 1..Len(s)
<1> DEFINE I == {i \in 1..Len(s) : s[i].key = k}
<1>1. CASE I = {}
  BY <1>1 DEF SelectInSeq, FirstOfKey
<1>2. CASE I # {}
  <2>1. Min(I) \in I
    <3>1. Len(s) \in Nat /\ I \in SUBSET (1..Len(s))
      BY LenProperties
    <3> HIDE DEF I
    <3> QED BY <1>2, <3>1, MinIndex
  <2>2. FirstOfKey(s, k) = Min(I)
    BY <1>2 DEF SelectInSeq, FirstOfKey
  <2> QED BY <2>1, <2>2
<1> QED BY <1>1, <1>2

\* list_find by ESI: an index of the list whose entry has that ESI, or 0.
LEMMA FirstOfEsiIndex ==
  ASSUME NEW S, NEW s \in Seq(S), NEW e
  PROVE  /\ FirstOfEsi(s, e) # 0 => /\ FirstOfEsi(s, e) \in 1..Len(s)
                                    /\ s[FirstOfEsi(s, e)].esi = e
<1> DEFINE I == {i \in 1..Len(s) : s[i].esi = e}
<1>1. CASE I = {}
  BY <1>1 DEF SelectInSeq, FirstOfEsi
<1>2. CASE I # {}
  <2>1. Min(I) \in I
    <3>1. Len(s) \in Nat /\ I \in SUBSET (1..Len(s))
      BY LenProperties
    <3> HIDE DEF I
    <3> QED BY <1>2, <3>1, MinIndex
  <2>2. FirstOfEsi(s, e) = Min(I)
    BY <1>2 DEF SelectInSeq, FirstOfEsi
  <2> QED BY <2>1, <2>2
<1> QED BY <1>1, <1>2

\* move_esi_from_and_to_queue puts ESIs in queues, and nothing else.
LEMMA MoveEsiType ==
  ASSUME queue \in [QueueName -> Seq(Fd)],
         NEW from \in QueueName, NEW to \in QueueName, from # to,
         NEW e \in Fd
  PROVE  MoveEsi(from, to, e) \in [QueueName -> Seq(Fd)]
<1>1. RemoveFirst(queue[from], e) \in Seq(Fd)
  BY RemoveFirstThins, ThinnedElements
<1> DEFINE q == [queue EXCEPT ![from] = RemoveFirst(@, e)]
<1>2. q \in [QueueName -> Seq(Fd)]
  BY <1>1
<1>3. Append(q[to], e) \in Seq(Fd)
  <2> HIDE DEF q
  <2> QED BY <1>2, AppendProperties
<1>4. MoveEsi(from, to, e) = [q EXCEPT ![to] = Append(q[to], e)]
  BY DEF MoveEsi
<1> HIDE DEF q
<1> QED BY <1>2, <1>3, <1>4

\* update_blocked_esi_queue keeps the tables well typed when the waiter is an ESI the
\* scheduler knows, and takes at most one key from g_locked_keys.
LEMMA UpdateType ==
  ASSUME TypeOK, NEW k, NEW slot \in {"update", "unlock"}, NEW was \in BOOLEAN,
         ~WakesStranger(k), UpdateBlockedEsiQueue(k, slot, was)
  PROVE  /\ queue' \in [QueueName -> Seq(Fd)]
         /\ expecting' \in Seq(Claim)
         /\ locked' \in Seq(Claim) /\ Thinned(locked', locked)
         /\ flag' \in [FlagName -> BOOLEAN]
         /\ \A q \in QueueName \ {"blocked", "ready"} : queue'[q] = queue[q]
<1>1. ForgetKey(locked, k) \in Seq(Claim) /\ Thinned(ForgetKey(locked, k), locked)
  BY ForgetKeyThins, ThinnedElements DEF TypeOK
<1>2. locked' \in Seq(Claim) /\ Thinned(locked', locked)
  BY <1>1 DEF UpdateBlockedEsiQueue, TypeOK, Thinned
<1>3. flag' \in [FlagName -> BOOLEAN]
  <2> DEFINE f == [flag EXCEPT ![slot] = FALSE]
  <2>1. f \in [FlagName -> BOOLEAN]
    BY DEF TypeOK, FlagName
  <2>2. flag' = f \/ flag' = [f EXCEPT !["reschedule"] = f["reschedule"] \/ Preemptive]
    BY DEF UpdateBlockedEsiQueue
  <2>3. (f["reschedule"] \/ Preemptive) \in BOOLEAN /\ "reschedule" \in FlagName
    BY <2>1 DEF FlagName, Preemptive
  <2> HIDE DEF f
  <2> QED BY <2>1, <2>2, <2>3, Zenon
<1>4. CASE WaiterOf(k) = 0
  BY <1>2, <1>3, <1>4 DEF UpdateBlockedEsiQueue, TypeOK
<1>5. CASE WaiterOf(k) # 0
  <2> DEFINE e == expecting[WaiterOf(k)].esi
  <2>1. e \in Fd
    BY <1>5 DEF WakesStranger, Known
  <2>2. queue' = MoveEsi("blocked", "ready", e) /\ expecting' = ForgetEsi(expecting, e)
    BY <1>5 DEF UpdateBlockedEsiQueue
  <2>3. expecting' \in Seq(Claim)
    BY <2>2, ForgetEsiThins, ThinnedElements DEF TypeOK
  <2>4. queue' \in [QueueName -> Seq(Fd)]
    <3> HIDE DEF e
    <3> QED BY <2>1, <2>2, MoveEsiType DEF TypeOK, QueueName
  <2>5. \A q \in QueueName \ {"blocked", "ready"} : queue'[q] = queue[q]
    BY <2>2 DEF MoveEsi, TypeOK, QueueName
  <2> QED BY <1>2, <1>3, <2>3, <2>4, <2>5
<1> QED BY <1>4, <1>5

-----------------------------------------------------------------------------


\* Nothing moves when the scheduler dies.
LEMMA CrashPreserves ==
  ASSUME TypeOK, Control, Crash
  PROVE  TypeOK' /\ Control'
BY DEF Crash, TypeOK, Locals, Control, ServingExecuting, Known, tables, keyVars, term, world

\* sock_my_port up to release_resources: the ESI leaves the queues and the call is set up.
LEMMA SockMyPortPreserves ==
  ASSUME TypeOK, Control, NEW e, NEW after \in {"opcode", "corpses", "again"},
         NEW i \in Nat \ {0}, SockMyPort(e, after, i),
         main.fin => main.pc = "corpses" /\ after = "corpses" /\ main.ctx = "result",
         after = "opcode" \/ (after = "corpses" /\ main.ctx = "result") => executing \in Fd
  PROVE  TypeOK' /\ Control'
<1>1. CASE Crash
  BY <1>1, CrashPreserves
<1>2. CASE ~Crash
  <2>1. e \in Fd /\ info[e] > 0
    BY <1>2 DEF SockMyPort, Known
  <2>2. /\ queue' = [q \in QueueName |-> RemoveFirst(queue[q], e)]
        /\ finished' = finished \cup
              {f \in {e} : \E q \in QueueName : f \in ToSet(queue[q])}
        /\ main' = [main EXCEPT !.pc = "release", !.esi = e, !.after = after,
                                !.snap = locked, !.i = i]
        /\ UNCHANGED <<alive, locked, expecting, info, flag, executing, keyVars,
                      req, term, world>>
    BY <1>2 DEF SockMyPort
  <2>3. queue' \in [QueueName -> Seq(Fd)]
    <3>1. \A q \in QueueName : RemoveFirst(queue[q], e) \in Seq(Fd)
      BY RemoveFirstThins, ThinnedElements DEF TypeOK, Locals
    <3> QED BY <2>2, <3>1
  <2>4. finished' \subseteq Fd
    BY <2>1, <2>2 DEF TypeOK, Locals
  <2>5. main' \in Locals
    BY <2>1, <2>2 DEF TypeOK, Locals, Label, AnyEsi
  <2>6. TypeOK'
    BY <2>2, <2>3, <2>4, <2>5 DEF TypeOK, Locals, keyVars, term, world
  <2>7. /\ main'.pc = "release" /\ main'.esi = e /\ main'.after = after
        /\ main'.fin = main.fin /\ main'.ctx = main.ctx
    BY <2>2 DEF TypeOK, Locals
  <2>8. Control'
    BY <2>1, <2>2, <2>7 DEF Control, ServingExecuting, Known, TypeOK, Locals
  <2> QED BY <2>6, <2>8
<1> QED BY <1>1, <1>2 DEF SockMyPort

\* A connection, with or without its handshake, keeps types and control.
LEMMA ArrivePreserves ==
  ASSUME TypeOK, Control, NEW e \in Fd, NEW c \in BOOLEAN, ArriveEsi(e, c)
  PROVE  TypeOK' /\ Control'
<1> USE DEF keyVars, term, world, tables
<1>1. queue' \in [QueueName -> Seq(Fd)]
  BY AppendProperties DEF ArriveEsi, TypeOK, Locals, QueueName
<1>2. info' \in [Fd -> Nat] /\ open' \subseteq Fd /\ arrivals' \in Nat
  BY DEF ArriveEsi, TypeOK, Locals
<1>3. flag' \in [FlagName -> BOOLEAN]
  BY DEF ArriveEsi, TypeOK, Locals, FlagName, Preemptive
<1>4. esi' \in [Fd \cup {Ghost} -> Process]
  BY DEF ArriveEsi, TypeOK, Locals, NoProcess, Process, Stage, AnyKey
<1>5. TypeOK'
  BY <1>1, <1>2, <1>3, <1>4 DEF ArriveEsi, TypeOK, Locals
<1>6. Control'
  BY DEF ArriveEsi, Control, ServingExecuting, TypeOK, Locals, Idle
<1> QED BY <1>5, <1>6

\* PROTOCOL_CP_IS_THIS_KEY_BLOCKED keeps types and control.
LEMMA SentencePreserves ==
  ASSUME TypeOK, Control, NEW e \in Fd, Sentence(e)
  PROVE  TypeOK' /\ Control'
<1> USE DEF keyVars, term, world, tables
<1>1. PICK op \in {"GET", "SET", "STORE"}, k \in Key : IsThisKeyBlocked(e, op, k)
  BY DEF Sentence
<1>2. CASE Crash
  BY <1>2, CrashPreserves
<1>3. CASE ~Crash
  <2>1. esi' \in [Fd \cup {Ghost} -> Process]
    <3>1. esi[e] \in Process /\ esi[e].orders > 0
      BY <1>1, <1>3 DEF IsThisKeyBlocked, TypeOK, Locals
    <3> DEFINE st == IF Locked(k) THEN "asking"
                     ELSE IF op = "GET" THEN "locking" ELSE "gone"
               r == [st     |-> st, op |-> op, key |-> k, retry |-> FALSE,
                     orders |-> esi[e].orders - 1,
                     line   |-> IF esi[e].retry THEN esi[e].line ELSE esi[e].line + 1]
    <3>2. esi' = [esi EXCEPT ![e] = r]
      BY <1>1, <1>3 DEF IsThisKeyBlocked
    <3>3. r \in Process
      <4>1. st \in Stage
        BY DEF Stage, InFlight
      <4> HIDE DEF st
      <4> QED BY <3>1, <4>1 DEF Process, AnyKey
    <3> HIDE DEF r
    <3> QED BY <3>2, <3>3 DEF TypeOK, Locals
  <2>2. TypeOK'
    BY <1>1, <1>3, <2>1 DEF IsThisKeyBlocked, TypeOK, Locals, AnyKey
  <2>3. Control'
    BY <1>1, <1>3 DEF IsThisKeyBlocked, CoordinatorMessage, Control, ServingExecuting, TypeOK, Locals, Idle
  <2> QED BY <2>2, <2>3
<1> QED BY <1>2, <1>3

\* A sentence that moves on is still a sentence.
LEMMA AdvanceType ==
  ASSUME TypeOK, NEW s \in Fd \cup {Ghost}, NEW st \in Stage, Advance(s, st)
  PROVE  esi' \in [Fd \cup {Ghost} -> Process]
<1>1. PICK x \in Stage : esi' = [esi EXCEPT ![s].st = x]
  BY DEF Advance, Stage
<1>2. esi[s] \in Process
  BY DEF TypeOK
<1>3. [esi[s] EXCEPT !.st = x] \in Process
  BY <1>2 DEF Process
<1> QED BY <1>1, <1>3 DEF TypeOK

\* The other messages of the coordinator keep types and control.
LEMMA ConversationPreserves ==
  ASSUME TypeOK, Control, NEW s \in Fd \cup {Ghost}, Conversation(s)
  PROVE  TypeOK' /\ Control'
<1> USE DEF keyVars, term, world, tables
<1>1. CASE Crash
  BY <1>1, CrashPreserves
<1>2. CASE IsKeyBlockedByExecutingEsi(s) /\ ~Crash
  <2>1. esi' \in [Fd \cup {Ghost} -> Process]
    BY AdvanceType, <1>2 DEF IsKeyBlockedByExecutingEsi, Stage, InFlight
  <2> QED BY <1>2, <2>1 DEF IsKeyBlockedByExecutingEsi, CoordinatorMessage, Control, ServingExecuting, TypeOK, Locals, Idle, AnyKey
<1>3. CASE BlockKey(s) /\ ~Crash
  <2>1. esi' \in [Fd \cup {Ghost} -> Process]
    BY AdvanceType, <1>3 DEF BlockKey, Stage, InFlight
  <2>2. locked' \in Seq(Claim)
    <3>1. Head(queue["execution"]) \in Fd
      BY <1>3, HeadTailProperties DEF BlockKey, TypeOK, Locals, QueueName
    <3> DEFINE c == [esi |-> Head(queue["execution"]), key |-> lastKey]
    <3>2. c \in Claim
      BY <3>1 DEF Claim, AnyEsi, TypeOK, Locals
    <3>3. locked' = Append(locked, c)
      BY <1>3 DEF BlockKey
    <3> HIDE DEF c
    <3> QED BY <3>2, <3>3, AppendProperties DEF TypeOK, Locals
  <2> QED BY <1>3, <2>1, <2>2 DEF BlockKey, CoordinatorMessage, Control, ServingExecuting, TypeOK, Locals, Idle, AnyKey
<1>4. CASE UnlockKey(s) /\ ~Crash
  <2>1. esi' \in [Fd \cup {Ghost} -> Process]
    BY AdvanceType, <1>4 DEF UnlockKey, Stage, InFlight
  <2>2. flag' \in [FlagName -> BOOLEAN]
    BY <1>4 DEF UnlockKey, TypeOK, Locals, FlagName
  <2>3. keyToUnlock' \in AnyKey
    <3>1. esi[s] \in Process
      BY DEF TypeOK, Locals
    <3> QED BY <1>4, <3>1 DEF UnlockKey, Process
  <2> QED BY <1>4, <2>1, <2>2, <2>3 DEF UnlockKey, CoordinatorMessage, Control, ServingExecuting, TypeOK, Locals, Idle
<1>5. CASE InstanceAnswers(s)
  <2>1. esi' \in [Fd \cup {Ghost} -> Process]
    BY AdvanceType, <1>5 DEF InstanceAnswers, Stage, InFlight
  <2> QED BY <1>5, <2>1 DEF InstanceAnswers, Control, ServingExecuting, TypeOK, Locals, Known
<1> QED BY <1>1, <1>2, <1>3, <1>4, <1>5 DEF Conversation

-----------------------------------------------------------------------------
(* The steps of the main thread *)

\* A step that only changes main.pc, .i and .snap while no script has just
\* finished keeps Control, whatever it does to the lists.
LEMMA FlagMove ==
  ASSUME TypeOK, Control,
         main.pc \in {"update", "unlock", "unlocking", "news", "block", "filter",
                      "blocking", "leftover", "preempt"},
         main' = [main EXCEPT !.pc = main'.pc, !.i = main'.i, !.snap = main'.snap],
         main'.pc \in {"update", "unlock", "unlocking", "news", "block", "filter",
                       "blocking", "leftover", "preempt", "dispatch"},
         executing' = executing
  PROVE  Control'
<1>1. /\ main'.fin = main.fin /\ main'.ctx = main.ctx /\ main'.esi = main.esi
  BY DEF TypeOK, Locals
<1> QED BY <1>1 DEF Control, ServingExecuting

\* The locals keep their type when main() moves, restarts a loop or takes a list.
LEMMA MainUpdates ==
  ASSUME main \in Locals, NEW p \in Label, NEW n \in Nat \ {0}, NEW s \in Seq(Claim)
  PROVE  /\ [main EXCEPT !.pc = p] \in Locals
         /\ [main EXCEPT !.pc = p, !.i = n] \in Locals
         /\ [main EXCEPT !.i = n] \in Locals
         /\ [main EXCEPT !.snap = s] \in Locals
         /\ [main EXCEPT !.pc = p, !.snap = s] \in Locals
         /\ [main EXCEPT !.pc = p, !.snap = s, !.i = n] \in Locals
BY DEF Locals

\* The locals keep their type when main() moves and sets its loop index.
LEMMA MainMoves ==
  ASSUME main \in Locals, NEW p \in Label
  PROVE  /\ [main EXCEPT !.pc = p] \in Locals
         /\ [main EXCEPT !.pc = p, !.i = 1] \in Locals
         /\ [main EXCEPT !.i = main.i + 1] \in Locals
         /\ [main EXCEPT !.pc = p, !.snap = <<>>, !.i = 1] \in Locals
<1>1. 1 \in Nat \ {0} /\ main.i + 1 \in Nat \ {0} /\ <<>> \in Seq(Claim)
  BY EmptySeq DEF Locals
<1> QED BY <1>1, MainUpdates

\* The locals keep their type when main() moves and takes a list.
LEMMA MainTakes ==
  ASSUME main \in Locals, NEW p \in Label, NEW s \in Seq(Claim)
  PROVE  /\ [main EXCEPT !.snap = s] \in Locals
         /\ [main EXCEPT !.pc = p, !.snap = s] \in Locals
<1>1. 1 \in Nat \ {0}
  OBVIOUS
<1> QED BY <1>1, MainUpdates

\* The answer or the end of file of the executing ESI keeps types and control.
LEMMA EsiEventsPreserve ==
  ASSUME TypeOK, Control, EsiEvents
  PROVE  TypeOK' /\ Control'
<1> USE DEF keyVars, term, world, tables
<1>1. ASSUME NEW finish \in BOOLEAN, ExecutionSuccess(finish)
      PROVE  TypeOK' /\ Control'
  <2>1. executing \in Fd
    BY <1>1 DEF ExecutionSuccess, FromExecutingEsi, TypeOK, Locals
  <2>2. esi' \in [Fd \cup {Ghost} -> Process]
    <3>1. esi[executing] \in Process
      BY <2>1 DEF TypeOK, Locals
    <3>2. PICK st \in Stage : esi' = [esi EXCEPT ![executing].st = st]
      BY <1>1 DEF ExecutionSuccess, Stage
    <3>3. [esi[executing] EXCEPT !.st = st] \in Process
      BY <3>1 DEF Process
    <3> QED BY <3>2, <3>3 DEF TypeOK, Locals
  <2>3. flag' \in [FlagName -> BOOLEAN]
    BY <1>1 DEF ExecutionSuccess, WhenOthersReady, TypeOK, Locals, FlagName
  <2>4. main' \in Locals
    BY <1>1 DEF ExecutionSuccess, TypeOK, Locals, Label
  <2>5. TypeOK'
    BY <1>1, <2>2, <2>3, <2>4 DEF ExecutionSuccess, TypeOK, Locals
  <2>6. main'.pc = "burn" /\ main'.ctx = "result" /\ executing' = executing
    BY <1>1 DEF ExecutionSuccess, TypeOK, Locals
  <2>7. Control'
    BY <2>1, <2>6 DEF Control, ServingExecuting
  <2> QED BY <2>5, <2>7
<1>2. CASE IAmBlocked
  <2>0. CASE Crash
    BY <2>0, CrashPreserves
  <2> SUFFICES ASSUME ~Crash PROVE TypeOK' /\ Control'
    BY <2>0
  <2>1. executing \in Fd
    BY <1>2 DEF IAmBlocked, FromExecutingEsi, TypeOK, Locals
  <2>2. esi' \in [Fd \cup {Ghost} -> Process]
    <3>1. esi[executing] \in Process
      BY <2>1 DEF TypeOK, Locals
    <3>2. esi' = [esi EXCEPT ![executing] = [esi[executing] EXCEPT !.st = "idle", !.retry = TRUE]]
      BY <1>2, <2>1 DEF IAmBlocked, TypeOK, Locals
    <3>3. [esi[executing] EXCEPT !.st = "idle", !.retry = TRUE] \in Process
      BY <3>1 DEF Process, Stage
    <3> QED BY <3>2, <3>3 DEF TypeOK, Locals
  <2>3. flag' \in [FlagName -> BOOLEAN]
    <3>1. flag' = WhenOthersReady(flag)
      BY <1>2 DEF IAmBlocked
    <3> QED BY <3>1 DEF WhenOthersReady, TypeOK, Locals, FlagName
  <2>4. main' \in Locals
    BY <1>2, ZenonT(60) DEF IAmBlocked, TypeOK, Locals, Label
  <2>5. queue' \in [QueueName -> Seq(Fd)]
    BY <1>2, <2>1, MoveEsiType DEF IAmBlocked, TypeOK, Locals, QueueName
  <2>6. expecting' \in Seq(Claim)
    <3> DEFINE c == [esi |-> executing, key |-> lastKey]
    <3>1. c \in Claim
      BY <2>1 DEF Claim, AnyEsi, TypeOK, Locals
    <3>2. expecting' = Append(expecting, c)
      BY <1>2 DEF IAmBlocked
    <3> HIDE DEF c
    <3> QED BY <3>1, <3>2, AppendProperties DEF TypeOK, Locals
  <2>7. TypeOK'
    BY <1>2, <2>2, <2>3, <2>4, <2>5, <2>6 DEF IAmBlocked, TypeOK, Locals, AnyKey
  <2>8. main'.pc = "burn" /\ main'.ctx = "result" /\ executing' = executing
    BY <1>2 DEF IAmBlocked, TypeOK, Locals
  <2>9. Control'
    BY <2>1, <2>8 DEF Control, ServingExecuting
  <2> QED BY <2>7, <2>9
<1>3. CASE ExecutionFailure
  <2>1. executing \in Fd /\ ~main.fin
    BY <1>3 DEF ExecutionFailure, FromExecutingEsi, TypeOK, Locals, Control, Idle
  <2> QED BY <1>3, <2>1, SockMyPortPreserves DEF ExecutionFailure
<1> QED BY <1>1, <1>2, <1>3 DEF EsiEvents

\* release_resources and the opcode read after it keep types and control.
LEMMA ReleasePreserves ==
  ASSUME TypeOK, Control, UninitialisedOpcode \/ ReleaseKey \/ ReleaseEnd
  PROVE  TypeOK' /\ Control'
<1> USE DEF keyVars, term, world, tables
<1>0. CASE Crash
  BY <1>0, CrashPreserves
<1> SUFFICES ASSUME ~Crash PROVE TypeOK' /\ Control'
  BY <1>0
<1>1. CASE UninitialisedOpcode
  <2>1. main' \in Locals
    BY <1>1 DEF UninitialisedOpcode, TypeOK, Locals, Label
  <2>2. TypeOK'
    BY <1>1, <2>1 DEF UninitialisedOpcode, TypeOK, Locals
  <2>3. main'.pc = "burn" /\ main'.ctx = "result" /\ executing' = executing
    BY <1>1 DEF UninitialisedOpcode, TypeOK, Locals
  <2>4. executing \in Fd
    BY <1>1 DEF UninitialisedOpcode, Control, ServingExecuting
  <2> QED BY <2>2, <2>3, <2>4 DEF Control, ServingExecuting
<1>2. CASE ReleaseKey
  <2>1. PICK i \in DOMAIN main.snap :
            /\ ~WakesStranger(main.snap[i].key)
            /\ UpdateBlockedEsiQueue(main.snap[i].key, "update", TRUE)
            /\ main' = [main EXCEPT !.snap = SubSeq(main.snap, i + 1, Len(main.snap))]
            /\ UNCHANGED <<alive, finished, info, executing, keyVars, req, term, world>>
    BY <1>2 DEF ReleaseKey
  <2>2. SubSeq(main.snap, i + 1, Len(main.snap)) \in Seq(Claim)
    <3>1. main.snap \in Seq(Claim)
      BY DEF TypeOK, Locals
    <3>2. \A j \in (i + 1)..Len(main.snap) : main.snap[j] \in Claim
      BY <2>1, <3>1
    <3> QED BY <2>1, <3>1, <3>2, SubSeqProperties
  <2>3. TypeOK'
    BY <2>1, <2>2, UpdateType, MainTakes DEF TypeOK, Label
  <2>4. /\ main'.pc = "release" /\ main'.esi = main.esi /\ main'.after = main.after
        /\ main'.fin = main.fin /\ main'.ctx = main.ctx
    BY <1>2, <2>1 DEF ReleaseKey, TypeOK, Locals
  <2>5. main.pc = "release" /\ info' = info /\ executing' = executing
    BY <1>2, <2>1 DEF ReleaseKey
  <2> QED BY <2>3, <2>4, <2>5 DEF Control, ServingExecuting, Known
<1>3. CASE ReleaseEnd
  <2>1. main.esi \in Fd /\ info[main.esi] > 0
    BY <1>3 DEF ReleaseEnd, Control, Known
  <2>2. expecting' \in Seq(Claim) /\ locked' \in Seq(Claim)
    BY <1>3, ForgetEsiThins, ThinnedElements DEF ReleaseEnd, TypeOK, Locals
  <2>3. info' \in [Fd -> Nat]
    BY <1>3, <2>1 DEF ReleaseEnd, TypeOK, Locals
  <2>4. esi' \in [Fd \cup {Ghost} -> Process]
    <3>1. NoProcess \in Process
      BY DEF NoProcess, Process, Stage, AnyKey
    <3> QED BY <1>3, <2>1, <3>1 DEF ReleaseEnd, Orphan, TypeOK, Locals
  <2>5. main' \in Locals
    BY <1>3, EmptySeq DEF ReleaseEnd, TypeOK, Locals
  <2>6. TypeOK'
    BY <1>3, <2>2, <2>3, <2>4, <2>5 DEF ReleaseEnd, TypeOK, Locals
  <2>7. /\ main'.pc = main.after /\ main'.fin = main.fin /\ main'.ctx = main.ctx
        /\ main.pc = "release" /\ executing' = executing
    BY <1>3 DEF ReleaseEnd, TypeOK, Locals
  <2> QED BY <2>6, <2>7 DEF Control, ServingExecuting
<1> QED BY <1>1, <1>2, <1>3

\* burn_esi_corpses and the end of a script keep types and control.
LEMMA BurnPreserves ==
  ASSUME TypeOK, Control,
         Burn \/ Corpse \/ CorpsesBurnt \/ FinishEsi \/ EsiFinished \/ Drain
  PROVE  TypeOK' /\ Control'
<1> USE DEF keyVars, term, world, tables
<1>0. CASE Crash
  BY <1>0, CrashPreserves
<1> SUFFICES ASSUME ~Crash PROVE TypeOK' /\ Control'
  BY <1>0
<1>1. CASE Burn
  <2>1. req' \in [killed : Seq(Fd), block : Seq(Claim), unlock : Seq(Key)]
    <3>1. RemoveFirst(req.killed, executing) \in Seq(Fd)
      BY RemoveFirstThins, ThinnedElements DEF TypeOK, Locals
    <3> QED BY <1>1, <3>1 DEF Burn, TypeOK, Locals
  <2>2. /\ main' \in Locals
        /\ main'.fin = main.fin /\ main'.ctx = main.ctx
        /\ main'.pc \in {"corpses", "drain"}
    <3>1. \/ main' = [main EXCEPT !.pc = "corpses", !.i = 1]
          \/ main' = [main EXCEPT !.pc = "drain"]
      BY <1>1 DEF Burn, Goto
    <3>2. main' \in Locals
      BY <3>1, MainMoves DEF TypeOK, Label
    <3> QED BY <3>1, <3>2 DEF TypeOK, Locals
  <2>3. TypeOK'
    BY <1>1, <2>1, <2>2 DEF Burn, TypeOK, Locals
  <2>4. main.pc = "burn" /\ executing' = executing
    BY <1>1 DEF Burn
  <2> QED BY <2>2, <2>3, <2>4 DEF Control, ServingExecuting
<1>2. CASE Corpse
  <2>1. main.i + 1 \in Nat \ {0}
    BY DEF TypeOK, Locals
  <2>2. /\ main.fin => main.pc = "corpses" /\ main.ctx = "result"
        /\ main.ctx = "result" => executing \in Fd
    BY <1>2 DEF Corpse, Control, ServingExecuting
  <2> QED BY <1>2, <2>1, <2>2, SockMyPortPreserves DEF Corpse
<1>3. CASE CorpsesBurnt
  <2>1. req' \in [killed : Seq(Fd), block : Seq(Claim), unlock : Seq(Key)]
    BY <1>3, EmptySeq DEF CorpsesBurnt, TypeOK, Locals
  <2>2. flag' \in [FlagName -> BOOLEAN]
    BY <1>3 DEF CorpsesBurnt, TypeOK, Locals, FlagName
  <2>3. /\ main' \in Locals
        /\ main'.fin = main.fin /\ main'.ctx = main.ctx /\ main'.pc = "drain"
    BY <1>3 DEF CorpsesBurnt, Goto, TypeOK, Locals, Label
  <2>4. TypeOK'
    BY <1>3, <2>1, <2>2, <2>3 DEF CorpsesBurnt, TypeOK, Locals
  <2>5. main.pc = "corpses" /\ executing' = executing
    BY <1>3 DEF CorpsesBurnt
  <2> QED BY <2>3, <2>4, <2>5 DEF Control, ServingExecuting
<1>4. CASE FinishEsi
  <2>1. Known(executing) /\ executing \in Fd
    BY <1>4 DEF FinishEsi, Known
  <2>2. /\ main' \in Locals
        /\ main'.fin = main.fin /\ main'.ctx = main.ctx /\ main'.pc = "release"
        /\ main'.esi = executing /\ main'.after = "finish"
    BY <1>4, <2>1, ZenonT(60) DEF FinishEsi, TypeOK, Locals, Label, AnyEsi
  <2>3. TypeOK'
    BY <1>4, <2>2, ZenonT(60) DEF FinishEsi, TypeOK, Locals, AnyKey
  <2>4. main.pc = "drain" /\ main.fin /\ UNCHANGED <<executing, info, queue>>
    BY <1>4 DEF FinishEsi
  <2> QED BY <2>1, <2>2, <2>3, <2>4 DEF Control, ServingExecuting, Known
<1>5. CASE EsiFinished
  <2>1. executing \in Fd
    BY <1>5 DEF EsiFinished, Control, ServingExecuting
  <2>2. queue' \in [QueueName -> Seq(Fd)]
    <3>1. RemoveFirst(queue["execution"], executing) \in Seq(Fd)
      BY RemoveFirstThins, ThinnedElements DEF TypeOK, Locals, QueueName
    <3> QED BY <1>5, <3>1 DEF EsiFinished, TypeOK, Locals
  <2>3. /\ main' \in Locals
        /\ main'.fin = FALSE /\ main'.pc = "dispatch"
    BY <1>5 DEF EsiFinished, TypeOK, Locals, Label
  <2>4. TypeOK'
    BY <1>5, <2>1, <2>2, <2>3 DEF EsiFinished, TypeOK, Locals, AnyEsi
  <2> QED BY <2>3, <2>4 DEF Control, ServingExecuting
<1>6. CASE Drain
  <2>1. /\ main' \in Locals
        /\ main'.fin = main.fin /\ main'.ctx = main.ctx
        /\ main'.pc \in {"update", "dispatch"}
    BY <1>6 DEF Drain, Goto, TypeOK, Locals, Label
  <2>2. TypeOK'
    BY <1>6, <2>1 DEF Drain, TypeOK, Locals
  <2>3. main.pc = "drain" /\ ~main.fin /\ executing' = executing
    BY <1>6 DEF Drain
  <2> QED BY <2>1, <2>2, <2>3 DEF Control, ServingExecuting
<1> QED BY <1>1, <1>2, <1>3, <1>4, <1>5, <1>6

\* The flags main() serves between two sentences.
FlagSteps ==
    \/ ServeUpdate \/ ServeUnlocks \/ ReleaseByConsole \/ UnlocksServed \/ ServeNews
    \/ BlockExecuting \/ FilterReady \/ BlockReady \/ ReadyBlocked
    \/ BlockForSystem \/ BlocksServed \/ Preempt

\* Serving the flags leads from one flag to the next, and keeps executing_esi.
LEMMA FlagStepsControl ==
  ASSUME TypeOK, Control, FlagSteps
  PROVE  Control'
<1> USE DEF keyVars, term, world, tables, Goto
<1>1. CASE Crash
  BY <1>1, CrashPreserves
<1>2. CASE ~Crash
  <2>1. /\ main.pc \in {"update", "unlock", "unlocking", "news", "block", "filter",
                        "blocking", "leftover", "preempt"}
        /\ main' = [main EXCEPT !.pc = main'.pc, !.i = main'.i, !.snap = main'.snap]
        /\ main'.pc \in {"update", "unlock", "unlocking", "news", "block", "filter",
                         "blocking", "leftover", "preempt", "dispatch"}
        /\ executing' = executing
    <3> USE DEF TypeOK, Locals
    <3>1. CASE ServeUpdate       BY <1>2, <3>1 DEF ServeUpdate
    <3>2. CASE ServeUnlocks      BY <1>2, <3>2 DEF ServeUnlocks
    <3>3. CASE ReleaseByConsole  BY <1>2, <3>3 DEF ReleaseByConsole
    <3>4. CASE UnlocksServed     BY <1>2, <3>4 DEF UnlocksServed
    <3>5. CASE ServeNews         BY <1>2, <3>5 DEF ServeNews
    <3>6. CASE BlockExecuting    BY <1>2, <3>6 DEF BlockExecuting
    <3>7. CASE FilterReady       BY <1>2, <3>7 DEF FilterReady
    <3>8. CASE BlockReady        BY <1>2, <3>8 DEF BlockReady
    <3>9. CASE ReadyBlocked      BY <1>2, <3>9 DEF ReadyBlocked
    <3>10. CASE BlockForSystem   BY <1>2, <3>10 DEF BlockForSystem
    <3>11. CASE BlocksServed     BY <1>2, <3>11 DEF BlocksServed
    <3>12. CASE Preempt          BY <1>2, <3>12 DEF Preempt
    <3> QED BY <3>1, <3>2, <3>3, <3>4, <3>5, <3>6, <3>7, <3>8, <3>9, <3>10, <3>11,
               <3>12 DEF FlagSteps
  <2> QED BY <2>1, FlagMove
<1> QED BY <1>1, <1>2

\* Blocking an ESI at the console keeps the tables well typed.
LEMMA BlockEsiType ==
  ASSUME TypeOK, NEW w \in Claim, w.esi \in Fd, NEW from \in {"execution", "ready"},
         BlockEsi(w, from)
  PROVE  /\ queue' \in [QueueName -> Seq(Fd)]
         /\ expecting' \in Seq(Claim)
         /\ locked' \in Seq(Claim)
<1>1. CASE Locked(w.key)
  <2>1. /\ expecting' = Append(expecting, w) /\ queue' = MoveEsi(from, "blocked", w.esi)
        /\ locked' = locked
    BY <1>1 DEF BlockEsi
  <2> QED BY <2>1, AppendProperties, MoveEsiType DEF TypeOK, Locals, QueueName
<1>2. CASE ~Locked(w.key)
  <2>1. locked' = Append(locked, w) /\ queue' = queue /\ expecting' = expecting
    BY <1>2 DEF BlockEsi
  <2> QED BY <2>1, AppendProperties DEF TypeOK, Locals
<1> QED BY <1>1, <1>2

\* Dropping a request of the console keeps the three lists well typed.
LEMMA ForgetRequestType ==
  ASSUME TypeOK, NEW e
  PROVE  ForgetRequest(e) \in [killed : Seq(Fd), block : Seq(Claim), unlock : Seq(Key)]
<1>1. ForgetEsi(req.block, e) \in Seq(Claim)
  BY ForgetEsiThins, ThinnedElements DEF TypeOK, Locals
<1> QED BY <1>1 DEF ForgetRequest, TypeOK, Locals

\* Serving the flags keeps the tables well typed.
LEMMA FlagStepsType ==
  ASSUME TypeOK, Control, FlagSteps
  PROVE  TypeOK'
<1> USE DEF keyVars, term, world, tables, Goto
<1>0. CASE Crash
  BY <1>0, CrashPreserves
<1> SUFFICES ASSUME ~Crash PROVE TypeOK'
  BY <1>0
<1>1. CASE ServeUpdate
  <2>1. main' \in Locals
    BY <1>1, ZenonT(60) DEF ServeUpdate, TypeOK, Locals, Label
  <2>2. CASE ~flag.update
    BY <1>1, <2>1, <2>2 DEF ServeUpdate, TypeOK, Locals
  <2>3. CASE flag.update
    <3>1. UpdateBlockedEsiQueue(keyToUnlock, "update", TRUE) /\ ~WakesStranger(keyToUnlock)
      BY <1>1, <2>3 DEF ServeUpdate
    <3> QED BY <1>1, <2>1, <2>3, <3>1, UpdateType DEF ServeUpdate, TypeOK, Locals, AnyKey
  <2> QED BY <2>2, <2>3
<1>2. CASE ServeUnlocks
  <2>1. main' \in Locals
    <3>1. main' = [main EXCEPT !.pc = "unlocking", !.i = 1]
          \/ main' = [main EXCEPT !.pc = "news", !.i = 1]
      BY <1>2 DEF ServeUnlocks
    <3> QED BY <3>1, MainMoves DEF TypeOK, Label
  <2> QED BY <1>2, <2>1 DEF ServeUnlocks, TypeOK, Locals
<1>3. CASE ReleaseByConsole
  <2>1. main' \in Locals
    BY <1>3, MainMoves DEF ReleaseByConsole, TypeOK, Label
  <2>2. /\ ~WakesStranger(req.unlock[main.i])
        /\ UpdateBlockedEsiQueue(req.unlock[main.i], "unlock", FALSE)
        /\ UNCHANGED <<alive, finished, info, executing, keyVars, req, term, world>>
    BY <1>3 DEF ReleaseByConsole
  <2> QED BY <2>1, <2>2, UpdateType DEF TypeOK, Locals
<1>4. CASE UnlocksServed
  <2>1. main' \in Locals
    BY <1>4 DEF UnlocksServed, TypeOK, Locals, Label
  <2>2. req' \in [killed : Seq(Fd), block : Seq(Claim), unlock : Seq(Key)]
    BY <1>4, EmptySeq DEF UnlocksServed, TypeOK, Locals
  <2> QED BY <1>4, <2>1, <2>2 DEF UnlocksServed, TypeOK, Locals
<1>5. CASE ServeNews
  <2>1. main' \in Locals
    BY <1>5 DEF ServeNews, TypeOK, Locals, Label
  <2>2. queue' \in [QueueName -> Seq(Fd)]
    <3>1. queue["ready"] \o queue["new"] \in Seq(Fd)
      BY ConcatProperties DEF TypeOK, Locals, QueueName
    <3>2. \/ queue' = queue
          \/ queue' = [queue EXCEPT !["ready"] = queue["ready"] \o queue["new"],
                                    !["new"] = <<>>]
      BY <1>5 DEF ServeNews
    <3>3. <<>> \in Seq(Fd) /\ "ready" # "new"
      BY EmptySeq
    <3> QED BY <3>1, <3>2, <3>3 DEF TypeOK
  <2>3. flag' \in [FlagName -> BOOLEAN]
    <3>1. \/ flag' = flag
          \/ flag' = [flag EXCEPT !.new = FALSE, !.reschedule = @ \/ Preemptive]
      BY <1>5 DEF ServeNews
    <3> QED BY <3>1, ZenonT(60) DEF TypeOK, Locals, FlagName, Preemptive
  <2> QED BY <1>5, <2>1, <2>2, <2>3 DEF ServeNews, TypeOK, Locals
<1>6. CASE BlockExecuting
  <2> DEFINE n == RequestOf(Head(queue["execution"]))
  <2>1. main' \in Locals
    BY <1>6 DEF BlockExecuting, TypeOK, Locals, Label
  <2>2. \/ UNCHANGED <<queue, locked, expecting, req>>
        \/ /\ queue["execution"] # <<>> /\ n # 0
           /\ BlockEsi(req.block[n], "execution")
           /\ req' = ForgetRequest(Head(queue["execution"]))
    BY <1>6 DEF BlockExecuting
  <2>3. CASE UNCHANGED <<queue, locked, expecting, req>>
    BY <1>6, <2>1, <2>3 DEF BlockExecuting, TypeOK, Locals
  <2>4. CASE ~UNCHANGED <<queue, locked, expecting, req>>
    <3>1. Head(queue["execution"]) \in Fd
      BY <2>2, <2>4, HeadTailProperties DEF TypeOK, Locals, QueueName
    <3>2. req.block[n] \in Claim /\ req.block[n].esi \in Fd
      BY <2>2, <2>4, <3>1, FirstOfEsiIndex DEF TypeOK, Locals, RequestOf
    <3>3. /\ BlockEsi(req.block[n], "execution")
          /\ req' = ForgetRequest(Head(queue["execution"]))
      BY <2>2, <2>4
    <3>4. req' \in [killed : Seq(Fd), block : Seq(Claim), unlock : Seq(Key)]
      BY <3>3, ForgetRequestType
    <3>5. /\ queue' \in [QueueName -> Seq(Fd)]
          /\ expecting' \in Seq(Claim) /\ locked' \in Seq(Claim)
      <4> HIDE DEF n
      <4> QED BY <3>2, <3>3, BlockEsiType
    <3> HIDE DEF n
    <3> QED BY <1>6, <2>1, <3>4, <3>5 DEF BlockExecuting, TypeOK
  <2> QED BY <2>3, <2>4
<1>7. CASE FilterReady
  <2> DEFINE b == req.block
             d(i) == [b[i] EXCEPT !.esi =
                         IF b[i].esi \in ToSet(queue["ready"]) THEN b[i].esi ELSE NoEsi]
  <2>1. [i \in 1..Len(b) |-> d(i)] \in Seq(Claim)
    <3>1. Len(b) \in Nat /\ DOMAIN b = 1..Len(b) /\ b \in Seq(Claim)
      BY LenProperties DEF TypeOK, Locals
    <3>2. \A i \in 1..Len(b) : d(i) \in Claim
      <4>1. \A i \in 1..Len(b) : b[i] \in Claim
        BY <3>1
      <4> QED BY <4>1 DEF Claim, AnyEsi
    <3> HIDE DEF d, b
    <3> QED BY <3>1, <3>2, IsASeq
  <2>2. main' = [main EXCEPT !.pc = "blocking", !.snap = [i \in DOMAIN b |-> d(i)]]
    BY <1>7 DEF FilterReady
  <2>3. DOMAIN b = 1..Len(b)
    BY LenProperties DEF TypeOK, Locals
  <2>4. main' \in Locals
    <3> HIDE DEF d, b
    <3> QED BY <2>1, <2>2, <2>3, MainTakes DEF TypeOK, Label
  <2> QED BY <1>7, <2>4 DEF FilterReady, TypeOK, Locals
<1>8. CASE BlockReady
  <2>1. PICK i \in DOMAIN main.snap :
            /\ main.snap[i].esi # NoEsi
            /\ BlockEsi(main.snap[i], "ready")
            /\ req' = ForgetRequest(main.snap[i].esi)
            /\ main' = [main EXCEPT !.snap = SubSeq(main.snap, i + 1, Len(main.snap))]
    BY <1>8 DEF BlockReady
  <2>2. main.snap \in Seq(Claim) /\ i \in 1..Len(main.snap) /\ Len(main.snap) \in Nat
    BY <2>1, LenProperties DEF TypeOK, Locals
  <2>3. main.snap[i] \in Claim /\ main.snap[i].esi \in Fd
    <3>1. main.snap[i] \in Claim
      BY <2>2
    <3> QED BY <2>1, <3>1 DEF Claim, AnyEsi
  <2>4. SubSeq(main.snap, i + 1, Len(main.snap)) \in Seq(Claim)
    <3>1. \A j \in (i + 1)..Len(main.snap) : main.snap[j] \in Claim
      BY <2>2
    <3> QED BY <2>2, <3>1, SubSeqProperties
  <2>5. main' \in Locals
    BY <2>1, <2>4, MainTakes DEF TypeOK, Label
  <2> QED BY <1>8, <2>1, <2>3, <2>5, BlockEsiType, ForgetRequestType DEF BlockReady, TypeOK, Locals
<1>9. CASE ReadyBlocked
  <2>1. main' \in Locals
    BY <1>9, MainMoves DEF ReadyBlocked, TypeOK, Label
  <2> QED BY <1>9, <2>1 DEF ReadyBlocked, TypeOK, Locals
<1>10. CASE BlockForSystem
  <2>1. main' \in Locals
    BY <1>10, MainMoves DEF BlockForSystem, TypeOK, Label
  <2>2. locked' \in Seq(Claim)
    <3> DEFINE w == req.block[main.i]
               c == [w EXCEPT !.esi = NoEsi]
    <3>1. main.i \in 1..Len(req.block) /\ req.block \in Seq(Claim)
      BY <1>10 DEF BlockForSystem, TypeOK, Locals
    <3>2. c \in Claim
      <4>1. w \in Claim
        BY <3>1
      <4> QED BY <4>1 DEF Claim, AnyEsi
    <3>3. locked' = locked \/ locked' = Append(locked, c)
      BY <1>10, Zenon DEF BlockForSystem
    <3> HIDE DEF c
    <3>4. locked \in Seq(Claim)
      BY DEF TypeOK
    <3>5. Append(locked, c) \in Seq(Claim)
      BY <3>2, <3>4, AppendProperties
    <3> QED BY <3>3, <3>4, <3>5
  <2> QED BY <1>10, <2>1, <2>2 DEF BlockForSystem, TypeOK, Locals
<1>11. CASE BlocksServed
  <2>1. main' \in Locals
    BY <1>11 DEF BlocksServed, TypeOK, Locals, Label
  <2>2. req' \in [killed : Seq(Fd), block : Seq(Claim), unlock : Seq(Key)]
    BY <1>11, EmptySeq DEF BlocksServed, TypeOK, Locals
  <2>3. flag' \in [FlagName -> BOOLEAN]
    BY <1>11 DEF BlocksServed, TypeOK, Locals, FlagName
  <2> QED BY <1>11, <2>1, <2>2, <2>3 DEF BlocksServed, TypeOK, Locals
<1>12. CASE Preempt
  <2>1. main' \in Locals
    BY <1>12 DEF Preempt, TypeOK, Locals, Label
  <2>2. queue' \in [QueueName -> Seq(Fd)]
    <3>1. main.ctx = "result" => executing \in Fd
      BY <1>12 DEF Preempt, Control, ServingExecuting
    <3>2. \/ queue' = queue
          \/ main.ctx = "result" /\ queue' = MoveEsi("execution", "ready", executing)
      BY <1>12 DEF Preempt
    <3> QED BY <3>1, <3>2, MoveEsiType DEF TypeOK, Locals, QueueName
  <2> QED BY <1>12, <2>1, <2>2 DEF Preempt, TypeOK, Locals
<1> QED BY <1>1, <1>2, <1>3, <1>4, <1>5, <1>6, <1>7, <1>8, <1>9, <1>10, <1>11, <1>12
        DEF FlagSteps

\* The locals select() starts from are well typed.
LEMMA IdleType == Idle \in Locals /\ [Idle EXCEPT !.pc = "burn"] \in Locals
<1>1. Idle \in Locals
  BY EmptySeq DEF Idle, Locals, Label, AnyEsi
<1> HIDE DEF Idle
<1> QED BY <1>1 DEF Locals, Label

\* Choosing and authorizing the next ESI.
DispatchSteps == Reschedule \/ ContinueExecuting \/ AuthorizeEsiExecution

\* schedule_esis returns an ESI of the ready queue.
LEMMA EligibleAreEsis ==
  ASSUME TypeOK, queue["ready"] # <<>>
  PROVE  Eligible \subseteq Fd
<1>1. queue["ready"] \in Seq(Fd)
  BY DEF TypeOK, QueueName
<1>2. Head(queue["ready"]) \in Fd
  BY <1>1, HeadTailProperties
<1>3. ToSet(queue["ready"]) \subseteq Fd
  BY <1>1, ElementOfSeq, LenProperties DEF ToSet
<1> QED BY <1>2, <1>3 DEF Eligible

\* reschedule and authorize_esi_execution keep types and control.
LEMMA DispatchPreserves ==
  ASSUME TypeOK, Control, DispatchSteps
  PROVE  TypeOK' /\ Control'
<1> USE DEF keyVars, term, world, tables
<1>0. CASE Crash
  BY <1>0, CrashPreserves
<1> SUFFICES ASSUME ~Crash PROVE TypeOK' /\ Control'
  BY <1>0
<1>1. CASE Reschedule
  <2>1. PICK e \in Eligible :
           /\ main.pc \in {"dispatch", "again"} /\ queue["ready"] # <<>>
           /\ queue' = MoveEsi("ready", "execution", e)
           /\ executing' = IF main.pc = "again" THEN NoEsi ELSE executing
           /\ main' = [main EXCEPT !.pc = "authorize", !.esi = e,
                           !.outer = IF main.outer = NoEsi THEN e ELSE main.outer]
           /\ UNCHANGED <<alive, finished, locked, expecting, info, flag, keyVars,
                          req, term, world>>
    BY <1>1 DEF Reschedule
  <2>2. e \in Fd
    BY <2>1, EligibleAreEsis
  <2>3. queue' \in [QueueName -> Seq(Fd)] /\ queue'["execution"] # <<>>
    <3> DEFINE r == RemoveFirst(queue["ready"], e)
               q == [queue EXCEPT !["ready"] = r]
    <3>1. queue["execution"] \in Seq(Fd)
      BY DEF TypeOK, QueueName
    <3>2. Append(queue["execution"], e) # <<>>
      BY <2>2, <3>1, AppendProperties
    <3>3. queue'["execution"] = Append(queue["execution"], e)
      BY <2>1 DEF MoveEsi, TypeOK, QueueName
    <3> QED BY <2>1, <2>2, <3>2, <3>3, MoveEsiType DEF TypeOK, QueueName
  <2>4. /\ main' \in Locals /\ main'.pc = "authorize" /\ main'.esi = e
        /\ main'.fin = main.fin
    BY <2>1, <2>2 DEF TypeOK, Locals, Label, AnyEsi
  <2>5. TypeOK'
    BY <2>1, <2>3, <2>4 DEF TypeOK, AnyEsi
  <2>6. Control'
    BY <2>1, <2>2, <2>3, <2>4 DEF Control, ServingExecuting
  <2> QED BY <2>5, <2>6
<1>2. CASE ContinueExecuting
  <2>1. CASE main' = Idle
    <3>1. TypeOK'
      BY <1>2, <2>1, IdleType DEF ContinueExecuting, TypeOK
    <3>2. Control'
      BY <2>1 DEF Control, ServingExecuting, Idle
    <3> QED BY <3>1, <3>2
  <2>2. CASE main' # Idle
    <3>1. /\ main.pc = "dispatch" /\ queue["execution"] # <<>>
          /\ main' = [main EXCEPT !.pc = "authorize", !.esi = Head(queue["execution"])]
      BY <1>2, <2>2 DEF ContinueExecuting
    <3>2. Head(queue["execution"]) \in Fd
      BY <3>1, HeadTailProperties DEF TypeOK, QueueName
    <3>3. /\ main' \in Locals /\ main'.pc = "authorize" /\ main'.fin = main.fin
          /\ main'.esi = Head(queue["execution"])
      BY <3>1, <3>2 DEF TypeOK, Locals, Label, AnyEsi
    <3>4. TypeOK'
      BY <1>2, <3>3 DEF ContinueExecuting, TypeOK
    <3>5. UNCHANGED queue
      BY <1>2 DEF ContinueExecuting
    <3>6. Control'
      BY <3>1, <3>2, <3>3, <3>5 DEF Control, ServingExecuting
    <3> QED BY <3>4, <3>6
  <2> QED BY <2>1, <2>2
<1>3. CASE AuthorizeEsiExecution
  <2>1. CASE main.esi \notin open
    <3>1. ~main.fin /\ 1 \in Nat \ {0}
      BY <1>3 DEF AuthorizeEsiExecution, Control
    <3> QED BY <1>3, <2>1, <3>1, SockMyPortPreserves DEF AuthorizeEsiExecution
  <2>2. CASE main.esi \in open
    <3>1. main.esi \in Fd /\ esi[main.esi] \in Process
      BY <2>2 DEF TypeOK
    <3>2. esi' \in [Fd \cup {Ghost} -> Process]
      <4> DEFINE r == [esi[main.esi] EXCEPT !.orders = @ + 1]
      <4>1. r \in Process
        BY <3>1 DEF Process
      <4>2. esi' = [esi EXCEPT ![main.esi] = r]
        BY <1>3, <2>2 DEF AuthorizeEsiExecution
      <4> HIDE DEF r
      <4> QED BY <4>1, <4>2 DEF TypeOK
    <3>3. executing' \in AnyEsi
      BY <1>3, <2>2 DEF AuthorizeEsiExecution, TypeOK, Locals
    <3>4. flag' \in [FlagName -> BOOLEAN]
      BY <1>3, <2>2, ZenonT(60) DEF AuthorizeEsiExecution, TypeOK, FlagName
    <3>5. main' = Idle
      BY <1>3, <2>2 DEF AuthorizeEsiExecution
    <3>6. TypeOK'
      BY <1>3, <2>2, <3>2, <3>3, <3>4, <3>5, IdleType DEF AuthorizeEsiExecution, TypeOK
    <3>7. Control'
      BY <3>5 DEF Control, ServingExecuting, Idle
    <3> QED BY <3>6, <3>7
  <2> QED BY <2>1, <2>2
<1> QED BY <1>1, <1>2, <1>3 DEF DispatchSteps

-----------------------------------------------------------------------------
(* The console and the rest of the environment *)

ElsewhereSteps ==
    \/ GoIdle \/ Operator \/ AddRequest \/ TogglePause
    \/ \E e \in Fd : InvalidLine(e) \/ EsiCut(e)

\* The console and the ESI processes do not touch the main thread's locals.
LEMMA ElsewherePreserves ==
  ASSUME TypeOK, Control, ElsewhereSteps
  PROVE  TypeOK' /\ Control'
<1> USE DEF keyVars, term, world, tables
<1>1. CASE GoIdle
  <2>1. TypeOK'
    BY <1>1, IdleType DEF GoIdle, TypeOK
  <2>2. Control'
    BY <1>1 DEF GoIdle, Control, ServingExecuting, Idle
  <2> QED BY <2>1, <2>2
<1>2. CASE Operator
  <2>1. PICK c \in Commands : TypeCommand(c)
    BY <1>2 DEF Operator
  <2>2. flag' \in [FlagName -> BOOLEAN]
    BY <2>1 DEF TypeCommand, TypeOK, CommandFlag, FlagName
  <2>3. TypeOK'
    BY <2>1, <2>2 DEF TypeCommand, TypeOK
  <2>4. Control'
    BY <2>1 DEF TypeCommand, Control, ServingExecuting, Known
  <2> QED BY <2>3, <2>4
<1>3. CASE AddRequest
  <2>1. req' \in [killed : Seq(Fd), block : Seq(Claim), unlock : Seq(Key)]
    <3>1. CASE console = "kill"
      <4>1. PICK e \in NamedEsi :
               req' = [req EXCEPT !.killed = IF e = NoEsi THEN @ ELSE Append(@, e)]
        BY <1>3, <3>1 DEF AddRequest
      <4>2. CASE e = NoEsi
        BY <4>1, <4>2 DEF TypeOK
      <4>3. CASE e # NoEsi
        <5>1. Append(req.killed, e) \in Seq(Fd)
          BY <4>3, AppendProperties DEF NamedEsi, TypeOK
        <5> QED BY <4>1, <4>3, <5>1 DEF TypeOK
      <4> QED BY <4>2, <4>3
    <3>2. CASE console = "bloquear"
      <4>1. PICK e \in NamedEsi, k \in Key :
               req' = [req EXCEPT !.block = Append(@, [esi |-> e, key |-> k])]
        BY <1>3, <3>2 DEF AddRequest
      <4>2. [esi |-> e, key |-> k] \in Claim
        BY DEF NamedEsi, Claim, AnyEsi, AnyKey
      <4>3. Append(req.block, [esi |-> e, key |-> k]) \in Seq(Claim)
        BY <4>2, AppendProperties DEF TypeOK
      <4> QED BY <4>1, <4>3 DEF TypeOK
    <3>3. CASE console = "desbloquear"
      <4>1. PICK k \in Key : req' = [req EXCEPT !.unlock = Append(@, k)]
        BY <1>3, <3>3 DEF AddRequest
      <4>2. Append(req.unlock, k) \in Seq(Key)
        BY AppendProperties DEF TypeOK
      <4> QED BY <4>1, <4>2 DEF TypeOK
    <3> QED BY <1>3, <3>1, <3>2, <3>3 DEF AddRequest
  <2>2. TypeOK'
    BY <1>3, <2>1 DEF AddRequest, TypeOK
  <2>3. Control'
    BY <1>3 DEF AddRequest, Control, ServingExecuting, Known
  <2> QED BY <2>2, <2>3
<1>4. CASE TogglePause
  <2>1. flag' \in [FlagName -> BOOLEAN]
    <3>1. flag' = [flag EXCEPT !["paused"] = ~flag["paused"]]
      BY <1>4 DEF TogglePause
    <3> QED BY <3>1 DEF TypeOK, FlagName
  <2>2. commands' \in Nat
    <3>1. commands' = commands \/ commands' = commands + 1
      BY <1>4 DEF TogglePause
    <3> QED BY <3>1 DEF TypeOK
  <2>3. TypeOK'
    BY <1>4, <2>1, <2>2 DEF TogglePause, TypeOK
  <2>4. Control'
    BY <1>4 DEF TogglePause, Control, ServingExecuting, Known
  <2> QED BY <2>3, <2>4
<1>5. ASSUME NEW e \in Fd, InvalidLine(e)
      PROVE  TypeOK' /\ Control'
  <2>1. esi' \in [Fd \cup {Ghost} -> Process]
    BY <1>5, AdvanceType DEF InvalidLine, Stage
  <2>2. TypeOK'
    BY <1>5, <2>1 DEF InvalidLine, TypeOK
  <2>3. Control'
    BY <1>5 DEF InvalidLine, Control, ServingExecuting, Known
  <2> QED BY <2>2, <2>3
<1>6. ASSUME NEW e \in Fd, EsiCut(e)
      PROVE  TypeOK' /\ Control'
  <2>1. esi' \in [Fd \cup {Ghost} -> Process]
    <3>1. esi[e] \in Process /\ e # Ghost
      BY ConstantsAssumption DEF TypeOK
    <3>2. [esi[e] EXCEPT !.st = "gone"] \in Process
      BY <3>1 DEF Process, Stage
    <3> QED BY <1>6, <3>1, <3>2 DEF EsiCut, TypeOK
  <2>2. TypeOK'
    BY <1>6, <2>1 DEF EsiCut, TypeOK
  <2>3. Control'
    BY <1>6 DEF EsiCut, Control, ServingExecuting, Known
  <2> QED BY <2>2, <2>3
<1> QED BY <1>1, <1>2, <1>3, <1>4, <1>5, <1>6 DEF ElsewhereSteps

-----------------------------------------------------------------------------

\* create_administrative_structures sets everything up.
LEMMA InitCorrect == Init => TypeOK /\ Control
<1> SUFFICES ASSUME Init PROVE TypeOK /\ Control
  OBVIOUS
<1>1. locked \in Seq(Claim)
  <2>1. /\ Len(ConfigKeys) \in Nat /\ DOMAIN ConfigKeys = 1..Len(ConfigKeys)
        /\ \A i \in 1..Len(ConfigKeys) : ConfigKeys[i] \in Key
    BY ConstantsAssumption, LenProperties, ElementOfSeq
  <2> DEFINE d(i) == [esi |-> NoEsi, key |-> ConfigKeys[i]]
  <2>2. \A i \in 1..Len(ConfigKeys) : d(i) \in Claim
    BY <2>1 DEF Claim, AnyEsi, AnyKey
  <2>3. locked = [i \in 1..Len(ConfigKeys) |-> d(i)]
    BY <2>1 DEF Init
  <2> HIDE DEF d
  <2> QED BY <2>1, <2>2, <2>3, IsASeq
<1>2. NoProcess \in Process
  BY DEF NoProcess, Process, Stage, AnyKey
<1>3. TypeOK
  BY <1>1, <1>2, IdleType, EmptySeq DEF Init, TypeOK, AnyEsi, AnyKey
<1>4. Control
  BY DEF Init, Control, ServingExecuting, Idle
<1> QED BY <1>3, <1>4

\* Every step of the system keeps types and control.
LEMMA NextCorrect ==
  ASSUME TypeOK, Control, [Next]_vars
  PROVE  TypeOK' /\ Control'
<1>1. CASE UNCHANGED vars
  BY <1>1 DEF vars, tables, keyVars, term, world, TypeOK, Control, ServingExecuting, Known
<1>2. CASE \E e \in Fd : Accept(e) \/ AcceptWithoutHandshake(e)
  BY <1>2, ArrivePreserves DEF Accept, AcceptWithoutHandshake
<1>3. CASE \E e \in Fd : Sentence(e)
  BY <1>3, SentencePreserves
<1>4. CASE \E s \in Fd \cup {Ghost} : Conversation(s)
  BY <1>4, ConversationPreserves
<1>5. CASE EsiEvents
  BY <1>5, EsiEventsPreserve
<1>6. CASE UninitialisedOpcode \/ ReleaseKey \/ ReleaseEnd
  BY <1>6, ReleasePreserves
<1>7. CASE Burn \/ Corpse \/ CorpsesBurnt \/ FinishEsi \/ EsiFinished \/ Drain
  BY <1>7, BurnPreserves
<1>8. CASE FlagSteps
  BY <1>8, FlagStepsType, FlagStepsControl
<1>9. CASE DispatchSteps
  BY <1>9, DispatchPreserves
<1>10. CASE ElsewhereSteps
  BY <1>10, ElsewherePreserves
<1> QED BY <1>1, <1>2, <1>3, <1>4, <1>5, <1>6, <1>7, <1>8, <1>9, <1>10
        DEF Next, Steps, FlagSteps, DispatchSteps, ElsewhereSteps

\* The scheduler's tables keep their types: in particular no queue ever holds the -1
\* that stands for no ESI, and no count of ESI entries drops below zero, whatever
\* fails and whatever the operator types; and main() never gets to a line whose
\* operands the paths before it have not set.
THEOREM TypeCorrect == Spec => []InControl
<1>1. Init => InControl
  BY InitCorrect DEF InControl
<1>2. InControl /\ [Next]_vars => InControl'
  BY NextCorrect DEF InControl
<1> QED BY <1>1, <1>2, PTL DEF Spec

-----------------------------------------------------------------------------
(* One owner per key, as long as no ESI process is cut *)

Distinct(s) == \A i, j \in DOMAIN s : s[i].key = s[j].key => i = j

\* A list that lost an element still names no key twice.
LEMMA ThinnedDistinct ==
  ASSUME NEW s \in Seq(Claim), Distinct(s), NEW r, Thinned(r, s)
  PROVE  Distinct(r)
<1>1. PICK f \in [1..Len(r) -> 1..Len(s)] :
         /\ \A j \in 1..Len(r) : r[j] = s[f[j]]
         /\ \A j, k \in 1..Len(r) : f[j] = f[k] => j = k
  BY ThinnedElements
<1>2. DOMAIN r = 1..Len(r) /\ DOMAIN s = 1..Len(s)
  BY ThinnedElements, LenProperties
<1>3. ASSUME NEW j \in 1..Len(r), NEW k \in 1..Len(r), r[j].key = r[k].key
      PROVE  j = k
  <2>1. s[f[j]].key = s[f[k]].key /\ f[j] \in 1..Len(s) /\ f[k] \in 1..Len(s)
    BY <1>1, <1>3
  <2>2. f[j] = f[k]
    BY <1>2, <2>1 DEF Distinct
  <2> QED BY <1>1, <2>2
<1> QED BY <1>2, <1>3 DEF Distinct

\* A list that gains a key it did not have still names no key twice.
LEMMA AppendDistinct ==
  ASSUME NEW s \in Seq(Claim), Distinct(s), NEW c \in Claim,
         \A i \in DOMAIN s : s[i].key # c.key
  PROVE  Distinct(Append(s, c))
<1> DEFINE t == Append(s, c)
<1>1. /\ t \in Seq(Claim) /\ Len(t) = Len(s) + 1
      /\ \A i \in 1..Len(s) : t[i] = s[i]
      /\ t[Len(s) + 1] = c
  BY AppendProperties
<1>2. DOMAIN t = 1..(Len(s) + 1) /\ DOMAIN s = 1..Len(s) /\ Len(s) \in Nat
  <2> HIDE DEF t
  <2> QED BY <1>1, LenProperties
<1>3. ASSUME NEW i \in DOMAIN t, NEW j \in DOMAIN t, t[i].key = t[j].key
      PROVE  i = j
  <2> HIDE DEF t
  <2>1. CASE i <= Len(s) /\ j <= Len(s)
    <3>1. i \in DOMAIN s /\ j \in DOMAIN s /\ s[i].key = s[j].key
      BY <1>1, <1>2, <1>3, <2>1
    <3> QED BY <3>1 DEF Distinct
  <2>2. CASE i = Len(s) + 1 /\ j = Len(s) + 1
    BY <2>2
  <2>3. CASE i = Len(s) + 1 /\ j <= Len(s)
    BY <1>1, <1>2, <1>3, <2>3
  <2>4. CASE i <= Len(s) /\ j = Len(s) + 1
    BY <1>1, <1>2, <1>3, <2>4
  <2> QED BY <1>2, <2>1, <2>2, <2>3, <2>4
<1> HIDE DEF t
<1> QED BY <1>3 DEF Distinct

\* The table is left alone, loses an entry, or gains one for a key nobody has.
LocksStep ==
    \/ Thinned(locked', locked)
    \/ \E c \in Claim : ~Locked(c.key) /\ locked' = Append(locked, c)

\* What the steps do to g_locked_keys gives no key a second owner.
LEMMA LocksStepKeepsOneOwner ==
  ASSUME TypeOK, OneOwner, LocksStep
  PROVE  OneOwner'
<1>1. locked \in Seq(Claim) /\ Distinct(locked)
  BY DEF TypeOK, OneOwner, Distinct
<1>2. Distinct(locked')
  <2>1. CASE Thinned(locked', locked)
    BY <1>1, <2>1, ThinnedDistinct
  <2>2. CASE \E c \in Claim : ~Locked(c.key) /\ locked' = Append(locked, c)
    BY <1>1, <2>2, AppendDistinct DEF Locked
  <2> QED BY <2>1, <2>2 DEF LocksStep
<1> QED BY <1>2 DEF OneOwner, Distinct

\* bloquear gives an ESI a key only if nobody has it.
LEMMA BlockEsiLocks ==
  ASSUME NEW w \in Claim, NEW from, BlockEsi(w, from)
  PROVE  LocksStep
BY DEF BlockEsi, LocksStep, Thinned

\* main() writes g_locked_keys in six places; only the first depends on the
\* coordinator having asked before.
LEMMA NextLocks ==
  ASSUME TypeOK, Control, Alternate, [Next]_vars
  PROVE  LocksStep
<1> USE DEF keyVars, term, world, tables
<1>0. CASE locked' = locked
  BY <1>0 DEF LocksStep, Thinned
<1> SUFFICES ASSUME locked' # locked, ~Crash PROVE LocksStep
  BY <1>0 DEF Crash
<1>1. ASSUME NEW s \in Fd \cup {Ghost}, BlockKey(s)
      PROVE  LocksStep
  <2>1. s \in Fd /\ esi[s].st = "locking"
    BY <1>1 DEF BlockKey, CoordinatorMessage, Alternate
  <2> DEFINE c == [esi |-> Head(queue["execution"]), key |-> lastKey]
  <2>2. c \in Claim
    <3>1. Head(queue["execution"]) \in Fd
      BY <1>1, HeadTailProperties DEF BlockKey, TypeOK, QueueName
    <3> QED BY <3>1 DEF Claim, AnyEsi, TypeOK
  <2>3. locked' = Append(locked, c) /\ ~Locked(c.key)
    BY <1>1, <2>1 DEF BlockKey, Alternate
  <2> HIDE DEF c
  <2> QED BY <2>2, <2>3 DEF LocksStep
<1>2. CASE ReleaseKey
  BY <1>2, UpdateType DEF ReleaseKey, LocksStep
<1>3. CASE ReleaseEnd
  BY <1>3, ForgetEsiThins DEF ReleaseEnd, LocksStep, TypeOK
<1>4. CASE ServeUpdate
  BY <1>4, UpdateType DEF ServeUpdate, LocksStep
<1>5. CASE ReleaseByConsole
  BY <1>5, UpdateType DEF ReleaseByConsole, LocksStep
<1>6. CASE BlockExecuting
  <2> DEFINE n == RequestOf(Head(queue["execution"]))
  <2>1. n # 0 /\ BlockEsi(req.block[n], "execution")
    BY <1>6 DEF BlockExecuting
  <2>2. req.block[n] \in Claim
    BY <2>1, FirstOfEsiIndex DEF TypeOK, RequestOf
  <2> HIDE DEF n
  <2> QED BY <2>1, <2>2, BlockEsiLocks
<1>7. CASE BlockReady
  <2>1. PICK i \in DOMAIN main.snap : BlockEsi(main.snap[i], "ready")
    BY <1>7 DEF BlockReady
  <2>2. main.snap[i] \in Claim
    BY <2>1 DEF TypeOK, Locals
  <2> QED BY <2>1, <2>2, BlockEsiLocks
<1>8. CASE BlockForSystem
  <2> DEFINE w == req.block[main.i]
             c == [w EXCEPT !.esi = NoEsi]
  <2>1. main.i \in 1..Len(req.block) /\ req.block \in Seq(Claim)
    BY <1>8 DEF BlockForSystem, TypeOK, Locals
  <2>2. w \in Claim
    BY <2>1
  <2>3. c \in Claim /\ c.key = w.key
    BY <2>2 DEF Claim, AnyEsi
  <2>4. ~Locked(w.key) /\ locked' = Append(locked, c)
    BY <1>8, Zenon DEF BlockForSystem
  <2> HIDE DEF c, w
  <2> QED BY <2>3, <2>4 DEF LocksStep
<1>9. \/ \E s \in Fd \cup {Ghost} : BlockKey(s)
      \/ ReleaseKey \/ ReleaseEnd \/ ServeUpdate \/ ReleaseByConsole
      \/ BlockExecuting \/ BlockReady \/ BlockForSystem
  <2>1. ~UNCHANGED vars
    BY DEF vars
  <2>2. \A e \in Fd : ~Accept(e) /\ ~AcceptWithoutHandshake(e)
    BY DEF Accept, AcceptWithoutHandshake, ArriveEsi
  <2>3. \A e \in Fd : ~Sentence(e) /\ ~InvalidLine(e) /\ ~EsiCut(e)
    BY DEF Sentence, IsThisKeyBlocked, InvalidLine, EsiCut
  <2>4. \A s \in Fd \cup {Ghost} : Conversation(s) => BlockKey(s)
    BY DEF Conversation, IsKeyBlockedByExecutingEsi, UnlockKey, InstanceAnswers
  <2>5. ~EsiEvents
    BY DEF EsiEvents, ExecutionSuccess, IAmBlocked, ExecutionFailure, SockMyPort
  <2>6. ~GoIdle /\ ~Operator /\ ~AddRequest /\ ~TogglePause
    BY DEF GoIdle, Operator, TypeCommand, AddRequest, TogglePause
  <2>7. ~UninitialisedOpcode /\ ~Burn /\ ~Corpse /\ ~CorpsesBurnt /\ ~FinishEsi
        /\ ~EsiFinished /\ ~Drain /\ ~ServeUnlocks /\ ~UnlocksServed
    BY DEF UninitialisedOpcode, Burn, Corpse, CorpsesBurnt, FinishEsi, EsiFinished,
           Drain, ServeUnlocks, UnlocksServed, SockMyPort
  <2>8. ~ServeNews /\ ~FilterReady /\ ~ReadyBlocked /\ ~BlocksServed /\ ~Preempt
        /\ ~Reschedule /\ ~ContinueExecuting /\ ~AuthorizeEsiExecution
    BY DEF ServeNews, FilterReady, ReadyBlocked, BlocksServed, Preempt, Reschedule,
           ContinueExecuting, AuthorizeEsiExecution, SockMyPort
  <2> QED BY <2>1, <2>2, <2>3, <2>4, <2>5, <2>6, <2>7, <2>8 DEF Next, Steps
<1> QED BY <1>1, <1>2, <1>3, <1>4, <1>5, <1>6, <1>7, <1>8, <1>9

-----------------------------------------------------------------------------
(* The alternation of main() and the sentence in flight *)

\* While main() works on its flags no sentence is in flight.
LEMMA NobodyBusy ==
  ASSUME Control, Alternate,
         \/ main.pc \notin {"select", "release"} /\ ~main.fin
         \/ main.pc = "select" /\ queue["execution"] = <<>>
  PROVE  \A e \in Fd : ~Busy(e)
BY DEF Alternate

\* With no sentence in flight, a step that leaves the ESIs alone keeps the alternation.
LEMMA QuietStep ==
  ASSUME Alternate, \A e \in Fd : ~Busy(e), UNCHANGED <<esi, open>>
  PROVE  Alternate'
<1>1. \A e \in Fd : ~Busy(e)'
  BY DEF Busy
<1>2. \A e \in Fd : esi'[e].st # "locking"
  BY <1>1 DEF Busy, InFlight
<1> QED BY <1>1, <1>2 DEF Alternate

\* Until its ESI is buried, the only one that is busy is the one that finished.
LEMMA FinishingStep ==
  ASSUME Alternate, main.fin, main.pc \in {"burn", "corpses", "drain"},
         main'.fin, main'.pc \notin {"select", "finish"},
         UNCHANGED <<esi, open, executing>>
  PROVE  Alternate'
<1>1. \A e \in Fd : Busy(e)' => esi'[e].st = "gone" /\ e = executing'
  BY DEF Alternate, Busy
<1>2. \A e \in Fd : esi'[e].st # "locking"
  BY <1>1 DEF Busy, InFlight
<1> QED BY <1>1, <1>2 DEF Alternate

\* Another thread or process does something else.
LEMMA ElsewhereAlternate ==
  ASSUME Alternate, UNCHANGED <<esi, open, main, executing, locked, lastKey, queue>>
  PROVE  Alternate'
<1>1. \A e \in Fd : Busy(e)' = Busy(e)
  BY DEF Busy
<1> QED BY <1>1 DEF Alternate, Locked

\* While main() is in select(), the one that is busy moves on.
LEMMA ConversationMoves ==
  ASSUME TypeOK, Control, Alternate, main.pc = "select", main' = main,
         UNCHANGED <<open, queue>>,
         NEW e \in Fd, Busy(e), NEW r, esi' = [esi EXCEPT ![e] = r],
         r.st # "off",
         r.orders > 0 => r.orders = 1 /\ r.st \in {"idle", "gone"},
         r.st = "locking" => ~Locked(lastKey)'
  PROVE  Alternate'
<1>0. Ghost # e /\ esi \in [Fd \cup {Ghost} -> Process]
  BY ConstantsAssumption DEF TypeOK
<1>1. esi'[e] = r /\ \A f \in Fd \cup {Ghost} : f # e => esi'[f] = esi[f]
  BY <1>0
<1>2. \A f \in Fd : f # e => ~Busy(f) /\ ~Busy(f)'
  BY <1>1 DEF Alternate, Busy
<1>3. \A f \in Fd : f # e => esi'[f].st # "locking"
  BY <1>2 DEF Busy, InFlight
<1>4. queue["execution"] # <<>>
  BY DEF Alternate
<1> QED BY <1>0, <1>1, <1>2, <1>3, <1>4 DEF Alternate

\* A sentence in flight is that of the one busy ESI, and main() is in select().
LEMMA BusyTalks ==
  ASSUME Alternate, NEW s \in Fd \cup {Ghost}, esi[s].st \in InFlight \cup {"ok", "blocked"}
  PROVE  s \in Fd /\ Busy(s) /\ main.pc = "select"
<1>1. s \in Fd
  BY DEF Alternate, InFlight
<1>2. Busy(s) /\ esi[s].st # "gone"
  BY <1>1 DEF Busy, InFlight
<1> QED BY <1>1, <1>2 DEF Alternate

\* A message about the sentence in flight keeps the alternation.
LEMMA AdvanceAlternate ==
  ASSUME TypeOK, Control, Alternate, NEW s \in Fd \cup {Ghost},
         esi[s].st \in InFlight, NEW st \in Stage \ {"off", "locking"},
         Advance(s, st), UNCHANGED <<open, queue, main>>
  PROVE  Alternate'
<1>1. s \in Fd /\ Busy(s) /\ main.pc = "select"
  BY BusyTalks
<1>2. s # Ghost
  BY <1>1, ConstantsAssumption
<1> DEFINE r == [esi[s] EXCEPT !.st = st]
<1>3. esi' = [esi EXCEPT ![s] = r]
  BY <1>2 DEF Advance
<1>4. esi[s] \in Process
  BY DEF TypeOK
<1>5. r.st = st /\ r.orders = esi[s].orders
  BY <1>4 DEF Process
<1>6. ~(esi[s].orders > 0)
  BY <1>1 DEF Alternate, InFlight
<1> HIDE DEF r
<1> QED BY <1>1, <1>3, <1>5, <1>6, ConversationMoves

\* A connection keeps the alternation.
LEMMA ArriveAlternate ==
  ASSUME TypeOK, Alternate, NEW e \in Fd, NEW c \in BOOLEAN, ArriveEsi(e, c)
  PROVE  Alternate'
<1>0. Ghost # e /\ esi \in [Fd \cup {Ghost} -> Process]
  BY ConstantsAssumption DEF TypeOK
<1>1. CASE ~c
  <2>1. UNCHANGED <<esi, open, main, executing, locked, lastKey>>
    BY <1>0, <1>1 DEF ArriveEsi, keyVars
  <2>2. queue'["execution"] = queue["execution"]
    BY DEF ArriveEsi, TypeOK, QueueName
  <2>3. \A f \in Fd : Busy(f)' = Busy(f)
    BY <2>1 DEF Busy
  <2> QED BY <2>1, <2>2, <2>3 DEF Alternate, Locked
<1>2. CASE c
  <2>1. /\ esi' = [esi EXCEPT ![e] = [NoProcess EXCEPT !.st = "idle"]]
        /\ open' = open \cup {e}
        /\ UNCHANGED <<main, executing, locked, lastKey>>
    BY <1>2 DEF ArriveEsi, keyVars
  <2>2. queue'["execution"] = queue["execution"]
    BY DEF ArriveEsi, TypeOK, QueueName
  <2>3. /\ esi'[e].st = "idle" /\ esi'[e].orders = 0
        /\ \A f \in Fd \cup {Ghost} : f # e => esi'[f] = esi[f]
    BY <1>0, <2>1 DEF NoProcess
  <2>4. \A f \in Fd : Busy(f)' => Busy(f) /\ f # e /\ esi'[f] = esi[f]
    BY <2>3 DEF Busy, InFlight
  <2> QED BY <1>0, <2>1, <2>2, <2>3, <2>4 DEF Alternate, Locked
<1> QED BY <1>1, <1>2

\* The first question of a sentence keeps the alternation: it uses up the order.
LEMMA SentenceAlternate ==
  ASSUME TypeOK, Control, Alternate, NEW e \in Fd, Sentence(e)
  PROVE  Alternate'
<1>0. CASE Crash
  BY <1>0, ElsewhereAlternate DEF Crash, tables, keyVars, world
<1> SUFFICES ASSUME ~Crash PROVE Alternate'
  BY <1>0
<1>1. PICK op \in {"GET", "SET", "STORE"}, k \in Key : IsThisKeyBlocked(e, op, k)
  BY DEF Sentence
<1> DEFINE r == [st     |-> IF Locked(k) THEN "asking"
                            ELSE IF op = "GET" THEN "locking" ELSE "gone",
                 op     |-> op, key |-> k, retry |-> FALSE,
                 orders |-> esi[e].orders - 1,
                 line   |-> IF esi[e].retry THEN esi[e].line ELSE esi[e].line + 1]
<1>2. /\ esi' = [esi EXCEPT ![e] = r]
      /\ main.pc = "select" /\ esi[e].st = "idle" /\ esi[e].orders > 0
      /\ lastKey' = k /\ UNCHANGED <<main, open, queue, locked>>
  BY <1>1 DEF IsThisKeyBlocked, CoordinatorMessage, tables
<1>3. Busy(e) /\ esi[e].orders = 1
  BY <1>2 DEF Busy, Alternate
<1>4. r.orders = 0 /\ r.st # "off"
  BY <1>3
<1>5. r.st = "locking" => ~Locked(lastKey)'
  BY <1>2 DEF Locked
<1> HIDE DEF r
<1>6. r.orders > 0 => r.orders = 1 /\ r.st \in {"idle", "gone"}
  BY <1>4
<1>7. main' = main /\ UNCHANGED <<open, queue>>
  BY <1>2
<1> QED BY <1>2, <1>3, <1>4, <1>5, <1>6, <1>7, ConversationMoves

\* The rest of the coordinator's messages keep the alternation.
LEMMA ConversationAlternate ==
  ASSUME TypeOK, Control, Alternate, NEW s \in Fd \cup {Ghost}, Conversation(s)
  PROVE  Alternate'
<1> USE DEF keyVars, term, world, tables
<1>0. CASE Crash
  BY <1>0, ElsewhereAlternate DEF Crash
<1> SUFFICES ASSUME ~Crash PROVE Alternate'
  BY <1>0
<1>1. CASE IsKeyBlockedByExecutingEsi(s)
  <2>1. /\ esi[s].st \in InFlight /\ UNCHANGED <<open, queue, main>>
        /\ \E st \in Stage \ {"off", "locking"} : Advance(s, st)
    BY <1>1 DEF IsKeyBlockedByExecutingEsi, CoordinatorMessage, InFlight, Stage
  <2> QED BY <2>1, AdvanceAlternate
<1>2. CASE BlockKey(s)
  <2>1. /\ esi[s].st \in InFlight /\ UNCHANGED <<open, queue, main>>
        /\ \E st \in Stage \ {"off", "locking"} : Advance(s, st)
    BY <1>2 DEF BlockKey, CoordinatorMessage, InFlight, Stage
  <2> QED BY <2>1, AdvanceAlternate
<1>3. CASE UnlockKey(s)
  <2>1. /\ esi[s].st \in InFlight /\ UNCHANGED <<open, queue, main>>
        /\ \E st \in Stage \ {"off", "locking"} : Advance(s, st)
    BY <1>3 DEF UnlockKey, CoordinatorMessage, InFlight, Stage
  <2> QED BY <2>1, AdvanceAlternate
<1>4. CASE InstanceAnswers(s)
  <2>1. /\ esi[s].st \in InFlight /\ UNCHANGED <<open, queue, main>>
        /\ \E st \in Stage \ {"off", "locking"} : Advance(s, st)
    BY <1>4 DEF InstanceAnswers, InFlight, Stage
  <2> QED BY <2>1, AdvanceAlternate
<1> QED BY <1>1, <1>2, <1>3, <1>4 DEF Conversation

\* The answer of the executing ESI ends its turn before main() serves the flags.
LEMMA EsiEventsAlternate ==
  ASSUME TypeOK, Control, Alternate, EsiEvents
  PROVE  Alternate'
<1> USE DEF keyVars, term, world, tables
<1>0. CASE Crash
  BY <1>0, ElsewhereAlternate DEF Crash
<1> SUFFICES ASSUME ~Crash PROVE Alternate'
  BY <1>0
<1>1. /\ executing \in Fd /\ executing \in open /\ main.pc = "select"
      /\ esi[executing].st \in {"ok", "blocked", "gone"}
  BY DEF EsiEvents, ExecutionSuccess, IAmBlocked, ExecutionFailure, FromExecutingEsi, TypeOK
<1>2. Ghost # executing /\ esi \in [Fd \cup {Ghost} -> Process]
  BY <1>1, ConstantsAssumption DEF TypeOK
<1>3. \A f \in Fd : f # executing => ~Busy(f)
  BY <1>1 DEF Alternate, Busy
<1>4. CASE ExecutionFailure
  <2>1. /\ main'.pc = "release" /\ main'.esi = executing /\ esi' = esi /\ open' = open
        /\ esi[executing].st = "gone"
    BY <1>1, <1>4 DEF ExecutionFailure, SockMyPort, FromExecutingEsi, TypeOK, Locals
  <2>2. \A f \in Fd : Busy(f)' => f = executing
    BY <1>3, <2>1 DEF Busy
  <2>3. \A f \in Fd : esi'[f].st # "locking"
    BY <2>1, <2>2 DEF Busy, InFlight
  <2> QED BY <2>1, <2>2, <2>3 DEF Alternate
<1>5. ASSUME NEW r,
             /\ esi' = [esi EXCEPT ![executing] = r] /\ open' = open
             /\ r.orders = 0 /\ r.st \in {"idle", "gone"}
             /\ main'.pc = "burn"
             /\ r.st = "gone" => main'.fin /\ executing' = executing
      PROVE  Alternate'
  <2>1. esi'[executing] = r /\ \A f \in Fd \cup {Ghost} : f # executing => esi'[f] = esi[f]
    BY <1>1, <1>2, <1>5
  <2>2. \A f \in Fd : Busy(f)' => f = executing /\ r.st = "gone"
    BY <1>3, <1>5, <2>1 DEF Busy, InFlight
  <2>3. \A f \in Fd : esi'[f].st # "locking"
    BY <1>5, <2>1, <2>2 DEF Busy, InFlight
  <2> QED BY <1>1, <1>2, <1>5, <2>1, <2>2, <2>3 DEF Alternate
<1>6. esi[executing].st # "gone" => esi[executing].orders = 0
  <2>1. esi[executing].orders \in Nat
    BY <1>1, <1>2 DEF Process
  <2> QED BY <1>1, <2>1 DEF Alternate
<1>7. ASSUME NEW finish \in BOOLEAN, ExecutionSuccess(finish)
      PROVE  Alternate'
  <2> DEFINE r == [esi[executing] EXCEPT !.st = IF finish THEN "gone" ELSE "idle"]
  <2>1. esi[executing] \in Process /\ esi[executing].st = "ok"
    BY <1>1, <1>2, <1>7 DEF ExecutionSuccess, FromExecutingEsi
  <2>2. r.orders = 0 /\ r.st = IF finish THEN "gone" ELSE "idle"
    BY <1>6, <2>1 DEF Process
  <2>3. /\ esi' = [esi EXCEPT ![executing] = r] /\ open' = open
        /\ executing' = executing
        /\ main' = [main EXCEPT !.pc = "burn", !.ctx = "result", !.fin = finish]
    BY <1>7 DEF ExecutionSuccess
  <2>4. main'.pc = "burn" /\ main'.fin = finish
    BY <2>3 DEF TypeOK, Locals
  <2> HIDE DEF r
  <2> QED BY <1>5, <2>2, <2>3, <2>4
<1>8. CASE IAmBlocked
  <2> DEFINE r == [esi[executing] EXCEPT !.st = "idle", !.retry = TRUE]
  <2>1. esi[executing] \in Process /\ esi[executing].st = "blocked"
    BY <1>1, <1>2, <1>8 DEF IAmBlocked, FromExecutingEsi
  <2>2. r.orders = 0 /\ r.st = "idle"
    BY <1>6, <2>1 DEF Process
  <2>3. /\ open' = open
        /\ esi' = [esi EXCEPT ![executing].st = "idle", ![executing].retry = TRUE]
        /\ main' = [main EXCEPT !.pc = "burn", !.ctx = "result"]
    BY <1>8 DEF IAmBlocked
  <2>4. esi' = [esi EXCEPT ![executing] = r]
    BY <1>1, <1>2, <2>3
  <2>5. main'.pc = "burn"
    BY <2>3 DEF TypeOK, Locals
  <2> HIDE DEF r
  <2> QED BY <1>5, <2>2, <2>3, <2>4, <2>5
<1> QED BY <1>4, <1>7, <1>8 DEF EsiEvents

\* release_resources buries the one that is gone.
LEMMA ReleaseAlternate ==
  ASSUME TypeOK, Control, Alternate, UninitialisedOpcode \/ ReleaseKey \/ ReleaseEnd
  PROVE  Alternate'
<1> USE DEF keyVars, term, world, tables
<1>0. CASE Crash
  BY <1>0, ElsewhereAlternate DEF Crash
<1> SUFFICES ASSUME ~Crash PROVE Alternate'
  BY <1>0
<1>1. CASE UninitialisedOpcode
  <2>1. main.pc = "opcode" /\ UNCHANGED <<esi, open>>
    BY <1>1 DEF UninitialisedOpcode
  <2>2. \A e \in Fd : ~Busy(e)
    BY <2>1, NobodyBusy DEF Control
  <2> QED BY <2>1, <2>2, QuietStep
<1>2. CASE ReleaseKey
  <2>1. PICK i \in DOMAIN main.snap :
             main' = [main EXCEPT !.snap = SubSeq(main.snap, i + 1, Len(main.snap))]
    BY <1>2 DEF ReleaseKey
  <2>2. /\ main.pc = "release" /\ main'.pc = main.pc /\ main'.fin = main.fin
        /\ main'.esi = main.esi
        /\ UNCHANGED <<esi, open, executing>>
    BY <1>2, <2>1 DEF ReleaseKey, TypeOK, Locals
  <2>3. \A e \in Fd : Busy(e)' = Busy(e)
    BY <2>2 DEF Busy
  <2>4. \A e \in Fd : esi'[e].st # "locking"
    BY <2>2 DEF Alternate, Busy, InFlight
  <2> QED BY <2>2, <2>3, <2>4 DEF Alternate
<1>3. CASE ReleaseEnd
  <2> DEFINE e == main.esi
  <2>1. /\ main.pc = "release" /\ open' = open \ {e} /\ esi' = Orphan(e)
        /\ main' = [main EXCEPT !.pc = main.after, !.snap = <<>>]
        /\ executing' = executing
    BY <1>3 DEF ReleaseEnd
  <2>2. /\ e \in Fd /\ main.after \in {"opcode", "corpses", "finish", "again"}
        /\ main.after = "finish" => main.fin /\ e = executing
        /\ main'.pc = main.after /\ main'.fin = main.fin
    BY <2>1 DEF Control, Known, TypeOK, Locals
  <2>3. esi[e].st \notin InFlight
    BY <2>1, <2>2 DEF Alternate, Busy, InFlight
  <2>4. /\ esi'[e] = NoProcess
        /\ \A f \in Fd \cup {Ghost} : f # e => esi'[f] = esi[f]
    <3>1. Ghost # e /\ esi \in [Fd \cup {Ghost} -> Process]
      BY <2>2, ConstantsAssumption DEF TypeOK
    <3> HIDE DEF e
    <3> QED BY <2>1, <2>2, <2>3, <3>1 DEF Orphan
  <2>5. Ghost # e
    BY <2>2, ConstantsAssumption
  <2> HIDE DEF e
  <2>6. esi'[e].st = "off" /\ esi'[e].orders = 0
    BY <2>4 DEF NoProcess
  <2>7. \A f \in Fd : Busy(f)' => f # e /\ Busy(f) /\ esi'[f] = esi[f]
    BY <2>4, <2>6 DEF Busy, InFlight
  <2>8. \A f \in Fd : Busy(f) => esi[f].st = "gone" /\ (f = e \/ (main.fin /\ f = executing))
    BY <2>1 DEF Alternate, e
  <2>9. \A f \in Fd : esi'[f].st # "locking"
    BY <2>7, <2>8 DEF Busy, InFlight
  <2> QED BY <2>1, <2>2, <2>4, <2>5, <2>6, <2>7, <2>8, <2>9 DEF Alternate
<1> QED BY <1>1, <1>2, <1>3

\* burn_esi_corpses and the end of a script keep the alternation.
LEMMA BurnAlternate ==
  ASSUME TypeOK, Control, Alternate,
         Burn \/ Corpse \/ CorpsesBurnt \/ FinishEsi \/ EsiFinished \/ Drain
  PROVE  Alternate'
<1> USE DEF keyVars, term, world, tables
<1>0. CASE Crash
  BY <1>0, ElsewhereAlternate DEF Crash
<1> SUFFICES ASSUME ~Crash PROVE Alternate'
  BY <1>0
<1>1. UNCHANGED <<esi, open>>
  BY DEF Burn, Corpse, CorpsesBurnt, FinishEsi, EsiFinished, Drain, Goto, SockMyPort
<1>2. CASE EsiFinished
  <2>1. \A e \in Fd : ~Busy(e)
    BY <1>2 DEF EsiFinished, Alternate
  <2> QED BY <1>1, <2>1, QuietStep
<1>3. CASE ~EsiFinished
  <2>1. main.pc \in {"burn", "corpses", "drain"}
    BY <1>3 DEF Burn, Corpse, CorpsesBurnt, FinishEsi, Drain
  <2>2. CASE ~main.fin
    BY <1>1, <2>1, <2>2, NobodyBusy, QuietStep
  <2>3. CASE main.fin
    <3>1. /\ main'.fin /\ main'.pc \notin {"select", "finish"}
          /\ executing' = executing
      <4> USE DEF TypeOK, Locals
      <4>1. CASE Burn         BY <2>3, <4>1 DEF Burn, Goto
      <4>2. CASE Corpse       BY <2>3, <4>2 DEF Corpse, SockMyPort
      <4>3. CASE CorpsesBurnt BY <2>3, <4>3 DEF CorpsesBurnt, Goto
      <4>4. CASE FinishEsi    BY <2>3, <4>4 DEF FinishEsi
      <4>5. CASE Drain        BY <2>3, <4>5 DEF Drain
      <4> QED BY <1>3, <4>1, <4>2, <4>3, <4>4, <4>5
    <3> QED BY <1>1, <2>1, <2>3, <3>1, FinishingStep
  <2> QED BY <2>2, <2>3
<1> QED BY <1>2, <1>3

\* Serving the flags keeps the alternation.
LEMMA FlagStepsAlternate ==
  ASSUME TypeOK, Control, Alternate, FlagSteps
  PROVE  Alternate'
<1> USE DEF keyVars, term, world, tables, Goto
<1>1. /\ main.pc \in {"update", "unlock", "unlocking", "news", "block", "filter",
                      "blocking", "leftover", "preempt"}
      /\ UNCHANGED <<esi, open>>
  BY DEF FlagSteps, ServeUpdate, ServeUnlocks, ReleaseByConsole, UnlocksServed, ServeNews,
         BlockExecuting, FilterReady, BlockReady, ReadyBlocked, BlockForSystem,
         BlocksServed, Preempt, Crash
<1>2. \A e \in Fd : ~Busy(e)
  BY <1>1, NobodyBusy DEF Control
<1> QED BY <1>1, <1>2, QuietStep

\* An ESI is authorized only while no sentence is in flight.
LEMMA DispatchAlternate ==
  ASSUME TypeOK, Control, Alternate, DispatchSteps
  PROVE  Alternate'
<1> USE DEF keyVars, term, world, tables
<1>1. /\ main.pc \in {"dispatch", "again", "authorize"}
      /\ \A e \in Fd : ~Busy(e)
  <2>1. main.pc \in {"dispatch", "again", "authorize"}
    BY DEF DispatchSteps, Reschedule, ContinueExecuting, AuthorizeEsiExecution
  <2> QED BY <2>1, NobodyBusy DEF Control
<1>2. CASE UNCHANGED <<esi, open>>
  BY <1>1, <1>2, QuietStep
<1>3. CASE ~UNCHANGED <<esi, open>>
  <2> DEFINE e == main.esi
             r == [esi[e] EXCEPT !.orders = esi[e].orders + 1]
  <2>1. /\ e \in open /\ main.pc = "authorize"
        /\ esi' = [esi EXCEPT ![e] = r] /\ UNCHANGED <<open, queue>> /\ main' = Idle
    BY <1>3 DEF DispatchSteps, Reschedule, ContinueExecuting, AuthorizeEsiExecution,
                SockMyPort, Crash
  <2>2. e \in Fd /\ queue["execution"] # <<>>
    BY <2>1 DEF Control
  <2>3. esi \in [Fd \cup {Ghost} -> Process] /\ esi[e] \in Process /\ Ghost # e
    BY <2>2, ConstantsAssumption DEF TypeOK
  <2>4. esi[e].st = "idle" /\ esi[e].orders = 0
    <3>1. ~Busy(e) /\ esi[e].st # "off"
      BY <1>1, <2>1, <2>2 DEF Alternate
    <3>2. esi[e].st \in Stage /\ esi[e].orders \in Nat
      BY <2>3 DEF Process
    <3> HIDE DEF e
    <3> QED BY <3>1, <3>2 DEF Busy, Stage, InFlight
  <2>5. r.st = "idle" /\ r.orders = 1
    BY <2>3, <2>4 DEF Process
  <2> HIDE DEF e, r
  <2>6. esi'[e] = r /\ \A f \in Fd \cup {Ghost} : f # e => esi'[f] = esi[f]
    BY <2>1, <2>2, <2>3
  <2>7. \A f \in Fd : Busy(f)' => f = e
    BY <1>1, <2>6 DEF Busy
  <2>8. \A f \in Fd : esi'[f].st # "locking"
    BY <2>5, <2>6, <2>7 DEF Busy, InFlight
  <2>9. main'.pc = "select"
    BY <2>1 DEF Idle
  <2> QED BY <2>1, <2>2, <2>3, <2>5, <2>6, <2>7, <2>8, <2>9 DEF Alternate
<1> QED BY <1>2, <1>3

\* The console, and a line that does not parse, keep the alternation.
LEMMA ElsewhereStepsAlternate ==
  ASSUME TypeOK, Control, Alternate, "cut" \notin Failures, ElsewhereSteps
  PROVE  Alternate'
<1> USE DEF keyVars, term, world, tables
<1>1. CASE GoIdle
  <2>1. \A e \in Fd : ~Busy(e)
    BY <1>1, NobodyBusy DEF GoIdle
  <2> QED BY <1>1, <2>1, QuietStep DEF GoIdle
<1>2. CASE Operator \/ AddRequest \/ TogglePause
  <2>1. UNCHANGED <<esi, open, main, executing, locked, lastKey, queue>>
    BY <1>2 DEF Operator, TypeCommand, AddRequest, TogglePause
  <2> QED BY <2>1, ElsewhereAlternate
<1>3. ASSUME NEW e \in Fd, InvalidLine(e)
      PROVE  Alternate'
  <2> DEFINE r == [esi[e] EXCEPT !.st = "gone"]
  <2>1. /\ esi[e].st = "idle" /\ esi[e].orders > 0
        /\ UNCHANGED <<main, open, queue>>
    BY <1>3 DEF InvalidLine
  <2>2. Busy(e) /\ esi[e].orders = 1 /\ main.pc = "select"
    BY <2>1 DEF Busy, Alternate
  <2>3. esi' = [esi EXCEPT ![e] = r]
    <3>1. e # Ghost
      BY ConstantsAssumption
    <3> QED BY <1>3, <3>1 DEF InvalidLine, Advance
  <2>4. r.st = "gone" /\ r.orders = 1
    <3>1. esi[e] \in Process
      BY DEF TypeOK
    <3> QED BY <2>2, <3>1 DEF Process
  <2> HIDE DEF r
  <2> QED BY <2>1, <2>2, <2>3, <2>4, ConversationMoves
<1>4. ~ \E e \in Fd : EsiCut(e)
  BY DEF EsiCut
<1> QED BY <1>1, <1>2, <1>3, <1>4 DEF ElsewhereSteps

\* At the start no sentence is in flight and the configured keys are distinct.
LEMMA InitAlternate == Init => Alternate /\ OneOwner
<1> SUFFICES ASSUME Init PROVE Alternate /\ OneOwner
  OBVIOUS
<1>1. \A e \in Fd : ~Busy(e)
  BY DEF Init, Busy, NoProcess, InFlight
<1>2. Alternate
  BY <1>1 DEF Init, Alternate, NoProcess, Idle
<1>3. OneOwner
  BY ConstantsAssumption DEF Init, OneOwner
<1> QED BY <1>2, <1>3

\* Every step keeps the alternation.
LEMMA NextAlternate ==
  ASSUME TypeOK, Control, Alternate, "cut" \notin Failures, [Next]_vars
  PROVE  Alternate'
<1>1. CASE UNCHANGED vars
  BY <1>1, ElsewhereAlternate DEF vars, tables, keyVars, term, world
<1>2. CASE \E e \in Fd : Accept(e) \/ AcceptWithoutHandshake(e)
  BY <1>2, ArriveAlternate DEF Accept, AcceptWithoutHandshake
<1>3. CASE \E e \in Fd : Sentence(e)
  BY <1>3, SentenceAlternate
<1>4. CASE \E s \in Fd \cup {Ghost} : Conversation(s)
  BY <1>4, ConversationAlternate
<1>5. CASE EsiEvents
  BY <1>5, EsiEventsAlternate
<1>6. CASE UninitialisedOpcode \/ ReleaseKey \/ ReleaseEnd
  BY <1>6, ReleaseAlternate
<1>7. CASE Burn \/ Corpse \/ CorpsesBurnt \/ FinishEsi \/ EsiFinished \/ Drain
  BY <1>7, BurnAlternate
<1>8. CASE FlagSteps
  BY <1>8, FlagStepsAlternate
<1>9. CASE DispatchSteps
  BY <1>9, DispatchAlternate
<1>10. CASE ElsewhereSteps
  BY <1>10, ElsewhereStepsAlternate
<1> QED BY <1>1, <1>2, <1>3, <1>4, <1>5, <1>6, <1>7, <1>8, <1>9, <1>10
        DEF Next, Steps, FlagSteps, DispatchSteps, ElsewhereSteps

\* One sentence at a time, and one owner per key: however the console's bloquear,
\* desbloquear and kill and the death of ESIs between two sentences interleave with
\* the coordinator's "is this key blocked?" and "block this key", no key gets a second
\* owner.  A process killed in the middle of its sentence is excluded: then the
\* coordinator's question outlives it and the alternation is lost.
THEOREM OneOwnerCorrect ==
  ASSUME "cut" \notin Failures
  PROVE  Spec => [](Alternate /\ OneOwner)
<1> DEFINE IInv == TypeOK /\ Control /\ Alternate /\ OneOwner
<1>1. Init => IInv
  BY InitCorrect, InitAlternate
<1>2. IInv /\ [Next]_vars => IInv'
  <2> SUFFICES ASSUME IInv, [Next]_vars PROVE IInv'
    OBVIOUS
  <2>1. TypeOK' /\ Control'
    BY NextCorrect
  <2>2. Alternate'
    BY NextAlternate
  <2>3. OneOwner'
    BY NextLocks, LocksStepKeepsOneOwner
  <2> QED BY <2>1, <2>2, <2>3
<1>3. IInv => Alternate /\ OneOwner
  OBVIOUS
<1> HIDE DEF IInv
<1> QED BY <1>1, <1>2, <1>3, PTL DEF Spec

-----------------------------------------------------------------------------
(* Refinement: the table of locked keys implements KeyLocks *)

\* list_find by key finds an entry of that key, if there is one.
LEMMA FirstOfKeyHas ==
  ASSUME NEW S, NEW s \in Seq(S), NEW k, \E i \in 1..Len(s) : s[i].key = k
  PROVE  FirstOfKey(s, k) \in 1..Len(s) /\ s[FirstOfKey(s, k)].key = k
<1> DEFINE I == {i \in 1..Len(s) : s[i].key = k}
<1>1. Min(I) \in I
  <2>1. Len(s) \in Nat /\ I \in SUBSET (1..Len(s)) /\ I # {}
    BY LenProperties
  <2> HIDE DEF I
  <2> QED BY <2>1, MinIndex
<1>2. FirstOfKey(s, k) = Min(I)
  BY DEF SelectInSeq, FirstOfKey
<1> QED BY <1>1, <1>2

\* The owner of k according to a list of claims: that of the only entry of k.
OwnerIn(s, k) ==
    IF \E i \in DOMAIN s : s[i].key = k THEN s[FirstOfKey(s, k)].esi ELSE Freed

LEMMA OwnerOfEntry ==
  ASSUME NEW s \in Seq(Claim), Distinct(s), NEW i \in 1..Len(s)
  PROVE  OwnerIn(s, s[i].key) = s[i].esi
<1>1. DOMAIN s = 1..Len(s)
  BY LenProperties
<1> DEFINE j == FirstOfKey(s, s[i].key)
<1>2. j \in 1..Len(s) /\ s[j].key = s[i].key
  BY FirstOfKeyHas
<1> HIDE DEF j
<1>3. j = i
  BY <1>1, <1>2 DEF Distinct
<1> QED BY <1>1, <1>3 DEF OwnerIn, j

LEMMA OwnerOfNone ==
  ASSUME NEW s \in Seq(Claim), NEW k, \A i \in 1..Len(s) : s[i].key # k
  PROVE  OwnerIn(s, k) = Freed
BY LenProperties DEF OwnerIn

\* An entry that goes frees its key and changes the owner of no other.
LEMMA RemovalFrees ==
  ASSUME NEW s \in Seq(Claim), Distinct(s), NEW i \in 1..Len(s), NEW k
  PROVE  OwnerIn(RemoveAt(s, i), k) = IF k = s[i].key THEN Freed ELSE OwnerIn(s, k)
<1> DEFINE r == RemoveAt(s, i)
<1>1. /\ r \in Seq(Claim) /\ Len(r) = Len(s) - 1
      /\ \A j \in 1..(Len(s) - 1) : r[j] = IF j < i THEN s[j] ELSE s[j + 1]
  BY RemoveAtElements
<1>2. Distinct(r)
  BY ThinnedDistinct DEF Thinned
<1>3. Len(s) \in Nat /\ DOMAIN s = 1..Len(s)
  BY LenProperties
<1> HIDE DEF r
<1>4. CASE k = s[i].key
  <2>1. ASSUME NEW j \in 1..Len(r) PROVE r[j].key # k
    <3>1. CASE j < i
      <4>1. r[j] = s[j] /\ j \in DOMAIN s /\ i \in DOMAIN s /\ j # i
        BY <1>1, <1>3, <3>1
      <4> QED BY <1>4, <4>1 DEF Distinct
    <3>2. CASE ~(j < i)
      <4>1. r[j] = s[j + 1] /\ j + 1 \in DOMAIN s /\ i \in DOMAIN s /\ j + 1 # i
        BY <1>1, <1>3, <3>2
      <4> QED BY <1>4, <4>1 DEF Distinct
    <3> QED BY <3>1, <3>2
  <2> QED BY <1>1, <1>4, <2>1, OwnerOfNone DEF r
<1>5. CASE k # s[i].key /\ \E j \in 1..Len(s) : s[j].key = k
  <2>1. PICK j \in 1..Len(s) : s[j].key = k
    BY <1>5
  <2>2. j # i
    BY <1>5, <2>1
  <2>3. PICK n \in 1..Len(r) : r[n] = s[j]
    <3>1. CASE j < i
      BY <1>1, <1>3, <3>1
    <3>2. CASE i < j
      <4>1. j - 1 \in 1..Len(r) /\ r[j - 1] = s[j]
        BY <1>1, <1>3, <3>2
      <4> QED BY <4>1
    <3> QED BY <1>3, <2>2, <3>1, <3>2
  <2>4. OwnerIn(r, k) = s[j].esi
    BY <1>1, <1>2, <2>1, <2>3, OwnerOfEntry
  <2>5. OwnerIn(s, k) = s[j].esi
    BY <2>1, OwnerOfEntry
  <2> QED BY <1>5, <2>4, <2>5 DEF r
<1>6. CASE k # s[i].key /\ \A j \in 1..Len(s) : s[j].key # k
  <2>1. ASSUME NEW j \in 1..Len(r) PROVE r[j].key # k
    <3>1. (j < i => r[j] = s[j] /\ j \in 1..Len(s))
          /\ (~(j < i) => r[j] = s[j + 1] /\ j + 1 \in 1..Len(s))
      BY <1>1, <1>3
    <3> QED BY <1>6, <3>1
  <2> QED BY <1>1, <1>6, <2>1, OwnerOfNone DEF r
<1> QED BY <1>4, <1>5, <1>6

\* An entry for a free key gives that key its owner and changes that of no other.
LEMMA AdditionTakes ==
  ASSUME NEW s \in Seq(Claim), Distinct(s), NEW c \in Claim, NEW k,
         \A i \in DOMAIN s : s[i].key # c.key
  PROVE  OwnerIn(Append(s, c), k) = IF k = c.key THEN c.esi ELSE OwnerIn(s, k)
<1> DEFINE t == Append(s, c)
<1>1. /\ t \in Seq(Claim) /\ Len(t) = Len(s) + 1
      /\ \A i \in 1..Len(s) : t[i] = s[i]
      /\ t[Len(s) + 1] = c
  BY AppendProperties
<1>2. Distinct(t)
  BY AppendDistinct
<1>3. Len(s) \in Nat
  BY LenProperties
<1> HIDE DEF t
<1>4. CASE k = c.key
  <2>1. OwnerIn(t, t[Len(s) + 1].key) = t[Len(s) + 1].esi
    BY <1>1, <1>2, <1>3, OwnerOfEntry
  <2> QED BY <1>1, <1>4, <2>1 DEF t
<1>5. CASE k # c.key /\ \E j \in 1..Len(s) : s[j].key = k
  <2>1. PICK j \in 1..Len(s) : s[j].key = k
    BY <1>5
  <2>2. j \in 1..Len(t) /\ t[j] = s[j]
    BY <1>1, <1>3, <2>1
  <2> QED BY <1>1, <1>2, <1>5, <2>1, <2>2, OwnerOfEntry DEF t
<1>6. CASE k # c.key /\ \A j \in 1..Len(s) : s[j].key # k
  <2>1. \A j \in 1..Len(t) : t[j].key # k
    BY <1>1, <1>3, <1>6
  <2> QED BY <1>1, <1>6, <2>1, OwnerOfNone, ZenonT(60) DEF t
<1> QED BY <1>4, <1>5, <1>6

\* What the abstract state is.
LEMMA OwnerMap == \A k : OwnerOf(k) = OwnerIn(locked, k)
BY DEF OwnerOf, OwnerIn, Locked

LEMMA OwnerMapNext == \A k : OwnerOf(k)' = OwnerIn(locked', k)
BY DEF OwnerOf, OwnerIn, Locked

\* The keys of the configuration are the system's at the start.
LEMMA InitLocks == Init => Locks!Init
<1> SUFFICES ASSUME Init PROVE Locks!Init
  OBVIOUS
<1>1. locked \in Seq(Claim) /\ Distinct(locked)
  BY InitCorrect, InitAlternate DEF TypeOK, OneOwner, Distinct
<1>2. /\ Len(locked) = Len(ConfigKeys)
      /\ \A i \in 1..Len(locked) : locked[i].esi = NoEsi /\ locked[i].key = ConfigKeys[i]
  BY ConstantsAssumption DEF Init
<1>3. ASSUME NEW k \in Key
      PROVE  OwnerOf(k) = IF k \in ToSet(ConfigKeys) THEN NoEsi ELSE Freed
  <2>1. k \in ToSet(ConfigKeys) <=> \E i \in 1..Len(locked) : locked[i].key = k
    BY <1>2, ConstantsAssumption DEF ToSet
  <2>2. CASE \E i \in 1..Len(locked) : locked[i].key = k
    BY <1>1, <1>2, <2>1, <2>2, OwnerOfEntry, OwnerMap
  <2>3. CASE \A i \in 1..Len(locked) : locked[i].key # k
    BY <1>1, <2>1, <2>3, OwnerOfNone, OwnerMap
  <2> QED BY <2>2, <2>3
<1> QED BY <1>3 DEF Locks!Init

\* Every step takes a free key, gives one back, or leaves all owners as they are.
LEMMA LocksStepImplements ==
  ASSUME TypeOK, OneOwner, LocksStep
  PROVE  [Locks!Next]_([k \in Key |-> OwnerOf(k)])
<1>1. locked \in Seq(Claim) /\ Distinct(locked)
  BY DEF TypeOK, OneOwner, Distinct
<1> DEFINE owner == [k \in Key |-> OwnerIn(locked, k)]
           next == [k \in Key |-> OwnerIn(locked', k)]
<1>2. /\ [k \in Key |-> OwnerOf(k)] = owner
      /\ [k \in Key |-> OwnerOf(k)]' = next
  BY OwnerMap, OwnerMapNext
<1> SUFFICES \/ next = owner
             \/ \E k \in Key :
                   \/ owner[k] # Freed /\ next = [owner EXCEPT ![k] = Freed]
                   \/ \E o \in AnyEsi : owner[k] = Freed /\ next = [owner EXCEPT ![k] = o]
  BY <1>2 DEF Locks!Next, Locks!GiveBack, Locks!Take
<1>3. CASE locked' = locked
  BY <1>3
<1>4. CASE \E i \in 1..Len(locked) : locked' = RemoveAt(locked, i)
  <2>1. PICK i \in 1..Len(locked) : locked' = RemoveAt(locked, i)
    BY <1>4
  <2> DEFINE c == locked[i]
  <2>2. c \in Claim /\ OwnerIn(locked, c.key) = c.esi
    BY <1>1, OwnerOfEntry
  <2>3. c.esi # Freed
    BY <2>2, ConstantsAssumption DEF Claim, AnyEsi
  <2>4. \A k \in Key : next[k] = IF k = c.key THEN Freed ELSE owner[k]
    BY <1>1, <2>1, RemovalFrees
  <2> HIDE DEF c
  <2>5. CASE c.key \in Key
    <3>1. owner[c.key] # Freed
      BY <2>2, <2>3, <2>5
    <3>2. next = [owner EXCEPT ![c.key] = Freed]
      BY <2>4
    <3> QED BY <2>5, <3>1, <3>2
  <2>6. CASE c.key \notin Key
    BY <2>4, <2>6
  <2> QED BY <2>5, <2>6
<1>5. CASE \E c \in Claim : ~Locked(c.key) /\ locked' = Append(locked, c)
  <2>1. PICK c \in Claim : ~Locked(c.key) /\ locked' = Append(locked, c)
    BY <1>5
  <2>2. OwnerIn(locked, c.key) = Freed
    BY <2>1 DEF Locked, OwnerIn
  <2>3. \A k \in Key : next[k] = IF k = c.key THEN c.esi ELSE owner[k]
    BY <1>1, <2>1, AdditionTakes DEF Locked
  <2>4. c.esi \in AnyEsi
    BY DEF Claim
  <2>5. CASE c.key \in Key
    <3>1. owner[c.key] = Freed
      BY <2>2, <2>5
    <3>2. next = [owner EXCEPT ![c.key] = c.esi]
      BY <2>3
    <3> QED BY <2>4, <2>5, <3>1, <3>2
  <2>6. CASE c.key \notin Key
    BY <2>3, <2>6
  <2> QED BY <2>5, <2>6
<1> QED BY <1>3, <1>4, <1>5 DEF LocksStep, Thinned

\* g_locked_keys implements KeyLocks: seen from outside the scheduler, a key is taken
\* only while it is free and given back before anybody else takes it, through every
\* handler that writes the table.
THEOREM LocksImplemented ==
  ASSUME "cut" \notin Failures
  PROVE  Spec => ImplementsKeyLocks
<1> DEFINE IInv == TypeOK /\ Control /\ Alternate /\ OneOwner
<1>1. Init => IInv /\ Locks!Init
  BY InitCorrect, InitAlternate, InitLocks
<1>2. IInv /\ [Next]_vars => IInv' /\ [Locks!Next]_([k \in Key |-> OwnerOf(k)])
  <2> SUFFICES ASSUME IInv, [Next]_vars
               PROVE  IInv' /\ [Locks!Next]_([k \in Key |-> OwnerOf(k)])
    OBVIOUS
  <2>1. TypeOK' /\ Control'
    BY NextCorrect
  <2>2. Alternate'
    BY NextAlternate
  <2>3. LocksStep
    BY NextLocks
  <2>4. OneOwner'
    BY <2>3, LocksStepKeepsOneOwner
  <2>5. [Locks!Next]_([k \in Key |-> OwnerOf(k)])
    BY <2>3, LocksStepImplements
  <2> QED BY <2>1, <2>2, <2>4, <2>5
<1> HIDE DEF IInv
<1> QED BY <1>1, <1>2, PTL DEF Spec, ImplementsKeyLocks, Locks!Spec

=============================================================================
