---------------------- MODULE PlanificadorQueues_proofs ----------------------
(***************************************************************************)
(* Proofs about the queues of the scheduler and what depends on them, for  *)
(* any number of ESIs, keys, connections and console commands.  Each       *)
(* invariant is inductive together with those before it:                   *)
(*   ExecInv    who executes, and where main() goes     OneExecuting       *)
(*   Talks      only the executing ESI has a sentence   (part of Steady)   *)
(*   QueueInv   queues are apart, waiters are blocked   OneQueue,          *)
(*                                                      BlockedIffExpecting*)
(*   Owners     keys of who is gone or being buried     OwnersAlive        *)
(*   Stores     the key of a STORE and its announcement StoreReleases      *)
(*   Waking     who sleeps, and who will wake it        NoLostWakeup       *)
(*   Surviving  what is dereferenced is there           NeverCrashes       *)
(* The program breaks each of these properties in some circumstances: a    *)
(* failed handshake, a process that is cut, SJFCD, kill, bloquear.  The    *)
(* conditions of a theorem (Unbroken, Orderly, Undisturbed, Calm,          *)
(* Faultless) name those it leaves out, and none of them bounds anything.  *)
(***************************************************************************)
EXTENDS Planificador_proofs

-----------------------------------------------------------------------------
(* The execution queue *)

\* list_remove on a list of at most one element.
LEMMA RemoveFromOne ==
  ASSUME NEW x \in Fd, NEW y, NEW s \in {<<>>, <<x>>}
  PROVE  /\ RemoveFirst(s, y) \in {s, <<>>}
         /\ y = x => RemoveFirst(s, y) = <<>>
         /\ y # x => RemoveFirst(s, y) = s
<1>1. CASE s = <<>>
  <2>1. s \in Seq(Fd) /\ 1..Len(s) = {}
    BY <1>1
  <2>2. RemoveFirst(s, y) = s
    <3> HIDE <1>1
    <3> QED BY <2>1, RemoveFirstTakes
  <2> QED BY <1>1, <2>2
<1>2. CASE s = <<x>>
  <2>1. s \in Seq(Fd) /\ Len(s) = 1 /\ s[1] = x
    BY <1>2
  <2>2. RemoveAt(s, 1) = <<>>
    <3>1. RemoveAt(s, 1) \in Seq(Fd) /\ Len(RemoveAt(s, 1)) = 0
      BY <2>1, RemoveAtElements
    <3> QED BY <3>1, EmptySeq
  <2>3. \A i \in 1..Len(s) : s[i] = x /\ RemoveAt(s, i) = <<>>
    BY <2>1, <2>2
  <2>4. 1 \in 1..Len(s) /\ s[1] = x
    BY <2>1
  <2>5. \/ (\A i \in 1..Len(s) : s[i] # y) /\ RemoveFirst(s, y) = s
        \/ \E i \in 1..Len(s) : s[i] = y /\ RemoveFirst(s, y) = RemoveAt(s, i)
    BY <2>1, RemoveFirstTakes
  <2> QED BY <2>3, <2>4, <2>5
<1> QED BY <1>1, <1>2

\* Adding to an empty list, and reading the only element.
LEMMA OneElement ==
  ASSUME NEW x \in Fd
  PROVE  Append(<<>>, x) = <<x>> /\ Head(<<x>>) = x /\ <<x>> # <<>> /\ <<x>> \in Seq(Fd)
OBVIOUS

\* Every ESI that is connected has one entry of its own in g_esi_bursts.
OneEntryEach == \A e \in Fd : info[e] = IF e \in open THEN 1 ELSE 0

\* The ESI the execution queue is about: executing_esi is set by the return of the
\* authorization that put another ESI in the queue.
Turn == IF main.pc = "authorize" /\ main.outer # NoEsi THEN main.esi ELSE executing

\* The execution queue is empty or has the ESI whose turn it is, which is connected
\* until release_resources has buried it.
Executes ==
    /\ queue["execution"] = <<>> \/ queue["execution"] = <<Turn>>
    /\ queue["execution"] # <<>> => Turn \in open \/ main.pc = "finish"
    /\ main.pc = "release" /\ main.after # "finish" => queue["execution"] # <<main.esi>>
    /\ main.pc = "opcode" \/ (main.pc = "release" /\ main.after = "opcode")
           => queue["execution"] = <<>>
    /\ main.pc = "authorize" => queue["execution"] = <<main.esi>>

\* An authorization never fails, so reschedule never runs inside itself; and nobody
\* is killed by an operator who does not use the command.
Routes ==
    /\ main.outer = NoEsi \/ (main.pc = "authorize" /\ main.outer = main.esi)
    /\ main.pc # "again" /\ (main.pc = "release" => main.after # "again")
    /\ "kill" \notin Commands =>
           /\ ~flag.killed /\ main.pc # "corpses"
           /\ main.pc = "release" => main.after # "corpses"

FlagLabels == {"update", "unlock", "unlocking", "news", "block", "filter", "blocking",
               "leftover", "preempt"}

\* While an ESI executes, the reschedule flag is up only between a new ESI or a
\* finished script and the line of main() that empties the execution queue.
Rescheduling ==
    queue["execution"] # <<>> =>
        /\ main.ctx = "idle" => main.pc \in {"select", "authorize"}
        /\ flag.reschedule =>
               \/ main.fin
               \/ main.pc = "authorize" /\ main.outer # NoEsi
               \/ /\ Preemptive
                  /\ \/ main.pc \in {"select", "burn", "corpses", "drain"} /\ flag.new
                     \/ main.pc \in FlagLabels

ExecInv == OneEntryEach /\ Executes /\ Routes /\ Rescheduling

\* The two failures of the program that break it: the ESI whose handshake failed stays
\* in a queue, and a preemptive kill raises the flag after it was looked at.
Unbroken ==
    /\ "handshake" \notin Failures
    /\ Algorithm # "SJFCD" \/ "kill" \notin Commands

\* A queue in which nobody but x may be, read from the invariant.
LEMMA ExecutionType ==
  ASSUME TypeOK, Executes, queue["execution"] # <<>>
  PROVE  Turn \in Fd /\ queue["execution"] = <<Turn>> /\ Head(queue["execution"]) = Turn
<1>1. queue["execution"] \in Seq(Fd) /\ queue["execution"] = <<Turn>>
  BY DEF TypeOK, QueueName, Executes
<1>2. Head(queue["execution"]) \in Fd /\ Head(queue["execution"]) = Turn
  BY <1>1, HeadTailProperties
<1> QED BY <1>1, <1>2

\* Steps that leave alone what the invariant reads.
LEMMA StillExecutes ==
  ASSUME TypeOK, ExecInv, UNCHANGED <<main, executing, open, info>>,
         queue'["execution"] = queue["execution"],
         flag'.reschedule = flag.reschedule, flag'.new = flag.new,
         flag'.killed => flag.killed \/ "kill" \in Commands
  PROVE  ExecInv'
BY DEF ExecInv, OneEntryEach, Executes, Turn, Routes, Rescheduling

\* An ESI connects.
LEMMA ArriveExec ==
  ASSUME TypeOK, Control, ExecInv, Unbroken, NEW e \in Fd,
         Accept(e) \/ AcceptWithoutHandshake(e)
  PROVE  ExecInv'
<1> USE DEF keyVars, term, world, tables
<1>1. ArriveEsi(e, TRUE)
  BY DEF Accept, AcceptWithoutHandshake, Unbroken
<1>2. /\ main.pc = "select" /\ UNCHANGED <<main, executing>>
      /\ open' = open \cup {e} /\ e \notin open
      /\ info' = [info EXCEPT ![e] = @ + 1]
      /\ queue'["execution"] = queue["execution"]
      /\ flag' = [flag EXCEPT !.new = TRUE, !.reschedule = @ \/ Preemptive]
  BY <1>1 DEF ArriveEsi, TypeOK, QueueName
<1>3. flag'.new /\ (flag'.reschedule => flag.reschedule \/ Preemptive)
      /\ flag'.killed = flag.killed
  BY <1>2 DEF TypeOK, FlagName
<1>4. OneEntryEach'
  BY <1>2 DEF ExecInv, OneEntryEach, TypeOK
<1>5. Executes'
  BY <1>2 DEF ExecInv, Executes, Turn
<1>6. Routes'
  BY <1>2, <1>3 DEF ExecInv, Routes
<1>7. Rescheduling'
  BY <1>2, <1>3 DEF ExecInv, Rescheduling, Routes
<1> QED BY <1>4, <1>5, <1>6, <1>7 DEF ExecInv

\* sock_my_port: the ESI leaves the execution queue, too.
LEMMA SockMyPortExec ==
  ASSUME TypeOK, Control, ExecInv, Unbroken, ~Crash, NEW e, NEW i,
         \/ /\ main.pc = "select" /\ SockMyPort(executing, "opcode", i) /\ e = executing
         \/ /\ main.pc = "corpses" /\ SockMyPort(e, "corpses", i)
  PROVE  ExecInv'
<1> USE DEF keyVars, term, world, tables
<1>1. PICK after \in {"opcode", "corpses"} :
        /\ SockMyPort(e, after, i)
        /\ after = "opcode" => e = executing /\ main.pc = "select"
        /\ after = "corpses" => main.pc = "corpses"
  OBVIOUS
<1>2. /\ queue'["execution"] = RemoveFirst(queue["execution"], e)
      /\ main' = [main EXCEPT !.pc = "release", !.esi = e, !.after = after,
                              !.snap = locked, !.i = i]
      /\ UNCHANGED <<executing, open, info, flag>> /\ e \in Fd
  BY <1>1 DEF SockMyPort, QueueName, Known
<1>3. /\ main'.pc = "release" /\ main'.esi = e /\ main'.after = after
      /\ main'.fin = main.fin /\ main'.ctx = main.ctx /\ main'.outer = main.outer
  BY <1>2 DEF TypeOK, Locals
<1>4. main.outer = NoEsi /\ Turn = executing /\ Turn' = executing
  BY <1>1, <1>2, <1>3 DEF ExecInv, Routes, Turn
<1>5. /\ queue'["execution"] \in {queue["execution"], <<>>}
      /\ queue'["execution"] # <<e>>
      /\ e = executing => queue'["execution"] = <<>>
  <2>1. CASE queue["execution"] = <<>>
    <3>1. queue'["execution"] = <<>>
      BY <1>2, <2>1, RemoveFromOne
    <3> QED BY <1>2, <2>1, <3>1, OneElement
  <2>2. CASE queue["execution"] # <<>>
    <3>1. executing \in Fd /\ queue["execution"] = <<executing>>
      BY <2>2, <1>4, ExecutionType DEF ExecInv
    <3>2. queue["execution"] \in {<<>>, <<executing>>}
      BY <3>1
    <3>3. e = executing => queue'["execution"] = <<>>
      BY <1>2, <3>1, <3>2, RemoveFromOne
    <3>4. e # executing => queue'["execution"] = <<executing>>
      BY <1>2, <3>1, <3>2, RemoveFromOne
    <3>5. e # executing => <<executing>> # <<e>>
      <4>1. <<executing>>[1] = executing /\ <<e>>[1] = e
        OBVIOUS
      <4> QED BY <4>1
    <3>6. <<>> # <<e>>
      BY <1>2, OneElement
    <3> QED BY <3>1, <3>3, <3>4, <3>5, <3>6
  <2> QED BY <2>1, <2>2
<1>6. OneEntryEach'
  BY <1>2 DEF ExecInv, OneEntryEach
<1>7. Executes'
  BY <1>1, <1>2, <1>3, <1>4, <1>5 DEF ExecInv, Executes
<1>8. Routes'
  BY <1>1, <1>2, <1>3 DEF ExecInv, Routes
<1>9. Rescheduling'
  <2>1. CASE after = "opcode"
    BY <1>1, <1>5, <2>1 DEF Rescheduling
  <2>2. CASE after = "corpses"
    <3>1. main.pc = "corpses"
      BY <1>1, <2>2
    <3>2. "kill" \in Commands
      BY <3>1 DEF ExecInv, Routes
    <3> QED BY <1>2, <1>3, <1>5, <3>1, <3>2, <2>2 DEF ExecInv, Rescheduling, Unbroken, Preemptive
  <2> QED BY <2>1, <2>2
<1> QED BY <1>6, <1>7, <1>8, <1>9 DEF ExecInv

\* The executing ESI answers, or its socket reports end of file.
LEMMA EsiEventsExec ==
  ASSUME TypeOK, Control, ExecInv, Unbroken, ~Crash, EsiEvents
  PROVE  ExecInv'
<1> USE DEF keyVars, term, world, tables
<1>1. ASSUME NEW finish \in BOOLEAN, ExecutionSuccess(finish)
      PROVE  ExecInv'
  <2>1. /\ main.pc = "select"
        /\ main' = [main EXCEPT !.pc = "burn", !.ctx = "result", !.fin = finish]
        /\ UNCHANGED <<executing, open, info, queue>>
    BY <1>1 DEF ExecutionSuccess, FromExecutingEsi
  <2>2. /\ main'.pc = "burn" /\ main'.ctx = "result" /\ main'.fin = finish
        /\ main'.outer = main.outer /\ main'.esi = main.esi
    BY <2>1 DEF TypeOK, Locals
  <2>3. /\ flag.new => flag'.new
        /\ flag'.killed = flag.killed
        /\ ~finish => (flag'.reschedule => flag.reschedule)
    BY <1>1 DEF ExecutionSuccess, WhenOthersReady, TypeOK, FlagName
  <2>4. ~main.fin
    BY <2>1 DEF Control, Idle
  <2>5. OneEntryEach'
    BY <2>1 DEF ExecInv, OneEntryEach
  <2>6. Executes' /\ Routes'
    BY <2>1, <2>2, <2>3 DEF ExecInv, Executes, Routes, Turn
  <2>7. Rescheduling'
    <3>1. CASE finish
      BY <2>1, <2>2, <3>1 DEF Rescheduling
    <3>2. CASE ~finish
      BY <2>1, <2>2, <2>3, <2>4, <3>2 DEF ExecInv, Rescheduling, Routes, FlagLabels
    <3> QED BY <3>1, <3>2
  <2> QED BY <2>5, <2>6, <2>7 DEF ExecInv
<1>2. CASE IAmBlocked
  <2>1. /\ main.pc = "select" /\ executing \in Fd
        /\ main' = [main EXCEPT !.pc = "burn", !.ctx = "result"]
        /\ UNCHANGED <<executing, open, info>>
        /\ queue' = MoveEsi("execution", "blocked", executing)
        /\ flag' = WhenOthersReady(flag)
    BY <1>2 DEF IAmBlocked, FromExecutingEsi, TypeOK
  <2>2. /\ main'.pc = "burn" /\ main'.outer = main.outer
    BY <2>1 DEF TypeOK, Locals
  <2>3. Turn = executing
    BY <2>1 DEF Turn
  <2>4. queue'["execution"] = <<>>
    <3>1. queue'["execution"] = RemoveFirst(queue["execution"], executing)
      BY <2>1 DEF MoveEsi, TypeOK, QueueName
    <3>2. queue["execution"] \in {<<>>, <<executing>>}
      BY <2>3 DEF ExecInv, Executes
    <3> QED BY <2>1, <3>1, <3>2, RemoveFromOne
  <2>5. OneEntryEach'
    BY <2>1 DEF ExecInv, OneEntryEach
  <2>6. flag'.killed = flag.killed
    BY <2>1 DEF WhenOthersReady, TypeOK, FlagName
  <2> QED BY <2>1, <2>2, <2>4, <2>5, <2>6 DEF ExecInv, Executes, Routes, Rescheduling
<1>3. CASE ExecutionFailure
  BY <1>3, SockMyPortExec DEF ExecutionFailure, FromExecutingEsi
<1> QED BY <1>1, <1>2, <1>3 DEF EsiEvents

\* update_blocked_esi_queue does not touch the execution queue; it may raise the
\* reschedule flag.
LEMMA UpdateExec ==
  ASSUME TypeOK, NEW k, NEW slot \in {"update", "unlock"}, NEW was \in BOOLEAN,
         ~WakesStranger(k), UpdateBlockedEsiQueue(k, slot, was)
  PROVE  /\ queue'["execution"] = queue["execution"]
         /\ flag'.new = flag.new /\ flag'.killed = flag.killed
         /\ flag'.block = flag.block
         /\ flag'.reschedule => flag.reschedule \/ Preemptive
<1>1. queue'["execution"] = queue["execution"]
  BY UpdateType DEF QueueName
<1>2. CASE WaiterOf(k) = 0
  BY <1>1, <1>2 DEF UpdateBlockedEsiQueue, TypeOK, FlagName
<1>3. CASE WaiterOf(k) # 0
  <2> DEFINE f == [flag EXCEPT ![slot] = FALSE]
  <2>1. f \in [FlagName -> BOOLEAN] /\ f.new = flag.new /\ f.killed = flag.killed
        /\ f.block = flag.block
        /\ f.reschedule = flag.reschedule
    BY DEF TypeOK, FlagName
  <2>2. flag' = [f EXCEPT !["reschedule"] = f["reschedule"] \/ Preemptive]
    BY <1>3 DEF UpdateBlockedEsiQueue
  <2> HIDE DEF f
  <2>3. flag'["new"] = f["new"] /\ flag'["killed"] = f["killed"]
        /\ flag'["block"] = f["block"]
        /\ flag'["reschedule"] = (f["reschedule"] \/ Preemptive)
    BY <2>1, <2>2, Zenon DEF FlagName
  <2> QED BY <1>1, <2>1, <2>3
<1> QED BY <1>2, <1>3

\* release_resources, and what main() does with the opcode it did not read.
LEMMA ReleaseExec ==
  ASSUME TypeOK, Control, ExecInv, Unbroken, ~Crash,
         UninitialisedOpcode \/ ReleaseKey \/ ReleaseEnd
  PROVE  ExecInv'
<1> USE DEF keyVars, term, world, tables
<1>1. CASE UninitialisedOpcode
  <2>1. /\ main.pc = "opcode" /\ UNCHANGED <<executing, open, info, queue, flag>>
        /\ main' = [main EXCEPT !.pc = "burn", !.ctx = "result"]
    BY <1>1 DEF UninitialisedOpcode
  <2>2. main'.pc = "burn" /\ main'.outer = main.outer
    BY <2>1 DEF TypeOK, Locals
  <2> QED BY <2>1, <2>2 DEF ExecInv, OneEntryEach, Executes, Routes, Rescheduling
<1>2. CASE ReleaseKey
  <2>1. PICK i \in DOMAIN main.snap :
            /\ ~WakesStranger(main.snap[i].key)
            /\ UpdateBlockedEsiQueue(main.snap[i].key, "update", TRUE)
            /\ main' = [main EXCEPT !.snap = SubSeq(main.snap, i + 1, Len(main.snap))]
            /\ UNCHANGED <<alive, finished, info, executing, keyVars, req, term, world>>
    BY <1>2 DEF ReleaseKey
  <2>2. /\ main.pc = "release" /\ main'.pc = main.pc /\ main'.esi = main.esi
        /\ main'.after = main.after /\ main'.outer = main.outer
        /\ main'.fin = main.fin /\ main'.ctx = main.ctx
    BY <1>2, <2>1 DEF ReleaseKey, TypeOK, Locals
  <2>3. /\ queue'["execution"] = queue["execution"]
        /\ flag'.new = flag.new /\ flag'.killed = flag.killed
        /\ flag'.reschedule => flag.reschedule \/ Preemptive
    BY <2>1, UpdateExec
  <2>4. OneEntryEach' /\ Executes' /\ Routes'
    BY <2>1, <2>2, <2>3 DEF ExecInv, OneEntryEach, Executes, Routes, Turn
  <2>5. main.after \in {"opcode", "corpses", "finish"}
    BY <2>2 DEF Control, ExecInv, Routes
  <2>6. Rescheduling'
    <3>1. CASE main.after = "finish"
      BY <2>2, <2>3, <3>1 DEF Control, ExecInv, Rescheduling
    <3>2. CASE main.after = "opcode"
      BY <2>2, <2>3, <3>2, <2>4 DEF Executes, Rescheduling
    <3>3. CASE main.after = "corpses"
      <4>1. ~Preemptive
        BY <2>2, <3>3 DEF ExecInv, Routes, Unbroken, Preemptive
      <4> QED BY <2>2, <2>3, <4>1, <3>3 DEF ExecInv, Rescheduling, FlagLabels
    <3> QED BY <2>5, <3>1, <3>2, <3>3
  <2> QED BY <2>4, <2>6 DEF ExecInv
<1>3. CASE ReleaseEnd
  <2>1. /\ main.pc = "release" /\ open' = open \ {main.esi}
        /\ info' = [info EXCEPT ![main.esi] = @ - 1]
        /\ main' = [main EXCEPT !.pc = main.after, !.snap = <<>>]
        /\ UNCHANGED <<queue, flag, executing>>
    BY <1>3 DEF ReleaseEnd
  <2>2. /\ main'.pc = main.after /\ main'.esi = main.esi /\ main'.outer = main.outer
        /\ (main.fin => main'.fin) /\ main'.ctx = main.ctx
    BY <2>1 DEF TypeOK, Locals
  <2>3. /\ main.esi \in Fd /\ info[main.esi] > 0
        /\ main.after \in {"opcode", "corpses", "finish"}
    BY <2>1 DEF Control, Known, ExecInv, Routes
  <2>4. OneEntryEach'
    <3>1. info[main.esi] = 1 /\ main.esi \in open
      BY <2>3 DEF ExecInv, OneEntryEach
    <3>2. info'[main.esi] = 0 /\ \A e \in Fd : e # main.esi => info'[e] = info[e]
      BY <2>1, <2>3, <3>1 DEF TypeOK
    <3> QED BY <2>1, <3>1, <3>2 DEF ExecInv, OneEntryEach
  <2>5. Turn = executing /\ Turn' = executing
    BY <2>1, <2>2, <2>3 DEF Turn
  <2>6. Executes'
    BY <2>1, <2>2, <2>3, <2>5 DEF ExecInv, Executes, Control
  <2>7. Routes'
    BY <2>1, <2>2, <2>3 DEF ExecInv, Routes
  <2>8. Rescheduling'
    <3>1. CASE main.after = "opcode"
      BY <2>1, <3>1 DEF ExecInv, Executes, Rescheduling
    <3>2. CASE main.after # "opcode"
      BY <2>1, <2>2, <2>3, <3>2 DEF ExecInv, Rescheduling, Control, FlagLabels
    <3> QED BY <3>1, <3>2
  <2> QED BY <2>4, <2>6, <2>7, <2>8 DEF ExecInv
<1> QED BY <1>1, <1>2, <1>3

\* burn_esi_corpses, and the end of a script.
LEMMA BurnExec ==
  ASSUME TypeOK, Control, ExecInv, Unbroken, ~Crash,
         Burn \/ Corpse \/ CorpsesBurnt \/ FinishEsi \/ EsiFinished \/ Drain
  PROVE  ExecInv'
<1> USE DEF keyVars, term, world, tables
<1>1. CASE Corpse
  BY <1>1, SockMyPortExec DEF Corpse
<1>2. CASE EsiFinished
  <2>1. /\ main.pc = "finish"
        /\ queue' = [queue EXCEPT !["execution"] = RemoveFirst(@, executing)]
        /\ main' = [main EXCEPT !.pc = "dispatch", !.fin = FALSE]
        /\ UNCHANGED <<info, open, flag>>
    BY <1>2 DEF EsiFinished
  <2>2. main'.pc = "dispatch" /\ main'.outer = main.outer
    BY <2>1 DEF TypeOK, Locals
  <2>3. executing \in Fd
    BY <2>1 DEF Control, ServingExecuting
  <2>4. queue["execution"] \in {<<>>, <<executing>>}
    BY <2>1 DEF ExecInv, Executes, Turn
  <2>5. queue'["execution"] = RemoveFirst(queue["execution"], executing)
    BY <2>1 DEF TypeOK, QueueName
  <2>6. queue'["execution"] = <<>>
    BY <2>3, <2>4, <2>5, RemoveFromOne
  <2> QED BY <2>1, <2>2, <2>6 DEF ExecInv, OneEntryEach, Executes, Routes, Rescheduling
<1>3. CASE Burn \/ CorpsesBurnt \/ FinishEsi \/ Drain
  <2>1. /\ main.pc \in {"burn", "corpses", "drain"}
        /\ main'.pc \in {"corpses", "drain", "release", "update", "dispatch"}
        /\ main'.pc = "corpses" => flag.killed
        /\ main'.pc = "release" => main'.after = "finish" /\ main.fin
        /\ main'.pc \in {"update", "dispatch"} =>
              ~main.fin /\ main.pc = "drain"
        /\ main'.pc = "dispatch" => main.ctx # "idle" /\ ~flag.new
        /\ (main.fin => main'.fin) /\ main'.ctx = main.ctx /\ main'.outer = main.outer
    <3> USE DEF TypeOK, Locals
    <3>1. CASE Burn          BY <3>1 DEF Burn, Goto
    <3>2. CASE CorpsesBurnt  BY <3>2 DEF CorpsesBurnt, Goto
    <3>3. CASE FinishEsi     BY <3>3 DEF FinishEsi
    <3>4. CASE Drain         BY <3>4 DEF Drain, Goto
    <3> QED BY <1>3, <3>1, <3>2, <3>3, <3>4
  <2>2. UNCHANGED <<queue, executing, open, info>>
    BY <1>3 DEF Burn, CorpsesBurnt, FinishEsi, Drain
  <2>3. /\ flag.new => flag'.new
        /\ flag'.killed => flag.killed
        /\ flag'.reschedule => flag.reschedule
    BY <1>3 DEF Burn, CorpsesBurnt, FinishEsi, Drain, TypeOK, FlagName
  <2>4. OneEntryEach' /\ Executes'
    BY <2>1, <2>2 DEF ExecInv, OneEntryEach, Executes, Turn
  <2>5. Routes'
    BY <2>1, <2>3 DEF ExecInv, Routes
  <2>6. Rescheduling'
    BY <2>1, <2>2, <2>3 DEF ExecInv, Rescheduling, FlagLabels
  <2> QED BY <2>4, <2>5, <2>6 DEF ExecInv
<1> QED BY <1>1, <1>2, <1>3

\* Serving the flags can only empty the execution queue, and empties it before the
\* next ESI is chosen if the reschedule flag is up.
LEMMA FlagStepsExec ==
  ASSUME TypeOK, Control, ExecInv, Unbroken, ~Crash, FlagSteps
  PROVE  ExecInv'
<1> USE DEF keyVars, term, world, tables, Goto
<1>1. /\ main.pc \in FlagLabels
      /\ main'.pc \in FlagLabels \/ (main'.pc = "dispatch" /\ Preempt)
      /\ ~main.fin /\ main'.ctx = main.ctx /\ main'.outer = main.outer
  <2> USE DEF TypeOK, Locals, FlagLabels, Control
  <2>1. CASE ServeUpdate       BY <2>1 DEF ServeUpdate
  <2>2. CASE ServeUnlocks      BY <2>2 DEF ServeUnlocks
  <2>3. CASE ReleaseByConsole  BY <2>3 DEF ReleaseByConsole
  <2>4. CASE UnlocksServed     BY <2>4 DEF UnlocksServed
  <2>5. CASE ServeNews         BY <2>5 DEF ServeNews
  <2>6. CASE BlockExecuting    BY <2>6 DEF BlockExecuting
  <2>7. CASE FilterReady       BY <2>7 DEF FilterReady
  <2>8. CASE BlockReady        BY <2>8 DEF BlockReady
  <2>9. CASE ReadyBlocked      BY <2>9 DEF ReadyBlocked
  <2>10. CASE BlockForSystem   BY <2>10 DEF BlockForSystem
  <2>11. CASE BlocksServed     BY <2>11 DEF BlocksServed
  <2>12. CASE Preempt          BY <2>12 DEF Preempt
  <2> QED BY <2>1, <2>2, <2>3, <2>4, <2>5, <2>6, <2>7, <2>8, <2>9, <2>10, <2>11,
             <2>12 DEF FlagSteps
<1>2. UNCHANGED <<executing, open, info>>
  BY DEF FlagSteps, ServeUpdate, ServeUnlocks, ReleaseByConsole, UnlocksServed, ServeNews,
         BlockExecuting, FilterReady, BlockReady, ReadyBlocked, BlockForSystem,
         BlocksServed, Preempt
<1>3. main.outer = NoEsi /\ Turn = executing /\ Turn' = executing
  BY <1>1, <1>2 DEF ExecInv, Routes, FlagLabels, Turn
<1>4. /\ flag'.killed => flag.killed
      /\ flag'.reschedule => flag.reschedule \/ Preemptive
  <2>1. CASE ServeUpdate
    <3>1. CASE flag' = flag
      BY <3>1
    <3>2. CASE flag' # flag
      BY <2>1, <3>2, UpdateExec DEF ServeUpdate
    <3> QED BY <3>1, <3>2
  <2>2. CASE ReleaseByConsole
    BY <2>2, UpdateExec DEF ReleaseByConsole
  <2>3. CASE ServeNews
    <3>1. CASE flag' = flag
      BY <3>1
    <3>2. CASE flag' # flag
      <4>1. flag' = [flag EXCEPT !.new = FALSE, !.reschedule = @ \/ Preemptive]
        BY <2>3, <3>2 DEF ServeNews
      <4> QED BY <4>1 DEF TypeOK, FlagName
    <3> QED BY <3>1, <3>2
  <2>4. CASE BlocksServed
    BY <2>4 DEF BlocksServed, TypeOK, FlagName
  <2>5. CASE ~(ServeUpdate \/ ReleaseByConsole \/ ServeNews \/ BlocksServed)
    BY <2>5 DEF FlagSteps, ServeUnlocks, UnlocksServed, BlockExecuting, FilterReady,
           BlockReady, ReadyBlocked, BlockForSystem, Preempt
  <2> QED BY <2>1, <2>2, <2>3, <2>4, <2>5
<1>5. queue'["execution"] \in {queue["execution"], <<>>}
  <2>1. CASE ServeUpdate
    BY <2>1, UpdateExec DEF ServeUpdate
  <2>2. CASE ReleaseByConsole
    BY <2>2, UpdateExec DEF ReleaseByConsole
  <2>3. CASE ServeNews
    BY <2>3 DEF ServeNews, TypeOK, QueueName
  <2>4. CASE BlockExecuting
    <3>1. CASE queue' = queue
      BY <3>1
    <3>2. CASE queue' # queue
      <4> DEFINE n == RequestOf(Head(queue["execution"]))
                 w == req.block[n]
      <4>1. /\ queue["execution"] # <<>> /\ n # 0
            /\ queue' = MoveEsi("execution", "blocked", w.esi)
        BY <2>4, <3>2 DEF BlockExecuting, BlockEsi
      <4>2. Head(queue["execution"]) = executing /\ executing \in Fd
            /\ queue["execution"] = <<executing>>
        BY <1>3, <4>1, ExecutionType DEF ExecInv
      <4>3. w.esi = executing
        BY <4>1, <4>2, FirstOfEsiIndex DEF TypeOK, RequestOf
      <4>4. queue'["execution"] = RemoveFirst(queue["execution"], executing)
        BY <4>1, <4>3 DEF MoveEsi, TypeOK, QueueName
      <4> QED BY <4>2, <4>4, RemoveFromOne
    <3> QED BY <3>1, <3>2
  <2>5. CASE BlockReady
    BY <2>5 DEF BlockReady, BlockEsi, MoveEsi, TypeOK, QueueName
  <2>6. CASE Preempt
    <3>1. CASE queue' = queue
      BY <3>1
    <3>2. CASE queue' # queue
      <4>1. queue' = MoveEsi("execution", "ready", executing)
            /\ main.ctx = "result" /\ main.pc = "preempt"
        BY <2>6, <3>2 DEF Preempt
      <4>2. executing \in Fd
        BY <4>1 DEF Control, ServingExecuting
      <4>3. queue["execution"] \in {<<>>, <<executing>>}
        BY <1>3 DEF ExecInv, Executes
      <4>4. queue'["execution"] = RemoveFirst(queue["execution"], executing)
        BY <4>1 DEF MoveEsi, TypeOK, QueueName
      <4> QED BY <4>2, <4>3, <4>4, RemoveFromOne
    <3> QED BY <3>1, <3>2
  <2>7. CASE ~(ServeUpdate \/ ReleaseByConsole \/ ServeNews \/ BlockExecuting
               \/ BlockReady \/ Preempt)
    BY <2>7 DEF FlagSteps, ServeUnlocks, UnlocksServed, FilterReady, ReadyBlocked,
           BlockForSystem, BlocksServed
  <2> QED BY <2>1, <2>2, <2>3, <2>4, <2>5, <2>6, <2>7
<1>6. Preempt /\ Preemptive /\ flag.reschedule /\ main.ctx = "result"
        => queue'["execution"] = <<>>
  <2> SUFFICES ASSUME Preempt, Preemptive, flag.reschedule, main.ctx = "result"
               PROVE  queue'["execution"] = <<>>
    OBVIOUS
  <2>1. queue' = MoveEsi("execution", "ready", executing) /\ main.pc = "preempt"
    BY DEF Preempt
  <2>2. executing \in Fd
    BY <2>1 DEF Control, ServingExecuting
  <2>3. queue["execution"] \in {<<>>, <<executing>>}
    BY <1>3 DEF ExecInv, Executes
  <2>4. queue'["execution"] = RemoveFirst(queue["execution"], executing)
    BY <2>1 DEF MoveEsi, TypeOK, QueueName
  <2> QED BY <2>2, <2>3, <2>4, RemoveFromOne
<1>7. OneEntryEach'
  BY <1>2 DEF ExecInv, OneEntryEach
<1>8. Executes'
  BY <1>1, <1>2, <1>3, <1>5 DEF ExecInv, Executes, FlagLabels
<1>9. Routes'
  BY <1>1, <1>3, <1>4 DEF ExecInv, Routes, FlagLabels
<1>10. Rescheduling'
  <2>0. SUFFICES ASSUME queue'["execution"] # <<>>
                 PROVE  Rescheduling'
    BY DEF Rescheduling
  <2>1. queue["execution"] # <<>> /\ main.ctx # "idle"
    BY <1>1, <1>5, <2>0 DEF ExecInv, Rescheduling, FlagLabels
  <2>2. flag.reschedule => Preemptive
    BY <1>1, <2>1 DEF ExecInv, Rescheduling, FlagLabels
  <2>3. flag'.reschedule => Preemptive
    BY <1>4, <2>2
  <2>4. CASE main'.pc \in FlagLabels
    BY <1>1, <2>1, <2>3, <2>4 DEF Rescheduling
  <2>5. CASE main'.pc = "dispatch" /\ Preempt
    <3>1. main.ctx = "result" /\ flag' = flag
      BY <2>1, <2>5 DEF TypeOK, Locals, Preempt
    <3>2. ~flag.reschedule
      BY <1>6, <2>0, <2>2, <2>5, <3>1
    <3> QED BY <1>1, <2>1, <3>1, <3>2 DEF Rescheduling
  <2> QED BY <1>1, <2>4, <2>5
<1> QED BY <1>7, <1>8, <1>9, <1>10 DEF ExecInv

\* Choosing the next ESI and authorizing it.
LEMMA DispatchExec ==
  ASSUME TypeOK, Control, ExecInv, Unbroken, ~Crash, DispatchSteps
  PROVE  ExecInv'
<1> USE DEF keyVars, term, world, tables
<1>1. CASE Reschedule
  <2>1. PICK e \in Eligible :
           /\ main.pc = "dispatch" /\ MustReschedule /\ queue["ready"] # <<>>
           /\ \A r \in Eligible : Known(r)
           /\ queue' = MoveEsi("ready", "execution", e)
           /\ main' = [main EXCEPT !.pc = "authorize", !.esi = e,
                           !.outer = IF main.outer = NoEsi THEN e ELSE main.outer]
           /\ UNCHANGED <<info, flag, open>>
    BY <1>1 DEF Reschedule, ExecInv, Routes
  <2>2. e \in Fd /\ e \in open
    BY <2>1 DEF Known, ExecInv, OneEntryEach
  <2>3. queue["execution"] = <<>> /\ main.outer = NoEsi /\ e # NoEsi
    <3>1. ~main.fin
      BY <2>1 DEF Control
    <3>2. main.ctx = "idle" \/ flag.reschedule
      BY <2>1 DEF MustReschedule
    <3> QED BY <2>1, <2>2, <3>1, <3>2, ConstantsAssumption
            DEF ExecInv, Rescheduling, Routes, FlagLabels
  <2>4. queue'["execution"] = <<e>>
    BY <2>1, <2>2, <2>3, OneElement DEF MoveEsi, TypeOK, QueueName
  <2>5. main'.pc = "authorize" /\ main'.esi = e /\ main'.outer = e
    BY <2>1, <2>3 DEF TypeOK, Locals
  <2>6. Turn' = e
    BY <2>3, <2>5 DEF Turn
  <2>7. OneEntryEach'
    BY <2>1 DEF ExecInv, OneEntryEach
  <2>8. Executes'
    BY <2>1, <2>2, <2>4, <2>5, <2>6 DEF Executes
  <2>9. Routes'
    BY <2>1, <2>5 DEF ExecInv, Routes
  <2>10. Rescheduling'
    BY <2>3, <2>5 DEF Rescheduling
  <2> QED BY <2>7, <2>8, <2>9, <2>10 DEF ExecInv
<1>2. CASE ContinueExecuting
  <2>1. /\ main.pc = "dispatch" /\ ~MustReschedule
        /\ UNCHANGED <<queue, info, flag, executing, open>>
    BY <1>2 DEF ContinueExecuting
  <2>2. main.outer = NoEsi /\ Turn = executing
    BY <2>1 DEF ExecInv, Routes, Turn
  <2>3. queue["execution"] # <<>> => main.ctx # "idle" /\ ~flag.reschedule
    BY <2>1 DEF ExecInv, Rescheduling, FlagLabels, Control
  <2>4. OneEntryEach'
    BY <2>1 DEF ExecInv, OneEntryEach
  <2>5. CASE main' = Idle
    <3>1. main'.pc = "select" /\ main'.outer = NoEsi /\ Turn' = executing
      BY <2>1, <2>5 DEF Idle, Turn
    <3>2. Executes' /\ Routes'
      BY <2>1, <2>2, <3>1 DEF ExecInv, Executes, Routes
    <3>3. Rescheduling'
      BY <2>1, <2>3, <3>1 DEF Rescheduling
    <3> QED BY <2>4, <3>2, <3>3 DEF ExecInv
  <2>6. CASE main' # Idle
    <3>1. /\ queue["execution"] # <<>>
          /\ main' = [main EXCEPT !.pc = "authorize", !.esi = Head(queue["execution"])]
      BY <1>2, <2>6 DEF ContinueExecuting
    <3>2. queue["execution"] = <<executing>> /\ Head(queue["execution"]) = executing
      BY <2>2, <3>1, ExecutionType DEF ExecInv
    <3>3. main'.pc = "authorize" /\ main'.esi = executing /\ main'.outer = NoEsi
      BY <2>2, <3>1, <3>2 DEF TypeOK, Locals
    <3>4. Turn' = executing
      BY <2>1, <3>3 DEF Turn
    <3>5. Executes' /\ Routes'
      BY <2>1, <2>2, <3>2, <3>3, <3>4 DEF ExecInv, Executes, Routes
    <3>6. Rescheduling'
      BY <2>1, <2>3, <3>3 DEF Rescheduling
    <3> QED BY <2>4, <3>5, <3>6 DEF ExecInv
  <2> QED BY <2>5, <2>6
<1>3. CASE AuthorizeEsiExecution
  <2>1. main.pc = "authorize" /\ queue["execution"] # <<>>
        /\ queue["execution"] = <<main.esi>>
    BY <1>3 DEF AuthorizeEsiExecution, Control, ExecInv, Executes
  <2>2. Turn \in open /\ queue["execution"] = <<Turn>>
    BY <2>1 DEF ExecInv, Executes
  <2>3. Turn = main.esi
    <3>1. Head(queue["execution"]) = Turn /\ Head(queue["execution"]) = main.esi
      BY <2>1, <2>2, Zenon, ExecutionType, OneElement DEF ExecInv, Control
    <3> QED BY <3>1
  <2>4. /\ main.esi \in open /\ main' = Idle /\ UNCHANGED <<queue, info, open>>
        /\ executing' = IF main.outer = NoEsi THEN executing ELSE main.outer
        /\ flag' = IF main.outer = NoEsi THEN flag
                   ELSE [flag EXCEPT !.reschedule = FALSE]
    BY <1>3, <2>2, <2>3 DEF AuthorizeEsiExecution
  <2>5. main'.pc = "select" /\ main'.outer = NoEsi /\ Turn' = executing'
    BY <2>4 DEF Idle, Turn
  <2>6. executing' = main.esi
    BY <2>1, <2>3, <2>4 DEF ExecInv, Routes, Turn
  <2>7. ~flag'.reschedule /\ (flag'.killed => flag.killed)
    <3>1. CASE main.outer = NoEsi
      BY <2>1, <2>4, <3>1 DEF ExecInv, Rescheduling, FlagLabels, Control
    <3>2. CASE main.outer # NoEsi
      BY <2>4, <3>2 DEF TypeOK, FlagName
    <3> QED BY <3>1, <3>2
  <2>8. OneEntryEach'
    BY <2>4 DEF ExecInv, OneEntryEach
  <2>9. Executes' /\ Routes'
    BY <2>1, <2>4, <2>5, <2>6, <2>7 DEF ExecInv, Executes, Routes
  <2>10. Rescheduling'
    BY <2>5, <2>7 DEF Rescheduling
  <2> QED BY <2>8, <2>9, <2>10 DEF ExecInv
<1> QED BY <1>1, <1>2, <1>3 DEF DispatchSteps

\* The coordinator's messages, the console and the ESI processes.
LEMMA OutsideExec ==
  ASSUME TypeOK, Control, ExecInv, ~Crash,
         \/ \E e \in Fd : Sentence(e)
         \/ \E s \in Fd \cup {Ghost} : Conversation(s)
         \/ ElsewhereSteps
  PROVE  ExecInv'
<1> USE DEF keyVars, term, world, tables
<1>1. CASE GoIdle
  <2>1. /\ main.pc = "select" /\ queue["execution"] = <<>>
        /\ main' = [Idle EXCEPT !.pc = "burn"]
        /\ UNCHANGED <<queue, info, open, flag, executing>>
    BY <1>1 DEF GoIdle
  <2>2. main'.pc = "burn" /\ main'.outer = NoEsi
    BY <2>1 DEF Idle
  <2> QED BY <2>1, <2>2 DEF ExecInv, OneEntryEach, Executes, Routes, Rescheduling
<1>2. CASE Operator
  <2>1. PICK c \in Commands : TypeCommand(c)
    BY <1>2 DEF Operator
  <2>2. /\ flag'.reschedule = flag.reschedule /\ flag'.new = flag.new
        /\ c = "kill" \/ flag'.killed = flag.killed
    <3>1. PICK g \in {"killed", "block", "unlock"} :
             flag' = [flag EXCEPT ![g] = TRUE] /\ (c # "kill" => g # "killed")
      <4>1. c \in {"kill", "bloquear", "desbloquear"}
        BY <2>1 DEF TypeCommand, CommandFlag
      <4>2. /\ CommandFlag[c] \in {"killed", "block", "unlock"}
            /\ c # "kill" => CommandFlag[c] # "killed"
        BY <4>1 DEF CommandFlag
      <4> QED BY <2>1, <4>2 DEF TypeCommand
    <3> QED BY <3>1 DEF TypeOK, FlagName
  <2>3. UNCHANGED <<main, executing, open, info, queue>>
    BY <2>1 DEF TypeCommand
  <2>4. flag'.killed => flag.killed \/ "kill" \in Commands
    BY <2>1, <2>2
  <2> QED BY <2>2, <2>3, <2>4, StillExecutes
<1>3. CASE TogglePause \/ \E s \in Fd \cup {Ghost} : UnlockKey(s)
  <2>1. /\ flag'.reschedule = flag.reschedule /\ flag'.new = flag.new
        /\ flag'.killed = flag.killed
        /\ UNCHANGED <<main, executing, open, info, queue>>
    BY <1>3 DEF TogglePause, UnlockKey, TypeOK, FlagName
  <2> QED BY <2>1, StillExecutes
<1>4. CASE ~GoIdle /\ ~Operator /\ ~TogglePause /\ ~ \E s \in Fd \cup {Ghost} : UnlockKey(s)
  <2>1. UNCHANGED <<main, executing, open, info, queue, flag>>
    BY <1>4 DEF ElsewhereSteps, AddRequest, InvalidLine, EsiCut, Conversation, Sentence,
       IsThisKeyBlocked, IsKeyBlockedByExecutingEsi, BlockKey, InstanceAnswers
  <2> QED BY <2>1, StillExecutes
<1> QED BY <1>1, <1>2, <1>3, <1>4

\* Nothing is queued at first.
LEMMA InitExec == Init => ExecInv
<1> SUFFICES ASSUME Init PROVE ExecInv
  OBVIOUS
<1> QED BY DEF Init, ExecInv, OneEntryEach, Executes, Routes, Rescheduling, Idle, QueueName,
           FlagName, Turn

\* Every step keeps the invariant of the execution queue.
LEMMA NextExec ==
  ASSUME TypeOK, Control, ExecInv, Unbroken, [Next]_vars
  PROVE  ExecInv'
<1>1. CASE UNCHANGED vars \/ Crash
  BY <1>1, StillExecutes DEF vars, Crash, tables, keyVars, term, world
<1> SUFFICES ASSUME ~Crash, ~UNCHANGED vars PROVE ExecInv'
  BY <1>1
<1>2. CASE \E e \in Fd : Accept(e) \/ AcceptWithoutHandshake(e)
  BY <1>2, ArriveExec
<1>3. CASE \/ \E e \in Fd : Sentence(e)
           \/ \E s \in Fd \cup {Ghost} : Conversation(s)
           \/ ElsewhereSteps
  BY <1>3, OutsideExec
<1>4. CASE EsiEvents
  BY <1>4, EsiEventsExec
<1>5. CASE UninitialisedOpcode \/ ReleaseKey \/ ReleaseEnd
  BY <1>5, ReleaseExec
<1>6. CASE Burn \/ Corpse \/ CorpsesBurnt \/ FinishEsi \/ EsiFinished \/ Drain
  BY <1>6, BurnExec
<1>7. CASE FlagSteps
  BY <1>7, FlagStepsExec
<1>8. CASE DispatchSteps
  BY <1>8, DispatchExec
<1> QED BY <1>2, <1>3, <1>4, <1>5, <1>6, <1>7, <1>8
        DEF Next, Steps, FlagSteps, DispatchSteps, ElsewhereSteps

\* One ESI executes at a time, and main() listens to that one, whichever algorithm
\* schedules, whatever sockets fail and whatever the operator blocks and unblocks.
\* The condition leaves out a failed handshake, after which reschedule runs inside
\* itself and executing_esi is the ESI that is gone, and the combination of a
\* preemptive algorithm with the command kill: burn_esi_corpses may then raise the
\* reschedule flag when main() goes past the line that takes the executing ESI back.
THEOREM OneExecutingCorrect ==
  ASSUME Unbroken
  PROVE  Spec => []OneExecuting
<1> DEFINE IInv == TypeOK /\ Control /\ ExecInv
<1>1. Init => IInv
  BY InitCorrect, InitExec
<1>2. IInv /\ [Next]_vars => IInv'
  BY NextCorrect, NextExec
<1>3. IInv => OneExecuting
  <2> SUFFICES ASSUME IInv PROVE OneExecuting
    OBVIOUS
  <2>1. Len(queue["execution"]) <= 1
    <3>1. CASE queue["execution"] = <<>>
      BY <3>1
    <3>2. CASE queue["execution"] # <<>>
      <4>1. queue["execution"] = <<Turn>>
        BY <3>2 DEF ExecInv, Executes
      <4>2. Len(<<Turn>>) = 1
        OBVIOUS
      <4> QED BY <4>1, <4>2
    <3> QED BY <3>1, <3>2
  <2>2. main.pc = "select" => Turn = executing
    BY DEF Turn
  <2> QED BY <2>1, <2>2 DEF OneExecuting, ExecInv, Executes
<1> HIDE DEF IInv
<1> QED BY <1>1, <1>2, <1>3, PTL DEF Spec

-----------------------------------------------------------------------------
(* The conversation of the executing ESI *)

\* An ESI that has an order, or a sentence whose answer main() has not received.
Talking(e) ==
    \/ esi[e].st = "idle" /\ esi[e].orders > 0
    \/ esi[e].st \in InFlight \cup {"ok", "blocked"}

\* Only the ESI in the execution queue talks, and only while main() is in select().
Talks == \A e \in Fd :
    /\ Talking(e) => main.pc = "select" /\ queue["execution"] = <<e>>
    /\ esi[e].st = "idle" => esi[e].orders <= 1
    /\ esi[e].st \in InFlight \cup {"ok", "blocked"} => esi[e].orders = 0

\* The one that talks is the one main() listens to.
LEMMA TalkerExecutes ==
  ASSUME ExecInv, Talks, NEW e \in Fd, Talking(e)
  PROVE  main.pc = "select" /\ e = executing /\ queue["execution"] = <<e>>
<1>1. main.pc = "select" /\ queue["execution"] = <<e>>
  BY DEF Talks
<1>2. <<e>> # <<>>
  BY OneElement
<1>3. queue["execution"] = <<executing>>
  BY <1>1, <1>2 DEF ExecInv, Executes, Turn
<1> QED BY <1>1, <1>3, SameElement

\* When main() works, or nobody is in the execution queue, nobody talks.
LEMMA Silence ==
  ASSUME ExecInv, Talks,
         main.pc # "select" \/ queue["execution"] = <<>> \/ ~Talking(executing)
  PROVE  \A e \in Fd : ~Talking(e)
BY TalkerExecutes, OneElement

\* In silence, steps that leave the ESIs alone keep it.
LEMMA SilentStep ==
  ASSUME Talks, \A e \in Fd : ~Talking(e), UNCHANGED esi
  PROVE  Talks'
BY DEF Talks, Talking

\* Steps of others.
LEMMA OthersTalk ==
  ASSUME Talks, UNCHANGED <<main, esi>>, queue'["execution"] = queue["execution"]
  PROVE  Talks'
BY DEF Talks, Talking

\* A step that changes one ESI, whose new state is in order.
LEMMA OneTalks ==
  ASSUME TypeOK, Talks, NEW e \in Fd, UNCHANGED main,
         queue'["execution"] = queue["execution"],
         \A f \in Fd : f # e => esi'[f] = esi[f],
         esi'[e].st = "idle" => esi'[e].orders <= 1,
         esi'[e].st \in InFlight \cup {"ok", "blocked"} => esi'[e].orders = 0,
         Talking(e)' => main.pc = "select" /\ queue["execution"] = <<e>>
  PROVE  Talks'
<1>1. \A f \in Fd : f # e => (Talking(f)' <=> Talking(f))
  BY DEF Talking
<1> QED BY <1>1 DEF Talks

\* Advance for the sentence of an ESI, or of a ghost that nobody listens to.
LEMMA AdvanceTalks ==
  ASSUME TypeOK, Talks, NEW s \in Fd \cup {Ghost}, NEW st \in Stage,
         Advance(s, st), UNCHANGED main, queue'["execution"] = queue["execution"],
         s \in Fd => Talking(s), st # "idle", st = "gone" \/ esi[s].st \in InFlight
  PROVE  Talks'
<1>1. CASE s = Ghost
  <2>1. \A e \in Fd : esi'[e] = esi[e]
    BY <1>1, ConstantsAssumption DEF Advance, TypeOK
  <2> QED BY <2>1 DEF Talks, Talking
<1>2. CASE s # Ghost
  <2>1. s \in Fd /\ esi[s] \in Process
    BY <1>2 DEF TypeOK
  <2>2. esi' = [esi EXCEPT ![s] = [esi[s] EXCEPT !.st = st]]
    BY <1>2 DEF Advance
  <2>3. esi'[s].st = st /\ esi'[s].orders = esi[s].orders
        /\ \A f \in Fd : f # s => esi'[f] = esi[f]
    BY <2>1, <2>2 DEF TypeOK, Process
  <2>4. main.pc = "select" /\ queue["execution"] = <<s>>
    BY <2>1 DEF Talks
  <2>5. st \in InFlight \cup {"ok", "blocked"} => esi[s].orders = 0
    BY <2>1 DEF Talks, InFlight
  <2> QED BY <2>1, <2>3, <2>4, <2>5, OneTalks
<1> QED BY <1>1, <1>2

\* The coordinator's messages about the sentence in flight.
LEMMA ConversationTalks ==
  ASSUME TypeOK, Talks, ~Crash, NEW s \in Fd \cup {Ghost}, Conversation(s)
  PROVE  Talks'
<1> USE DEF keyVars, term, world, tables
<1>1. UNCHANGED <<main, queue>> /\ esi[s].st \in InFlight
  BY DEF Conversation, IsKeyBlockedByExecutingEsi, BlockKey, UnlockKey, InstanceAnswers,
         CoordinatorMessage, InFlight
<1>2. s \in Fd => Talking(s)
  BY <1>1 DEF Talking
<1>3. PICK st \in Stage \ {"idle"} : Advance(s, st)
  <2>1. CASE IsKeyBlockedByExecutingEsi(s)
    BY <2>1 DEF IsKeyBlockedByExecutingEsi, Stage, InFlight
  <2>2. CASE BlockKey(s)
    BY <2>2 DEF BlockKey, Stage, InFlight
  <2>3. CASE UnlockKey(s)
    BY <2>3 DEF UnlockKey, Stage, InFlight
  <2>4. CASE InstanceAnswers(s)
    BY <2>4 DEF InstanceAnswers, Stage, InFlight
  <2> QED BY <2>1, <2>2, <2>3, <2>4 DEF Conversation
<1> QED BY <1>1, <1>2, <1>3, AdvanceTalks

\* The authorized ESI sends its sentence.
LEMMA SentenceTalks ==
  ASSUME TypeOK, Talks, ~Crash, NEW e \in Fd, Sentence(e)
  PROVE  Talks'
<1> USE DEF keyVars, term, world, tables
<1>1. PICK op \in {"GET", "SET", "STORE"}, k \in Key : IsThisKeyBlocked(e, op, k)
  BY DEF Sentence
<1>2. /\ esi[e].st = "idle" /\ esi[e].orders > 0 /\ UNCHANGED <<main, queue>>
      /\ esi[e] \in Process
  BY <1>1 DEF IsThisKeyBlocked, CoordinatorMessage, TypeOK
<1>3. main.pc = "select" /\ queue["execution"] = <<e>> /\ esi[e].orders = 1
  BY <1>2 DEF Talks, Talking, Process
<1> DEFINE r == [st     |-> IF Locked(k) THEN "asking"
                            ELSE IF op = "GET" THEN "locking" ELSE "gone",
                 op     |-> op, key |-> k, retry |-> FALSE,
                 orders |-> esi[e].orders - 1,
                 line   |-> IF esi[e].retry THEN esi[e].line ELSE esi[e].line + 1]
<1>4. esi' = [esi EXCEPT ![e] = r]
  BY <1>1 DEF IsThisKeyBlocked
<1>5. r.orders = 0 /\ r.st # "idle"
  BY <1>3
<1> HIDE DEF r
<1>6. esi'[e] = r /\ \A f \in Fd : f # e => esi'[f] = esi[f]
  BY <1>4 DEF TypeOK
<1> QED BY <1>2, <1>3, <1>5, <1>6, OneTalks

\* Whoever leaves select() has nothing more to hear.
LEMMA EsiEventsTalk ==
  ASSUME TypeOK, Control, ExecInv, Talks, ~Crash, EsiEvents
  PROVE  Talks'
<1> USE DEF keyVars, term, world, tables
<1>1. executing \in Fd /\ esi[executing] \in Process
  BY DEF EsiEvents, ExecutionSuccess, IAmBlocked, ExecutionFailure, FromExecutingEsi, TypeOK
<1>2. CASE ExecutionFailure
  <2>1. esi[executing].st = "gone" /\ UNCHANGED esi
    BY <1>2 DEF ExecutionFailure, FromExecutingEsi, SockMyPort
  <2>2. ~Talking(executing)
    BY <2>1 DEF Talking, InFlight
  <2> QED BY <2>1, <2>2, Silence, SilentStep
<1>3. CASE ~ExecutionFailure
  <2>1. PICK st \in {"idle", "gone"}, b \in BOOLEAN :
           /\ esi' = [esi EXCEPT ![executing] = [esi[executing] EXCEPT !.st = st, !.retry = b]]
           /\ esi[executing].st \in {"ok", "blocked"}
    <3>1. ASSUME NEW finish \in BOOLEAN, ExecutionSuccess(finish)
          PROVE  \E st \in {"idle", "gone"} : \E b \in BOOLEAN :
                   /\ esi' = [esi EXCEPT ![executing] =
                                           [esi[executing] EXCEPT !.st = st, !.retry = b]]
                   /\ esi[executing].st \in {"ok", "blocked"}
      <4> DEFINE st == IF finish THEN "gone" ELSE "idle"
                 p == esi[executing]
      <4>1. esi' = [esi EXCEPT ![executing] = [p EXCEPT !.st = st]] /\ p.st = "ok"
        BY <3>1, <1>1 DEF ExecutionSuccess, FromExecutingEsi, TypeOK
      <4>2. [p EXCEPT !.st = st] = [p EXCEPT !.st = st, !.retry = p.retry] /\ p.retry \in BOOLEAN
        BY <1>1 DEF Process
      <4>3. st \in {"idle", "gone"}
        OBVIOUS
      <4> HIDE DEF st
      <4> QED BY <4>1, <4>2, <4>3
    <3>2. CASE IAmBlocked
      <4>1. /\ esi' = [esi EXCEPT ![executing] =
                           [esi[executing] EXCEPT !.st = "idle", !.retry = TRUE]]
            /\ esi[executing].st = "blocked"
        BY <3>2, <1>1 DEF IAmBlocked, FromExecutingEsi, TypeOK
      <4> QED BY <4>1
    <3> QED BY <1>3, <3>1, <3>2 DEF EsiEvents
  <2>2. Talking(executing) /\ esi[executing].orders = 0
    BY <1>1, <2>1 DEF Talks, Talking
  <2>3. /\ esi'[executing].st \in {"idle", "gone"} /\ esi'[executing].orders = 0
        /\ \A f \in Fd : f # executing => esi'[f] = esi[f]
    BY <1>1, <2>1, <2>2 DEF Process, TypeOK
  <2>4. \A f \in Fd : f # executing => ~Talking(f)
    BY TalkerExecutes
  <2>5. \A f \in Fd : ~Talking(f)'
    BY <2>3, <2>4 DEF Talking, InFlight
  <2>6. \A f \in Fd : f # executing => /\ esi'[f].st = "idle" => esi'[f].orders <= 1
                                       /\ esi'[f].st \notin InFlight \cup {"ok", "blocked"}
    BY <2>3, <2>4 DEF Talks, Talking
  <2> QED BY <2>3, <2>5, <2>6 DEF Talks, InFlight
<1> QED BY <1>2, <1>3

\* An ESI connects, another is buried, the next is authorized.
LEMMA ArriveTalks ==
  ASSUME TypeOK, ExecInv, Talks, Unbroken, NEW e \in Fd, Accept(e) \/ AcceptWithoutHandshake(e)
  PROVE  Talks'
<1> USE DEF keyVars, term, world, tables
<1>1. ArriveEsi(e, TRUE)
  BY DEF Accept, AcceptWithoutHandshake, Unbroken
<1>2. /\ UNCHANGED main /\ queue'["execution"] = queue["execution"]
      /\ esi'[e] = [NoProcess EXCEPT !.st = "idle"]
      /\ \A f \in Fd : f # e => esi'[f] = esi[f]
  BY <1>1 DEF ArriveEsi, TypeOK, QueueName
<1>3. esi'[e].st = "idle" /\ esi'[e].orders = 0 /\ esi'[e].orders <= 1
  BY <1>2 DEF NoProcess
<1>4. ~Talking(e)'
  BY <1>3 DEF Talking, InFlight
<1> QED BY <1>2, <1>3, <1>4, OneTalks, Zenon

\* release_resources ends: its ESI is nobody any more.
LEMMA ReleaseEndTalks ==
  ASSUME TypeOK, Control, ExecInv, Talks, ReleaseEnd
  PROVE  Talks'
<1>1. main.pc = "release" /\ main.esi \in Fd /\ esi' = Orphan(main.esi)
  BY DEF ReleaseEnd, Control, Known
<1>2. /\ esi'[main.esi] = NoProcess
      /\ \A f \in Fd : f # main.esi => esi'[f] = esi[f]
  BY <1>1, ConstantsAssumption DEF Orphan, TypeOK
<1>3. \A f \in Fd : ~Talking(f)
  BY <1>1, Silence
<1>4. esi'[main.esi].st = "off"
  BY <1>2 DEF NoProcess
<1>5. \A f \in Fd : ~Talking(f)'
  BY <1>2, <1>3, <1>4 DEF Talking, InFlight
<1> QED BY <1>2, <1>4, <1>5 DEF Talks, InFlight

\* The authorization: the ESI in the execution queue, which was silent, gets one order.
LEMMA AuthorizeTalks ==
  ASSUME TypeOK, Control, ExecInv, Talks, ~Crash, AuthorizeEsiExecution
  PROVE  Talks'
<1> USE DEF keyVars, term, world, tables
<1>0. main.pc = "authorize" /\ \A f \in Fd : ~Talking(f)
  BY Silence DEF AuthorizeEsiExecution
<1>1. CASE main.esi \notin open
  BY <1>0, <1>1, SilentStep DEF AuthorizeEsiExecution, SockMyPort
<1>2. CASE main.esi \in open
  <2> DEFINE e == main.esi
             r == [esi[e] EXCEPT !.orders = esi[e].orders + 1]
  <2>1. /\ esi' = [esi EXCEPT ![e] = r] /\ UNCHANGED queue /\ main' = Idle
        /\ e \in Fd /\ queue["execution"] = <<e>>
    BY <1>0, <1>2 DEF AuthorizeEsiExecution, Control, ExecInv, Executes
  <2>2. esi[e] \in Process /\ esi[e].st \notin InFlight \cup {"ok", "blocked"}
        /\ (esi[e].st = "idle" => esi[e].orders = 0)
    BY <1>0, <2>1 DEF Talking, TypeOK, Process
  <2>3. r.st = esi[e].st /\ (r.st = "idle" => r.orders = 1)
    BY <2>2 DEF Process
  <2> HIDE DEF r, e
  <2>4. esi'[e] = r /\ \A f \in Fd : f # e => esi'[f] = esi[f]
    BY <2>1 DEF TypeOK
  <2>5. main'.pc = "select" /\ queue'["execution"] = <<e>>
    BY <2>1 DEF Idle
  <2>6. \A f \in Fd : f # e => ~Talking(f)'
    BY <1>0, <2>4 DEF Talking
  <2> QED BY <1>0, <2>2, <2>3, <2>4, <2>5, <2>6 DEF Talks, Talking
<1> QED BY <1>1, <1>2

\* Every step keeps the conversation to the executing ESI.
LEMMA NextTalks ==
  ASSUME TypeOK, Control, ExecInv, Talks, Unbroken, [Next]_vars
  PROVE  Talks'
<1> USE DEF keyVars, term, world, tables
<1>0. CASE UNCHANGED vars \/ Crash
  BY <1>0, OthersTalk DEF vars, Crash
<1> SUFFICES ASSUME ~Crash, ~UNCHANGED vars PROVE Talks'
  BY <1>0
<1>1. CASE \E e \in Fd : Accept(e) \/ AcceptWithoutHandshake(e)
  BY <1>1, ArriveTalks
<1>2. CASE \E e \in Fd : Sentence(e)
  BY <1>2, SentenceTalks
<1>3. CASE \E s \in Fd \cup {Ghost} : Conversation(s)
  BY <1>3, ConversationTalks
<1>4. CASE EsiEvents
  BY <1>4, EsiEventsTalk
<1>5. CASE ReleaseEnd
  BY <1>5, ReleaseEndTalks
<1>6. CASE AuthorizeEsiExecution
  BY <1>6, AuthorizeTalks
<1>7. CASE Operator \/ AddRequest \/ TogglePause
  BY <1>7, OthersTalk DEF Operator, TypeCommand, AddRequest, TogglePause
<1>8. CASE GoIdle
  BY <1>8, Silence, SilentStep DEF GoIdle
<1>9. ASSUME NEW e \in Fd, InvalidLine(e)
      PROVE  Talks'
  BY <1>9, AdvanceTalks DEF InvalidLine, Talking, Stage
<1>10. ASSUME NEW e \in Fd, EsiCut(e)
      PROVE  Talks'
  <2>1. esi'[e].st = "gone" /\ \A f \in Fd : f # e => esi'[f] = esi[f]
    BY <1>10, ConstantsAssumption DEF EsiCut, TypeOK, Process
  <2> QED BY <1>10, <2>1, OneTalks DEF EsiCut, Talking, InFlight
<1>11. CASE \/ UninitialisedOpcode \/ ReleaseKey
            \/ Burn \/ Corpse \/ CorpsesBurnt \/ FinishEsi \/ EsiFinished \/ Drain
            \/ FlagSteps \/ Reschedule \/ ContinueExecuting
  <2>1. main.pc # "select" /\ UNCHANGED esi
    BY <1>11 DEF UninitialisedOpcode, ReleaseKey, Burn, Corpse, CorpsesBurnt, FinishEsi,
       EsiFinished, Drain, Goto, SockMyPort, FlagSteps, ServeUpdate, ServeUnlocks,
       ReleaseByConsole, UnlocksServed, ServeNews, BlockExecuting, FilterReady, BlockReady,
       ReadyBlocked, BlockForSystem, BlocksServed, Preempt, Reschedule, ContinueExecuting
  <2> QED BY <2>1, Silence, SilentStep
<1> QED BY <1>1, <1>2, <1>3, <1>4, <1>5, <1>6, <1>7, <1>8, <1>9, <1>10, <1>11
        DEF Next, Steps, FlagSteps

\* The hypotheses under which the rest is proved, and what they give.
Steady == TypeOK /\ Control /\ ExecInv /\ Talks

\* The invariant that the rest builds on: initially,
LEMMA InitSteady == Init => Steady
<1> SUFFICES ASSUME Init PROVE Steady
  OBVIOUS
<1>1. Talks
  BY DEF Init, Talks, Talking, NoProcess, InFlight
<1> QED BY <1>1, InitCorrect, InitExec DEF Steady

\* and after every step.
LEMMA NextSteady ==
  ASSUME Unbroken, Steady, [Next]_vars
  PROVE  Steady'
BY NextCorrect, NextExec, NextTalks DEF Steady

-----------------------------------------------------------------------------
(* Lists of claims as sets *)

\* list_remove_by_condition on claims whose ESIs are distinct.
LEMMA ForgetEsiTakes ==
  ASSUME NEW S, NEW s \in Seq(S), NEW e
  PROVE  \/ (\A i \in 1..Len(s) : s[i].esi # e) /\ ForgetEsi(s, e) = s
         \/ \E i \in 1..Len(s) : s[i].esi = e /\ ForgetEsi(s, e) = RemoveAt(s, i)
<1> DEFINE I == {i \in 1..Len(s) : s[i].esi = e}
<1>1. CASE I = {}
  BY <1>1 DEF RemoveFirstMatch, ForgetEsi
<1>2. CASE I # {}
  <2>1. Min(I) \in I
    <3>1. Len(s) \in Nat /\ I \in SUBSET (1..Len(s))
      BY LenProperties
    <3> HIDE DEF I
    <3> QED BY <1>2, <3>1, MinIndex
  <2>2. SelectInSeq(s, LAMBDA c : c.esi = e) = Min(I)
    BY <1>2 DEF SelectInSeq
  <2>3. ForgetEsi(s, e) = RemoveAt(s, Min(I))
    BY <1>2, <2>2 DEF RemoveFirstMatch, ForgetEsi
  <2> QED BY <2>1, <2>3
<1> QED BY <1>1, <1>2

OneEach(s) == \A i, j \in DOMAIN s : s[i].esi = s[j].esi => i = j

\* What is left of such a list.
LEMMA ForgetEsiSet ==
  ASSUME NEW S, NEW s \in Seq(S), OneEach(s), NEW e
  PROVE  /\ ForgetEsi(s, e) \in Seq(S) /\ OneEach(ForgetEsi(s, e))
         /\ ToSet(ForgetEsi(s, e)) = {c \in ToSet(s) : c.esi # e}
<1>1. DOMAIN s = 1..Len(s)
  BY LenProperties
<1>2. CASE (\A i \in 1..Len(s) : s[i].esi # e) /\ ForgetEsi(s, e) = s
  BY <1>1, <1>2 DEF ToSet
<1>3. ASSUME NEW i \in 1..Len(s), s[i].esi = e, ForgetEsi(s, e) = RemoveAt(s, i)
      PROVE  /\ ForgetEsi(s, e) \in Seq(S) /\ OneEach(ForgetEsi(s, e))
             /\ ToSet(ForgetEsi(s, e)) = {c \in ToSet(s) : c.esi # e}
  <2> DEFINE r == RemoveAt(s, i)
  <2>1. ToSet(r) = {s[j] : j \in (1..Len(s)) \ {i}} /\ r \in Seq(S)
    BY RemoveAtSet, RemoveAtElements
  <2>2. \A j \in 1..Len(s) : s[j].esi = e => j = i
    BY <1>1, <1>3 DEF OneEach
  <2>3. ToSet(r) = {c \in ToSet(s) : c.esi # e}
    <3> HIDE DEF r
    <3> QED BY <1>1, <1>3, <2>1, <2>2 DEF ToSet
  <2>0. Thinned(r, s)
    BY DEF Thinned
  <2>4. PICK f \in [1..Len(r) -> 1..Len(s)] :
           /\ \A m \in 1..Len(r) : r[m] = s[f[m]]
           /\ \A m, n \in 1..Len(r) : f[m] = f[n] => m = n
    <3> HIDE DEF r
    <3> QED BY <2>0, ThinnedElements
  <2>5. DOMAIN r = 1..Len(r)
    BY <2>1, LenProperties
  <2> HIDE DEF r
  <2>6. ASSUME NEW j \in 1..Len(r), NEW k \in 1..Len(r), r[j].esi = r[k].esi PROVE j = k
    <3>1. s[f[j]].esi = s[f[k]].esi /\ f[j] \in DOMAIN s /\ f[k] \in DOMAIN s
      BY <1>1, <2>4, <2>6
    <3>2. f[j] = f[k]
      BY <3>1 DEF OneEach
    <3> QED BY <2>4, <3>2
  <2>7. OneEach(r)
    BY <2>5, <2>6 DEF OneEach
  <2> QED BY <1>3, <2>1, <2>3, <2>7 DEF r
<1> QED BY <1>2, <1>3, ForgetEsiTakes

-----------------------------------------------------------------------------
(* The four queues, and the list of waiters *)

In(q) == ToSet(queue[q])
Waiters == {c.esi : c \in ToSet(expecting)}

\* No ESI is twice in a queue, or in two queues.
Apart ==
    /\ \A q \in QueueName : IsInjective(queue[q])
    /\ \A p, q \in QueueName : p # q => In(p) \cap In(q) = {}

\* Who is queued is connected; who is being buried is not queued; who finished is in
\* no queue but that of execution.
Present ==
    /\ \A q \in QueueName, e \in Fd : e \in In(q) =>
           e \in open \/ (main.pc = "finish" /\ e = executing /\ q = "execution")
    /\ main.pc = "release" /\ main.after # "finish" =>
           \A q \in QueueName : main.esi \notin In(q)
    /\ main.fin => \A q \in QueueName \ {"execution"} : executing \notin In(q)

\* The waiters are those in the blocked queue, and each waits once; while an ESI is
\* being buried, it is in the list and not in the queue.
Waiting ==
    /\ OneEach(expecting)
    /\ In("blocked") = IF main.pc = "release" THEN Waiters \ {main.esi} ELSE Waiters

\* Nobody waits for a key of its own, not even for one it is just giving back; so
\* burying an ESI never wakes it.
NoSelfWait ==
    /\ \A c \in ToSet(expecting) : ~Holds(c.esi, c.key)
    /\ main.pc = "release" =>
           \A i \in DOMAIN main.snap : main.snap[i].esi = main.esi =>
               \A c \in ToSet(expecting) : c.esi = main.esi => c.key # main.snap[i].key
    /\ \A e \in Fd : esi[e].st = "blocked" => lastKey = Freed \/ ~Holds(e, lastKey)

\* The command bloquear is not used.
NoBlock == ~flag.block /\ main.pc \notin {"filter", "blocking", "leftover"}

QueueInv == Apart /\ Present /\ Waiting /\ NoSelfWait /\ NoBlock

\* The conditions: no failed handshake, and neither of the two ways in which the
\* program puts an ESI twice in its queues, preemption (Planificador_twice) and two
\* requests of the console to block the same ESI.
Orderly ==
    /\ "handshake" \notin Failures
    /\ Algorithm # "SJFCD" /\ "bloquear" \notin Commands

\* These conditions include the earlier ones.
LEMMA OrderlyUnbroken == Orderly => Unbroken /\ ~Preemptive
BY DEF Orderly, Unbroken, Preemptive

\* The members of the queues are ESIs.
LEMMA QueueTypes ==
  ASSUME TypeOK
  PROVE  \A q \in QueueName : queue[q] \in Seq(Fd) /\ In(q) \subseteq Fd
<1>1. \A q \in QueueName : queue[q] \in Seq(Fd)
  BY DEF TypeOK
<1>2. \A s \in Seq(Fd) : ToSet(s) \subseteq Fd
  BY ElementOfSeq, LenProperties DEF ToSet
<1> QED BY <1>1, <1>2 DEF In

\* move_esi_from_and_to_queue of an ESI that is in the first queue.
LEMMA MoveApart ==
  ASSUME TypeOK, Apart, NEW from \in QueueName, NEW to \in QueueName, from # to,
         NEW e \in In(from), queue' = MoveEsi(from, to, e)
  PROVE  /\ Apart'
         /\ In(from)' = In(from) \ {e} /\ In(to)' = In(to) \cup {e}
         /\ \A q \in QueueName \ {from, to} : In(q)' = In(q)
<1>1. /\ queue[from] \in Seq(Fd) /\ queue[to] \in Seq(Fd) /\ e \in Fd /\ e \notin In(to)
      /\ IsInjective(queue[from]) /\ IsInjective(queue[to])
  BY QueueTypes DEF Apart
<1>2. /\ queue'[from] = RemoveFirst(queue[from], e) /\ queue'[to] = Append(queue[to], e)
      /\ \A q \in QueueName \ {from, to} : queue'[q] = queue[q]
  BY DEF MoveEsi, TypeOK
<1>3. In(from)' = In(from) \ {e} /\ IsInjective(queue'[from])
  BY <1>1, <1>2, RemoveFirstSet DEF In
<1>4. In(to)' = In(to) \cup {e} /\ IsInjective(queue'[to])
  BY <1>1, <1>2, AppendSet DEF In
<1>5. \A q \in QueueName \ {from, to} : In(q)' = In(q) /\ IsInjective(queue'[q])
  BY <1>2 DEF In, Apart
<1>6. \A q \in QueueName : IsInjective(queue'[q])
  BY <1>3, <1>4, <1>5
<1>7. ASSUME NEW p \in QueueName, NEW q \in QueueName, p # q
      PROVE  In(p)' \cap In(q)' = {}
  <2>1. \A r \in QueueName \ {from} : e \notin In(r)
    BY DEF Apart
  <2>2. In(p) \cap In(q) = {}
    BY <1>7 DEF Apart
  <2>3. CASE p = to
    BY <1>3, <1>4, <1>5, <1>7, <2>1, <2>2, <2>3
  <2>4. CASE q = to
    BY <1>3, <1>4, <1>5, <1>7, <2>1, <2>2, <2>4
  <2>5. CASE p # to /\ q # to
    BY <1>3, <1>5, <2>2, <2>5
  <2> QED BY <2>3, <2>4, <2>5
<1> QED BY <1>3, <1>4, <1>5, <1>6, <1>7 DEF Apart

\* An ESI leaves some of the queues.
LEMMA LeaveApart ==
  ASSUME TypeOK, Apart, NEW e,
         \A q \in QueueName : queue'[q] \in {queue[q], RemoveFirst(queue[q], e)}
  PROVE  /\ Apart'
         /\ \A q \in QueueName : /\ In(q)' \in {In(q), In(q) \ {e}}
                                 /\ queue'[q] = RemoveFirst(queue[q], e)
                                       => In(q)' = In(q) \ {e}
<1>1. ASSUME NEW q \in QueueName
      PROVE  /\ IsInjective(queue'[q])
             /\ In(q)' \in {In(q), In(q) \ {e}}
             /\ queue'[q] = RemoveFirst(queue[q], e) => In(q)' = In(q) \ {e}
  <2>1. queue[q] \in Seq(Fd) /\ IsInjective(queue[q])
    BY QueueTypes DEF Apart
  <2>2. /\ IsInjective(RemoveFirst(queue[q], e))
        /\ ToSet(RemoveFirst(queue[q], e)) = ToSet(queue[q]) \ {e}
    BY <2>1, RemoveFirstSet
  <2> QED BY <2>1, <2>2 DEF In
<1>2. \A p, q \in QueueName : p # q => In(p)' \cap In(q)' = {}
  BY <1>1 DEF Apart
<1> QED BY <1>1, <1>2 DEF Apart

\* A key is held after a step only if it was held before.
LEMMA ThinnedHolds ==
  ASSUME NEW S, locked \in Seq(S), Thinned(locked', locked), NEW e, NEW k, Holds(e, k)'
  PROVE  Holds(e, k)
<1>1. PICK f \in [1..Len(locked') -> 1..Len(locked)] :
           \A m \in 1..Len(locked') : locked'[m] = locked[f[m]]
  BY ThinnedElements
<1>2. DOMAIN locked' = 1..Len(locked') /\ DOMAIN locked = 1..Len(locked)
  BY ThinnedElements, LenProperties
<1> QED BY <1>1, <1>2 DEF Holds

\* The ESIs of E go from the blocked queue to the ready queue: at most one, the first
\* that waits for k.
Woken(k, E) ==
    /\ Apart' /\ OneEach(expecting)'
    /\ In("blocked")' = In("blocked") \ E /\ In("ready")' = In("ready") \cup E
    /\ \A q \in {"new", "execution"} : In(q)' = In(q)
    /\ ToSet(expecting') = {c \in ToSet(expecting) : c.esi \notin E}
    /\ E # {} => \E c \in ToSet(expecting) : c.key = k /\ E = {c.esi}
    /\ E = {} => UNCHANGED <<queue, expecting>> /\ \A c \in ToSet(expecting) : c.key # k
    /\ flag'.block = flag.block

\* update_blocked_esi_queue: nothing happens to the queues, or the first ESI that waits
\* for the key leaves the blocked queue and the list of waiters.
LEMMA UpdateMoves ==
  ASSUME TypeOK, Apart, OneEach(expecting), NEW k, NEW slot \in {"update", "unlock"},
         NEW was \in BOOLEAN, ~WakesStranger(k), UpdateBlockedEsiQueue(k, slot, was),
         \A c \in ToSet(expecting) : c.key = k => c.esi \in In("blocked")
  PROVE  \E E \in SUBSET In("blocked") : Woken(k, E)
<1>0. DOMAIN expecting = 1..Len(expecting) /\ expecting \in Seq(Claim)
  BY LenProperties DEF TypeOK
<1>1. CASE WaiterOf(k) = 0
  <2>1. UNCHANGED <<queue, expecting>> /\ flag' = [flag EXCEPT ![slot] = FALSE]
    BY <1>1 DEF UpdateBlockedEsiQueue
  <2>2. \A c \in ToSet(expecting) : c.key # k
    <3>1. \A i \in 1..Len(expecting) : expecting[i].key # k
      <4> SUFFICES ASSUME NEW i \in 1..Len(expecting), expecting[i].key = k PROVE FALSE
        OBVIOUS
      <4>1. FirstOfKey(expecting, k) \in 1..Len(expecting)
        BY <1>0, FirstOfKeyHas
      <4> QED BY <1>1, <4>1 DEF WaiterOf
    <3> QED BY <1>0, <3>1 DEF ToSet
  <2>3. flag'.block = flag.block
    BY <2>1 DEF TypeOK, FlagName
  <2>4. {} \in SUBSET In("blocked")
    OBVIOUS
  <2>5. Woken(k, {})
    BY <2>1, <2>2, <2>3 DEF Apart, In, Woken
  <2> QED BY <2>4, <2>5
<1>2. CASE WaiterOf(k) # 0
  <2> DEFINE c == expecting[WaiterOf(k)]
             e == c.esi
  <2>1. c \in ToSet(expecting) /\ c.key = k
    <3>1. WaiterOf(k) \in 1..Len(expecting)
      BY <1>0, <1>2, FirstOfKeyIndex DEF WaiterOf
    <3>2. \E i \in 1..Len(expecting) : expecting[i].key = k
      <4> SUFFICES ASSUME \A i \in 1..Len(expecting) : expecting[i].key # k PROVE FALSE
        OBVIOUS
      <4>1. {i \in 1..Len(expecting) : expecting[i].key = k} = {}
        OBVIOUS
      <4>2. WaiterOf(k) = 0
        BY <4>1 DEF WaiterOf, FirstOfKey, SelectInSeq
      <4> QED BY <1>2, <4>2
    <3>3. expecting[WaiterOf(k)].key = k
      BY <1>0, <3>2, FirstOfKeyHas DEF WaiterOf
    <3> QED BY <1>0, <3>1, <3>3 DEF ToSet
  <2>2. e \in In("blocked")
    BY <2>1
  <2>3. /\ queue' = MoveEsi("blocked", "ready", e) /\ expecting' = ForgetEsi(expecting, e)
        /\ flag' = [flag EXCEPT ![slot] = FALSE,
                                !.reschedule = flag.reschedule \/ Preemptive]
    BY <1>2 DEF UpdateBlockedEsiQueue
  <2>4. flag'.block = flag.block
    <3>1. "block" \in FlagName /\ slot # "block"
      BY DEF FlagName
    <3> QED BY <2>3, <3>1, Zenon DEF TypeOK
  <2> HIDE DEF c, e
  <2>5. /\ Apart'
        /\ In("blocked")' = In("blocked") \ {e} /\ In("ready")' = In("ready") \cup {e}
        /\ \A q \in {"new", "execution"} : In(q)' = In(q)
    BY <2>2, <2>3, MoveApart DEF QueueName
  <2>6. OneEach(expecting') /\ ToSet(expecting') = {d \in ToSet(expecting) : d.esi # e}
    <3>1. /\ OneEach(ForgetEsi(expecting, e))
          /\ ToSet(ForgetEsi(expecting, e)) = {d \in ToSet(expecting) : d.esi # e}
      <4>1. expecting \in Seq(Claim) /\ OneEach(expecting)
        BY <1>0
      <4> QED BY <4>1, ForgetEsiSet
    <3>2. expecting' = ForgetEsi(expecting, e)
      BY <2>3
    <3> QED BY <3>1, <3>2
  <2>7. {e} \in SUBSET In("blocked") /\ {e} # {}
    BY <2>2
  <2>8. \E d \in ToSet(expecting) : d.key = k /\ {e} = {d.esi}
    BY <2>1 DEF e
  <2>9. ToSet(expecting') = {d \in ToSet(expecting) : d.esi \notin {e}}
    BY <2>6
  <2>10. Woken(k, {e})
    BY <2>4, <2>5, <2>6, <2>7, <2>8, <2>9 DEF Woken
  <2> QED BY <2>7, <2>10
<1> QED BY <1>1, <1>2

\* Steps that leave the queues, the waiters and the locks alone, and begin or end no
\* burial.
LEMMA QuietQueues ==
  ASSUME QueueInv, UNCHANGED <<queue, expecting, locked, open>>,
         \/ UNCHANGED <<main, executing>>
         \/ /\ main.pc \notin {"release", "finish"}
            /\ main'.pc \notin {"release", "finish", "filter", "blocking", "leftover"}
            /\ main'.fin => main.fin /\ executing' = executing,
         flag'.block => flag.block,
         \A e \in Fd : esi'[e].st = "blocked" => esi[e].st = "blocked" /\ lastKey' = lastKey
  PROVE  QueueInv'
<1>1. Apart'
  BY DEF QueueInv, Apart, In
<1>2. Present'
  BY DEF QueueInv, Present, In
<1>3. Waiting'
  BY DEF QueueInv, Waiting, In, Waiters
<1>4. NoSelfWait'
  BY DEF QueueInv, NoSelfWait, Holds
<1>5. NoBlock'
  BY DEF QueueInv, NoBlock
<1> QED BY <1>1, <1>2, <1>3, <1>4, <1>5 DEF QueueInv

\* The ESI that talks is in the execution queue, and nobody else is.
LEMMA TalkerIn ==
  ASSUME Steady, NEW e \in Fd, Talking(e)
  PROVE  In("execution") = {e} /\ e = executing /\ main.pc = "select"
BY TalkerExecutes, OneInSet DEF Steady, In

\* An ESI connects: its number was nobody's.
LEMMA ArriveQueues ==
  ASSUME Steady, QueueInv, Orderly, NEW e \in Fd, Accept(e) \/ AcceptWithoutHandshake(e)
  PROVE  QueueInv'
<1> USE DEF keyVars, term, world, tables
<1>1. ArriveEsi(e, TRUE) /\ TypeOK
  BY DEF Accept, AcceptWithoutHandshake, Orderly, Steady
<1>2. /\ main.pc = "select" /\ UNCHANGED <<main, executing, locked, expecting, lastKey>>
      /\ open' = open \cup {e} /\ e \notin open
      /\ queue'["new"] = Append(queue["new"], e)
      /\ \A q \in QueueName \ {"new"} : queue'[q] = queue[q]
      /\ flag'.block = flag.block
      /\ esi'[e].st = "idle" /\ \A f \in Fd : f # e => esi'[f] = esi[f]
  BY <1>1 DEF ArriveEsi, TypeOK, QueueName, FlagName, NoProcess
<1>3. \A q \in QueueName : e \notin In(q)
  BY <1>2 DEF QueueInv, Present
<1>4. "new" \in QueueName
  BY DEF QueueName
<1>5. In("new")' = In("new") \cup {e} /\ IsInjective(queue'["new"])
  BY <1>1, <1>2, <1>3, <1>4, AppendSet, QueueTypes DEF In, QueueInv, Apart
<1>6. \A q \in QueueName \ {"new"} : In(q)' = In(q) /\ IsInjective(queue'[q])
  BY <1>2 DEF In, QueueInv, Apart
<1>7. Apart'
  <2>1. \A q \in QueueName : IsInjective(queue'[q])
    BY <1>5, <1>6
  <2>2. ASSUME NEW p \in QueueName, NEW q \in QueueName, p # q
        PROVE  In(p)' \cap In(q)' = {}
    <3>1. In(p) \cap In(q) = {}
      BY <2>2 DEF QueueInv, Apart
    <3>2. CASE p = "new"
      BY <1>3, <1>5, <1>6, <2>2, <3>1, <3>2
    <3>3. CASE q = "new"
      BY <1>3, <1>5, <1>6, <2>2, <3>1, <3>3
    <3>4. CASE p # "new" /\ q # "new"
      BY <1>6, <3>1, <3>4
    <3> QED BY <3>2, <3>3, <3>4
  <2> QED BY <2>1, <2>2 DEF Apart
<1>8. Present'
  <2>1. ASSUME NEW q \in QueueName, NEW f \in Fd, f \in In(q)' PROVE f \in open'
    <3>1. f \in In(q) \/ f = e
      BY <1>4, <1>5, <1>6, <2>1
    <3>2. f \in In(q) => f \in open
      BY <1>2 DEF QueueInv, Present
    <3> QED BY <1>2, <3>1, <3>2
  <2>2. ~main.fin
    BY <1>2 DEF Steady, Control
  <2> QED BY <1>2, <2>1, <2>2 DEF Present
<1>9. Waiting'
  BY <1>2, <1>6 DEF QueueInv, Waiting, Waiters, QueueName
<1>10. NoSelfWait'
  BY <1>2 DEF QueueInv, NoSelfWait, Holds
<1>11. NoBlock'
  BY <1>2 DEF QueueInv, NoBlock
<1> QED BY <1>7, <1>8, <1>9, <1>10, <1>11 DEF QueueInv

\* The coordinator's questions about the sentence in flight.
LEMMA ConversationQueues ==
  ASSUME Steady, QueueInv, Orderly, ~Crash, NEW s \in Fd \cup {Ghost}, Conversation(s)
  PROVE  QueueInv'
<1> USE DEF keyVars, term, world, tables
<1>1. CASE IsKeyBlockedByExecutingEsi(s)
  <2>1. /\ UNCHANGED <<main, executing, queue, expecting, locked, open, flag>>
        /\ esi[s].st = "asking" /\ main.pc = "select"
    BY <1>1 DEF IsKeyBlockedByExecutingEsi, CoordinatorMessage
  <2>2. CASE s = Ghost
    <3>1. /\ \A e \in Fd : esi'[e] = esi[e]
          /\ lastKey' \in {lastKey, Freed}
      BY <1>1, <2>2, ConstantsAssumption DEF IsKeyBlockedByExecutingEsi, Advance, TypeOK, Steady
    <3>2. NoSelfWait'
      BY <2>1, <3>1 DEF QueueInv, NoSelfWait, Holds
    <3> QED BY <2>1, <3>2 DEF QueueInv, Apart, Present, Waiting, NoBlock, In, Waiters
  <2>3. CASE s # Ghost
    <3>1. s \in Fd /\ Talking(s)
      BY <2>1, <2>3 DEF Talking, InFlight
    <3>2. queue["execution"] = <<s>> /\ Head(queue["execution"]) = s
      BY <3>1, TalkerExecutes, OneElement DEF Steady
    <3>3. \A e \in Fd : e # s => esi'[e] = esi[e] /\ esi[e].st # "blocked"
      <4>1. \A e \in Fd : e # s => ~Talking(e)
        BY <3>1, TalkerExecutes DEF Steady
      <4>2. \A e \in Fd : e # s => esi'[e] = esi[e]
        BY <1>1, <3>1 DEF IsKeyBlockedByExecutingEsi, Advance, TypeOK, Steady
      <4> QED BY <4>1, <4>2 DEF Talking
    <3>4. esi'[s].st = "blocked" => ~Holds(s, lastKey) /\ lastKey' = lastKey
      <4>1. CASE Locked(lastKey) /\ Holds(Head(queue["execution"]), lastKey)
        <5>1. PICK st \in {"ok", "working"} : Advance(s, st)
          BY <1>1, <4>1 DEF IsKeyBlockedByExecutingEsi
        <5>2. esi'[s].st = st
          BY <2>3, <5>1 DEF Advance, TypeOK, Steady, Process
        <5> QED BY <5>2
      <4>2. CASE ~(Locked(lastKey) /\ Holds(Head(queue["execution"]), lastKey))
        <5>1. ~Holds(s, lastKey)
          BY <3>2, <4>2 DEF Locked, Holds
        <5>2. lastKey' = lastKey
          BY <1>1, <4>2 DEF IsKeyBlockedByExecutingEsi
        <5> QED BY <5>1, <5>2
      <4> QED BY <4>1, <4>2
    <3>5. NoSelfWait'
      BY <2>1, <3>3, <3>4 DEF QueueInv, NoSelfWait, Holds
    <3> QED BY <2>1, <3>5 DEF QueueInv, Apart, Present, Waiting, NoBlock, In, Waiters
  <2> QED BY <2>2, <2>3
<1>2. CASE BlockKey(s)
  <2> DEFINE c == [esi |-> Head(queue["execution"]), key |-> lastKey]
  <2>1. /\ UNCHANGED <<main, executing, queue, expecting, open, flag>>
        /\ main.pc = "select" /\ queue["execution"] # <<>>
        /\ locked' = Append(locked, c) /\ lastKey' = Freed
    BY <1>2 DEF BlockKey, CoordinatorMessage
  <2>2. /\ Turn = executing /\ executing \in Fd /\ Head(queue["execution"]) = executing
        /\ executing \in In("execution")
    <3>1. Turn = executing
      BY <2>1 DEF Turn
    <3> QED BY <2>1, <3>1, ExecutionType, OneInSet DEF Steady, ExecInv, In
  <2>3. \A d \in ToSet(expecting) : d.esi # executing
    <3>1. executing \notin In("blocked")
      BY <2>2 DEF QueueInv, Apart, QueueName
    <3> QED BY <2>1, <3>1 DEF QueueInv, Waiting, Waiters
  <2>4. \A e, k : Holds(e, k)' => Holds(e, k) \/ e = executing
    <3> DEFINE t == Append(locked, c)
    <3>0. c \in Claim /\ c.esi = executing /\ locked \in Seq(Claim)
      BY <2>2 DEF Claim, AnyEsi, Steady, TypeOK
    <3>1. /\ Len(t) = Len(locked) + 1 /\ t \in Seq(Claim)
          /\ \A i \in 1..Len(locked) : t[i] = locked[i]
          /\ t[Len(locked) + 1] = c
      <4> HIDE DEF c
      <4> QED BY <3>0, AppendProperties
    <3> HIDE DEF c, t
    <3>2. DOMAIN t = 1..(Len(locked) + 1) /\ DOMAIN locked = 1..Len(locked) /\ Len(locked) \in Nat
      BY <3>0, <3>1, LenProperties
    <3>3. \A i \in DOMAIN t : (i \in DOMAIN locked /\ t[i] = locked[i]) \/ t[i] = c
      BY <3>1, <3>2
    <3>4. locked' = t
      BY <2>1 DEF t
    <3> QED BY <3>0, <3>3, <3>4 DEF Holds
  <2>5. NoSelfWait'
    <3>1. \A d \in ToSet(expecting') : ~Holds(d.esi, d.key)'
      BY <2>1, <2>3, <2>4 DEF QueueInv, NoSelfWait
    <3> QED BY <2>1, <3>1 DEF NoSelfWait
  <2> QED BY <2>1, <2>5 DEF QueueInv, Apart, Present, Waiting, NoBlock, In, Waiters
<1>3. CASE UnlockKey(s) \/ InstanceAnswers(s)
  <2>1. UNCHANGED <<main, executing, queue, expecting, locked, open, lastKey>>
    BY <1>3 DEF UnlockKey, InstanceAnswers
  <2>2. flag'.block = flag.block
    BY <1>3 DEF UnlockKey, InstanceAnswers, Steady, TypeOK, FlagName
  <2>3. PICK st \in {"ok", "unlocking", "gone"} : Advance(s, st)
    BY <1>3 DEF UnlockKey, InstanceAnswers
  <2>4. \A e \in Fd : esi'[e].st = "blocked" => esi[e].st = "blocked"
    <3>1. CASE s = Ghost
      BY <2>3, <3>1, ConstantsAssumption DEF Advance, Steady, TypeOK
    <3>2. CASE s # Ghost
      <4>1. esi' = [esi EXCEPT ![s] = [esi[s] EXCEPT !.st = st]] /\ esi[s] \in Process
        BY <2>3, <3>2 DEF Advance, Steady, TypeOK
      <4>2. esi'[s].st = st /\ \A e \in Fd : e # s => esi'[e] = esi[e]
        BY <4>1, <3>2 DEF Steady, TypeOK, Process
      <4> QED BY <4>2
    <3> QED BY <3>1, <3>2
  <2> QED BY <2>1, <2>2, <2>4, QuietQueues
<1> QED BY <1>1, <1>2, <1>3 DEF Conversation

\* sock_my_port of an ESI that is connected: it leaves every queue, and its keys are
\* to be given back.
LEMMA SockMyPortQueues ==
  ASSUME Steady, QueueInv, ~Crash, NEW e, NEW i,
         \/ main.pc = "select" /\ SockMyPort(executing, "opcode", i) /\ e = executing
         \/ main.pc = "corpses" /\ SockMyPort(e, "corpses", i)
  PROVE  QueueInv'
<1> USE DEF keyVars, term, world, tables
<1>1. PICK after \in {"opcode", "corpses"} : SockMyPort(e, after, i)
  OBVIOUS
<1>2. /\ queue' = [q \in QueueName |-> RemoveFirst(queue[q], e)] /\ e \in Fd
      /\ main' = [main EXCEPT !.pc = "release", !.esi = e, !.after = after,
                              !.snap = locked, !.i = i]
      /\ UNCHANGED <<expecting, locked, flag, executing, lastKey, open, esi>>
  BY <1>1 DEF SockMyPort, Known
<1>3. /\ main'.pc = "release" /\ main'.esi = e /\ main'.after = after
      /\ main'.snap = locked /\ main'.fin = main.fin
  BY <1>2 DEF Steady, TypeOK, Locals
<1>4. Apart' /\ \A q \in QueueName : In(q)' = In(q) \ {e}
  BY <1>2, LeaveApart DEF Steady, QueueInv
<1>5. main.pc \notin {"release", "finish"}
  OBVIOUS
<1>6. Present'
  <2>1. \A q \in QueueName, f \in Fd : f \in In(q)' => f \in open'
    BY <1>2, <1>4, <1>5 DEF QueueInv, Present
  <2>2. \A q \in QueueName : e \notin In(q)'
    BY <1>4
  <2>3. main.fin => \A q \in QueueName \ {"execution"} : executing \notin In(q)'
    BY <1>4 DEF QueueInv, Present
  <2> QED BY <1>2, <1>3, <2>1, <2>2, <2>3 DEF Present
<1>7. Waiting'
  <2>1. In("blocked") = Waiters /\ Waiters' = Waiters /\ OneEach(expecting')
    BY <1>2, <1>5 DEF QueueInv, Waiting, Waiters
  <2>2. In("blocked")' = In("blocked") \ {e}
    BY <1>4 DEF QueueName
  <2> QED BY <1>3, <2>1, <2>2 DEF Waiting
<1>8. NoSelfWait'
  <2>1. \A c \in ToSet(expecting') : ~Holds(c.esi, c.key)'
    BY <1>2 DEF QueueInv, NoSelfWait, Holds
  <2>2. ASSUME NEW n \in DOMAIN main'.snap, main'.snap[n].esi = main'.esi,
               NEW c \in ToSet(expecting'), c.esi = main'.esi
        PROVE  c.key # main'.snap[n].key
    BY <1>2, <1>3, <2>2 DEF QueueInv, NoSelfWait, Holds
  <2>3. \A f \in Fd : esi'[f].st = "blocked" => lastKey' = Freed \/ ~Holds(f, lastKey)'
    BY <1>2 DEF QueueInv, NoSelfWait, Holds
  <2> QED BY <2>1, <2>2, <2>3 DEF NoSelfWait
<1>9. NoBlock'
  BY <1>2, <1>3 DEF QueueInv, NoBlock
<1> QED BY <1>4, <1>6, <1>7, <1>8, <1>9 DEF QueueInv

\* PROTOCOL_EP_I_AM_BLOCKED: the executing ESI waits for the key of its GET.
LEMMA IAmBlockedQueues ==
  ASSUME Steady, QueueInv, ~Crash, IAmBlocked
  PROVE  QueueInv'
<1> USE DEF keyVars, term, world, tables
<1> DEFINE x == executing
           c == [esi |-> x, key |-> lastKey]
<1>1. /\ main.pc = "select" /\ x \in Fd /\ esi[x].st = "blocked" /\ lastKey # Freed
      /\ expecting' = Append(expecting, c)
      /\ queue' = MoveEsi("execution", "blocked", x)
      /\ flag' = WhenOthersReady(flag) /\ lastKey' = Freed
      /\ esi' = [esi EXCEPT ![x].st = "idle", ![x].retry = TRUE]
      /\ main' = [main EXCEPT !.pc = "burn", !.ctx = "result"]
      /\ UNCHANGED <<locked, executing, open>>
  BY DEF IAmBlocked, FromExecutingEsi, Steady, TypeOK
<1>2. main'.pc = "burn" /\ main'.fin = main.fin
  BY <1>1 DEF Steady, TypeOK, Locals
<1>3. x \in In("execution") /\ {"execution", "blocked"} \subseteq QueueName
  <2>1. Talking(x)
    BY <1>1 DEF Talking
  <2> QED BY <1>1, <2>1, TalkerIn DEF QueueName
<1>4. /\ Apart'
      /\ In("execution")' = In("execution") \ {x} /\ In("blocked")' = In("blocked") \cup {x}
      /\ \A q \in QueueName \ {"execution", "blocked"} : In(q)' = In(q)
  BY <1>1, <1>3, MoveApart DEF Steady, QueueInv
<1>5. In("blocked") = Waiters /\ x \notin In("blocked")
  BY <1>1, <1>3 DEF QueueInv, Waiting, Apart
<1>6. /\ ToSet(expecting') = ToSet(expecting) \cup {c} /\ OneEach(expecting')
  <2>1. c \in Claim /\ expecting \in Seq(Claim)
    BY <1>1 DEF Claim, AnyEsi, Steady, TypeOK
  <2>2. ToSet(Append(expecting, c)) = ToSet(expecting) \cup {c}
    <3> HIDE DEF c
    <3> QED BY <2>1, AppendSet
  <2>3. OneEach(Append(expecting, c))
    <3> DEFINE t == Append(expecting, c)
    <3>1. /\ Len(t) = Len(expecting) + 1 /\ t \in Seq(Claim)
          /\ \A i \in 1..Len(expecting) : t[i] = expecting[i]
          /\ t[Len(expecting) + 1] = c
      <4> HIDE DEF c
      <4> QED BY <2>1, AppendProperties
    <3>2. c.esi = x
      OBVIOUS
    <3> HIDE DEF c, t
    <3>3. /\ DOMAIN t = 1..(Len(expecting) + 1) /\ DOMAIN expecting = 1..Len(expecting)
          /\ Len(expecting) \in Nat
      BY <2>1, <3>1, LenProperties
    <3>4. \A i \in DOMAIN expecting : expecting[i].esi # x
      BY <1>5 DEF Waiters, ToSet
    <3>5. ASSUME NEW i \in DOMAIN t, NEW j \in DOMAIN t, t[i].esi = t[j].esi PROVE i = j
      <4>1. CASE i \in DOMAIN expecting /\ j \in DOMAIN expecting
        <5>1. expecting[i].esi = expecting[j].esi
          BY <3>1, <3>3, <3>5, <4>1
        <5> QED BY <4>1, <5>1 DEF QueueInv, Waiting, OneEach
      <4>2. CASE i \notin DOMAIN expecting /\ j \notin DOMAIN expecting
        BY <3>3, <4>2
      <4>3. CASE i \in DOMAIN expecting /\ j \notin DOMAIN expecting
        BY <3>1, <3>2, <3>3, <3>4, <3>5, <4>3
      <4>4. CASE i \notin DOMAIN expecting /\ j \in DOMAIN expecting
        BY <3>1, <3>2, <3>3, <3>4, <3>5, <4>4
      <4> QED BY <4>1, <4>2, <4>3, <4>4
    <3> QED BY <3>5 DEF OneEach, t
  <2> QED BY <1>1, <2>2, <2>3
<1>7. Waiters' = Waiters \cup {x}
  <2>1. c.esi = x
    OBVIOUS
  <2> HIDE DEF c, x
  <2>2. Waiters' = {d.esi : d \in ToSet(expecting')}
    BY DEF Waiters
  <2> QED BY <1>6, <2>1, <2>2 DEF Waiters
<1>8. Present'
  <2>1. \A q \in QueueName, f \in Fd : f \in In(q)' => f \in open
    BY <1>1, <1>3, <1>4 DEF QueueInv, Present
  <2>2. ~main'.fin
    BY <1>1, <1>2 DEF Steady, Control
  <2> QED BY <1>1, <1>2, <2>1, <2>2 DEF Present
<1>9. Waiting'
  BY <1>2, <1>4, <1>5, <1>6, <1>7 DEF Waiting
<1>10. NoSelfWait'
  <2>1. \A e, k : Holds(e, k)' = Holds(e, k)
    BY <1>1 DEF Holds
  <2>2. ~Holds(x, lastKey)
    BY <1>1 DEF QueueInv, NoSelfWait
  <2>3. \A d \in ToSet(expecting') : ~Holds(d.esi, d.key)'
    BY <1>6, <2>1, <2>2 DEF QueueInv, NoSelfWait
  <2> QED BY <1>1, <1>2, <2>3 DEF NoSelfWait
<1>11. NoBlock'
  BY <1>1, <1>2 DEF QueueInv, NoBlock, WhenOthersReady, Steady, TypeOK, FlagName
<1> QED BY <1>4, <1>8, <1>9, <1>10, <1>11 DEF QueueInv

\* EXECUTION_SUCCESS: who finished is in no queue but that of execution.
LEMMA SuccessQueues ==
  ASSUME Steady, QueueInv, NEW finish \in BOOLEAN, ExecutionSuccess(finish)
  PROVE  QueueInv'
<1> USE DEF keyVars, term, world, tables
<1> DEFINE x == executing
<1>1. /\ main.pc = "select" /\ x \in Fd /\ esi[x].st = "ok"
      /\ esi' = [esi EXCEPT ![x].st = IF finish THEN "gone" ELSE "idle"]
      /\ flag' = IF finish THEN WhenOthersReady(flag) ELSE flag
      /\ main' = [main EXCEPT !.pc = "burn", !.ctx = "result", !.fin = finish]
      /\ UNCHANGED <<queue, expecting, locked, executing, lastKey, open>>
  BY DEF ExecutionSuccess, FromExecutingEsi, Steady, TypeOK
<1>2. main'.pc = "burn" /\ main'.fin = finish
  BY <1>1 DEF Steady, TypeOK, Locals
<1>3. x \in In("execution") /\ "execution" \in QueueName
  <2>1. Talking(x)
    BY <1>1 DEF Talking
  <2> QED BY <1>1, <2>1, TalkerIn DEF QueueName
<1>4. Present'
  <2>1. \A q \in QueueName \ {"execution"} : x \notin In(q)
    BY <1>3 DEF QueueInv, Apart
  <2> QED BY <1>1, <1>2, <2>1 DEF QueueInv, Present, In
<1>5. \A e \in Fd : esi'[e].st = "blocked" => esi[e].st = "blocked"
  <2>1. esi'[x].st # "blocked" /\ \A e \in Fd : e # x => esi'[e] = esi[e]
    BY <1>1 DEF Steady, TypeOK, Process
  <2> QED BY <2>1
<1>6. flag'.block = flag.block
  BY <1>1 DEF WhenOthersReady, Steady, TypeOK, FlagName
<1>7. NoSelfWait'
  BY <1>1, <1>2, <1>5 DEF QueueInv, NoSelfWait, Holds
<1>8. Apart' /\ Waiting' /\ NoBlock'
  BY <1>1, <1>2, <1>6 DEF QueueInv, Apart, Waiting, NoBlock, In, Waiters
<1> QED BY <1>4, <1>7, <1>8 DEF QueueInv

\* The executing ESI answers, or its socket is at its end.
LEMMA EsiEventsQueues ==
  ASSUME Steady, QueueInv, ~Crash, EsiEvents
  PROVE  QueueInv'
<1>1. CASE ExecutionFailure
  BY <1>1, SockMyPortQueues DEF ExecutionFailure, FromExecutingEsi
<1> QED BY <1>1, IAmBlockedQueues, SuccessQueues DEF EsiEvents

\* What update_blocked_esi_queue does to the queues keeps the invariant, when main()
\* goes on to a place that has no more to give back.
LEMMA UpdateKeeps ==
  ASSUME Steady, QueueInv, NEW k, NEW slot \in {"update", "unlock"}, NEW was \in BOOLEAN,
         ~WakesStranger(k), UpdateBlockedEsiQueue(k, slot, was),
         main.pc \notin {"finish", "filter", "blocking", "leftover"},
         main'.pc \notin {"finish", "filter", "blocking", "leftover"},
         (main.pc = "release") <=> (main'.pc = "release"),
         main'.fin = main.fin, main'.esi = main.esi, main'.after = main.after,
         \A i \in DOMAIN main'.snap : \E j \in DOMAIN main.snap : main'.snap[i] = main.snap[j],
         main.pc = "release" => ~ \E c \in ToSet(expecting) : c.key = k /\ c.esi = main.esi,
         UNCHANGED <<executing, open, esi, lastKey>>
  PROVE  QueueInv'
<1>0. \A c \in ToSet(expecting) :
          c.esi \in In("blocked") \/ (main.pc = "release" /\ c.esi = main.esi)
  BY DEF QueueInv, Waiting, Waiters
<1>1. PICK E \in SUBSET In("blocked") : Woken(k, E)
  <2>1. \A c \in ToSet(expecting) : c.key = k => c.esi \in In("blocked")
    BY <1>0
  <2> QED BY <2>1, UpdateMoves DEF Steady, QueueInv, Waiting
<1> USE DEF Woken
<1>2. Present'
  <2>1. \A q \in QueueName, e \in Fd : e \in In(q)' => e \in open'
    <3>1. \A q \in QueueName, e \in Fd : e \in In(q) => e \in open
      BY DEF QueueInv, Present
    <3>2. \A q \in QueueName : q \in {"new", "execution", "blocked", "ready"}
      BY DEF QueueName
    <3>3. {"new", "execution", "blocked", "ready"} \subseteq QueueName
      BY DEF QueueName
    <3>4. \A q \in QueueName, e \in Fd : e \in In(q)' => \E p \in QueueName : e \in In(p)
      <4> SUFFICES ASSUME NEW q \in QueueName, NEW e \in Fd, e \in In(q)'
                   PROVE  \E p \in QueueName : e \in In(p)
        OBVIOUS
      <4>1. CASE q \in {"new", "execution"}
        BY <4>1, <1>1
      <4>2. CASE q = "blocked"
        BY <4>2, <1>1
      <4>3. CASE q = "ready"
        <5>1. e \in In("ready") \/ e \in In("blocked")
          BY <4>3, <1>1
        <5> QED BY <5>1, <3>3
      <4> QED BY <3>2, <4>1, <4>2, <4>3
    <3> QED BY <3>1, <3>4
  <2>2. ASSUME NEW e, NEW Q \in SUBSET QueueName, "blocked" \in Q,
               \A q \in Q : e \notin In(q)
        PROVE  \A q \in Q : e \notin In(q)'
    BY <1>1, <2>2 DEF QueueName
  <2>3. main.pc = "release" /\ main.after # "finish" => \A q \in QueueName : main.esi \notin In(q)'
    BY <2>2 DEF QueueInv, Present, QueueName
  <2>4. main.fin => \A q \in QueueName \ {"execution"} : executing \notin In(q)'
    BY <2>2 DEF QueueInv, Present, QueueName
  <2> QED BY <2>1, <2>3, <2>4 DEF Present
<1>3. Waiting'
  <2>1. Waiters' = Waiters \ E
    <3>1. Waiters' = {c.esi : c \in ToSet(expecting')}
      BY DEF Waiters
    <3> QED BY <1>1, <3>1 DEF Waiters
  <2>2. In("blocked") = IF main.pc = "release" THEN Waiters \ {main.esi} ELSE Waiters
    BY DEF QueueInv, Waiting
  <2> QED BY <1>1, <2>1, <2>2 DEF Waiting
<1>4. NoSelfWait'
  <2>1. \A e, x : Holds(e, x)' => Holds(e, x)
    <3>1. locked \in Seq(Claim) /\ Thinned(locked', locked)
      BY UpdateType DEF Steady, TypeOK
    <3> QED BY <3>1, ThinnedHolds
  <2>2. ToSet(expecting') \subseteq ToSet(expecting)
    BY <1>1
  <2>3. \A c \in ToSet(expecting') : ~Holds(c.esi, c.key)'
    BY <2>1, <2>2 DEF QueueInv, NoSelfWait
  <2>4. ASSUME main'.pc = "release", NEW i \in DOMAIN main'.snap, main'.snap[i].esi = main'.esi,
               NEW c \in ToSet(expecting'), c.esi = main'.esi
        PROVE  c.key # main'.snap[i].key
    <3>1. PICK j \in DOMAIN main.snap : main'.snap[i] = main.snap[j]
      OBVIOUS
    <3> QED BY <2>2, <2>4, <3>1 DEF QueueInv, NoSelfWait
  <2>5. \A e \in Fd : esi'[e].st = "blocked" => lastKey' = Freed \/ ~Holds(e, lastKey)'
    BY <2>1 DEF QueueInv, NoSelfWait
  <2> QED BY <2>3, <2>4, <2>5 DEF NoSelfWait
<1>5. NoBlock'
  BY <1>1 DEF QueueInv, NoBlock
<1> QED BY <1>1, <1>2, <1>3, <1>4, <1>5 DEF QueueInv

\* release_resources: the keys go one by one; then the ESI is forgotten.
LEMMA ReleaseQueues ==
  ASSUME Steady, QueueInv, ~Crash, UninitialisedOpcode \/ ReleaseKey \/ ReleaseEnd
  PROVE  QueueInv'
<1> USE DEF keyVars, term, world, tables
<1>1. CASE UninitialisedOpcode
  <2>1. main.pc = "opcode" /\ main' = [main EXCEPT !.pc = "burn", !.ctx = "result"]
        /\ UNCHANGED <<queue, expecting, locked, open, executing, flag, esi, lastKey>>
    BY <1>1 DEF UninitialisedOpcode
  <2>2. main'.pc = "burn" /\ main'.fin = main.fin
    BY <2>1 DEF Steady, TypeOK, Locals
  <2> QED BY <2>1, <2>2, QuietQueues
<1>2. CASE ReleaseKey
  <2>1. PICK i \in DOMAIN main.snap :
            /\ main.snap[i].esi = main.esi
            /\ ~WakesStranger(main.snap[i].key)
            /\ UpdateBlockedEsiQueue(main.snap[i].key, "update", TRUE)
            /\ main' = [main EXCEPT !.snap = SubSeq(main.snap, i + 1, Len(main.snap))]
            /\ UNCHANGED <<alive, finished, info, executing, keyVars, req, term, world>>
    BY <1>2 DEF ReleaseKey, Pending
  <2>2. /\ main.pc = "release" /\ main'.pc = main.pc /\ main'.esi = main.esi
        /\ main'.after = main.after /\ main'.fin = main.fin
        /\ main'.snap = SubSeq(main.snap, i + 1, Len(main.snap))
        /\ main.snap \in Seq(Claim)
    BY <1>2, <2>1 DEF ReleaseKey, Steady, TypeOK, Locals
  <2>3. \A n \in DOMAIN main'.snap : \E j \in DOMAIN main.snap : main'.snap[n] = main.snap[j]
    <3>1. i \in 1..Len(main.snap)
      BY <2>2, LenProperties
    <3> QED BY <2>2, <3>1, SuffixSet
  <2>4. ~ \E c \in ToSet(expecting) : c.key = main.snap[i].key /\ c.esi = main.esi
    BY <2>1, <2>2 DEF QueueInv, NoSelfWait
  <2> QED BY <2>1, <2>2, <2>3, <2>4, UpdateKeeps
<1>3. CASE ReleaseEnd
  <2> DEFINE x == main.esi
  <2>1. /\ main.pc = "release" /\ expecting' = ForgetEsi(expecting, x)
        /\ locked' = ForgetEsi(locked, x) /\ open' = open \ {x} /\ esi' = Orphan(x)
        /\ main' = [main EXCEPT !.pc = main.after, !.snap = <<>>]
        /\ UNCHANGED <<queue, flag, executing, lastKey>>
    BY <1>3 DEF ReleaseEnd
  <2>2. /\ main'.pc = main.after /\ main'.fin = main.fin
        /\ main.after \in {"opcode", "corpses", "finish"} /\ x \in Fd
        /\ main.after = "finish" => x = executing /\ main.fin
    BY <2>1 DEF Steady, TypeOK, Locals, Control, ExecInv, Routes, Known
  <2>3. Apart' /\ \A q \in QueueName : In(q)' = In(q)
    BY <2>1 DEF QueueInv, Apart, In
  <2>4. OneEach(expecting') /\ ToSet(expecting') = {c \in ToSet(expecting) : c.esi # x}
    <3>1. /\ OneEach(ForgetEsi(expecting, x))
          /\ ToSet(ForgetEsi(expecting, x)) = {c \in ToSet(expecting) : c.esi # x}
      <4>1. expecting \in Seq(Claim) /\ OneEach(expecting)
        BY DEF Steady, TypeOK, QueueInv, Waiting
      <4> QED BY <4>1, ForgetEsiSet
    <3> QED BY <2>1, <3>1
  <2>5. Waiting'
    <3>1. Waiters' = {c.esi : c \in ToSet(expecting')}
      BY DEF Waiters
    <3>2. Waiters' = Waiters \ {x}
      BY <2>4, <3>1 DEF Waiters
    <3>3. In("blocked") = Waiters \ {x} /\ "blocked" \in QueueName
      BY <2>1 DEF QueueInv, Waiting, QueueName
    <3> QED BY <2>2, <2>3, <2>4, <3>2, <3>3 DEF Waiting
  <2>6. Present'
    <3>1. \A q \in QueueName, e \in Fd : e \in In(q) => e \in open
      BY <2>1 DEF QueueInv, Present
    <3>2. ASSUME NEW q \in QueueName, x \in In(q)
          PROVE  main'.pc = "finish" /\ x = executing /\ q = "execution"
      BY <2>1, <2>2, <3>2 DEF QueueInv, Present
    <3>3. main.fin => \A q \in QueueName \ {"execution"} : executing \notin In(q)
      BY DEF QueueInv, Present
    <3> QED BY <2>1, <2>2, <2>3, <3>1, <3>2, <3>3 DEF Present
  <2>7. NoSelfWait'
    <3>1. \A e, k : Holds(e, k)' => Holds(e, k)
      <4>1. locked \in Seq(Claim) /\ Thinned(locked', locked)
        BY <2>1, ForgetEsiThins DEF Steady, TypeOK
      <4> QED BY <4>1, ThinnedHolds
    <3>2. \A c \in ToSet(expecting') : ~Holds(c.esi, c.key)'
      BY <2>4, <3>1 DEF QueueInv, NoSelfWait
    <3>3. \A e \in Fd : esi'[e].st = "blocked" => esi[e].st = "blocked"
      <4>1. esi'[x].st = "off" /\ \A e \in Fd : e # x => esi'[e] = esi[e]
        BY <2>1, <2>2, ConstantsAssumption DEF Orphan, Steady, TypeOK, NoProcess
      <4> QED BY <4>1
    <3> QED BY <2>1, <2>2, <3>1, <3>2, <3>3 DEF NoSelfWait, QueueInv
  <2>8. NoBlock'
    BY <2>1, <2>2 DEF QueueInv, NoBlock
  <2> QED BY <2>3, <2>5, <2>6, <2>7, <2>8 DEF QueueInv
<1> QED BY <1>1, <1>2, <1>3

\* burn_esi_corpses, and the end of a script.
LEMMA BurnQueues ==
  ASSUME Steady, QueueInv, ~Crash,
         Burn \/ Corpse \/ CorpsesBurnt \/ FinishEsi \/ EsiFinished \/ Drain
  PROVE  QueueInv'
<1> USE DEF keyVars, term, world, tables
<1>1. CASE Corpse
  BY <1>1, SockMyPortQueues DEF Corpse
<1>2. CASE Burn \/ CorpsesBurnt \/ Drain
  <2>1. /\ UNCHANGED <<queue, expecting, locked, open, executing, esi, lastKey>>
        /\ main.pc \in {"burn", "corpses", "drain"}
    BY <1>2 DEF Burn, CorpsesBurnt, Drain
  <2>2. /\ main'.pc \in {"corpses", "drain", "update", "dispatch"} /\ main'.fin = main.fin
        /\ flag'.block = flag.block
    <3> USE DEF Steady, TypeOK, Locals, FlagName
    <3>1. CASE Burn          BY <3>1 DEF Burn, Goto
    <3>2. CASE CorpsesBurnt  BY <3>2 DEF CorpsesBurnt, Goto
    <3>3. CASE Drain         BY <3>3 DEF Drain, Goto
    <3> QED BY <1>2, <3>1, <3>2, <3>3
  <2> QED BY <2>1, <2>2, QuietQueues
<1>3. CASE FinishEsi
  <2>1. /\ main.pc = "drain" /\ main.fin
        /\ main' = [main EXCEPT !.pc = "release", !.esi = executing, !.after = "finish",
                                !.snap = locked]
        /\ UNCHANGED <<queue, expecting, locked, open, executing, esi, lastKey, flag>>
    BY <1>3 DEF FinishEsi
  <2>2. /\ main'.pc = "release" /\ main'.esi = executing /\ main'.after = "finish"
        /\ main'.snap = locked /\ main'.fin
    BY <2>1 DEF Steady, TypeOK, Locals
  <2>3. executing \notin In("blocked") /\ In("blocked") = Waiters
    BY <2>1 DEF QueueInv, Present, Waiting, QueueName
  <2>4. Waiting'
    BY <2>1, <2>2, <2>3 DEF QueueInv, Waiting, Waiters, In
  <2>5. NoSelfWait'
    <3>1. ASSUME NEW i \in DOMAIN main'.snap, main'.snap[i].esi = main'.esi,
                 NEW c \in ToSet(expecting'), c.esi = main'.esi
          PROVE  FALSE
      BY <2>1, <2>2, <2>3, <3>1 DEF Waiters
    <3> QED BY <2>1, <3>1 DEF QueueInv, NoSelfWait, Holds
  <2>6. Apart' /\ Present' /\ NoBlock'
    BY <2>1, <2>2 DEF QueueInv, Apart, Present, NoBlock, In
  <2> QED BY <2>4, <2>5, <2>6 DEF QueueInv
<1>4. CASE EsiFinished
  <2>1. /\ main.pc = "finish"
        /\ queue' = [queue EXCEPT !["execution"] = RemoveFirst(@, executing)]
        /\ main' = [main EXCEPT !.pc = "dispatch", !.fin = FALSE]
        /\ UNCHANGED <<expecting, locked, open, esi, lastKey, flag>>
    BY <1>4 DEF EsiFinished
  <2>2. main'.pc = "dispatch" /\ ~main'.fin
    BY <2>1 DEF Steady, TypeOK, Locals
  <2>3. /\ queue'["execution"] = RemoveFirst(queue["execution"], executing)
        /\ \A q \in QueueName \ {"execution"} : queue'[q] = queue[q]
    BY <2>1 DEF Steady, TypeOK, QueueName
  <2>4. /\ Apart' /\ In("execution")' = In("execution") \ {executing}
        /\ \A q \in QueueName \ {"execution"} : In(q)' = In(q)
    <3>1. /\ Apart' /\ In("execution")' = In("execution") \ {executing}
      BY <2>3, LeaveApart DEF Steady, QueueInv, QueueName
    <3> QED BY <2>3, <3>1 DEF In
  <2>5. Present'
    BY <2>1, <2>2, <2>4 DEF QueueInv, Present
  <2>6. Waiting' /\ NoSelfWait' /\ NoBlock'
    BY <2>1, <2>2, <2>4 DEF QueueInv, Waiting, Waiters, NoSelfWait, NoBlock, Holds, QueueName
  <2> QED BY <2>4, <2>5, <2>6 DEF QueueInv
<1> QED BY <1>1, <1>2, <1>3, <1>4

\* Serving the flags, without the command bloquear and without preemption.
LEMMA FlagStepsQueues ==
  ASSUME Steady, QueueInv, Orderly, ~Crash, FlagSteps
  PROVE  QueueInv'
<1> USE DEF keyVars, term, world, tables, Goto
<1>0. main.pc # "select" /\ ~flag.block
  BY DEF FlagSteps, ServeUpdate, ServeUnlocks, ReleaseByConsole, UnlocksServed, ServeNews,
         BlockExecuting, FilterReady, BlockReady, ReadyBlocked, BlockForSystem,
         BlocksServed, Preempt,
           QueueInv, NoBlock
<1>1. CASE \/ ServeUpdate /\ flag.update
           \/ ReleaseByConsole
  <2>1. /\ main.pc \in {"update", "unlocking"} /\ main'.pc \in {"unlock", "unlocking"}
        /\ main'.fin = main.fin /\ main'.esi = main.esi /\ main'.after = main.after
        /\ main'.snap = main.snap
        /\ UNCHANGED <<executing, open, esi, lastKey>>
    <3>1. CASE ServeUpdate
      BY <1>1, <3>1 DEF ServeUpdate, Steady, TypeOK, Locals
    <3>2. CASE ReleaseByConsole
      BY <3>2 DEF ReleaseByConsole, Steady, TypeOK, Locals
    <3> QED BY <1>1, <3>1, <3>2
  <2>2. PICK k \in AnyKey, slot \in {"update", "unlock"}, was \in BOOLEAN :
            ~WakesStranger(k) /\ UpdateBlockedEsiQueue(k, slot, was)
    <3>1. CASE ServeUpdate /\ flag.update
      BY <3>1 DEF ServeUpdate, Steady, TypeOK
    <3>2. CASE ReleaseByConsole
      <4>1. /\ main.i \in Nat \ {0} /\ main.i <= Len(req.unlock) /\ req.unlock \in Seq(Key)
        BY <3>2 DEF ReleaseByConsole, Steady, TypeOK, Locals
      <4>2. main.i \in 1..Len(req.unlock)
        BY <4>1, LenProperties
      <4>3. req.unlock[main.i] \in Key
        BY <4>1, <4>2, ElementOfSeq
      <4> QED BY <3>2, <4>3 DEF ReleaseByConsole, AnyKey
    <3> QED BY <1>1, <3>1, <3>2
  <2> QED BY <2>1, <2>2, UpdateKeeps
<1>2. CASE ServeNews /\ queue' # queue
  <2>1. /\ queue' = [queue EXCEPT !["ready"] = @ \o queue["new"], !["new"] = <<>>]
        /\ flag' = [flag EXCEPT !.new = FALSE, !.reschedule = @ \/ Preemptive]
        /\ main' = [main EXCEPT !.pc = "block"] /\ main.pc = "news"
        /\ UNCHANGED <<locked, expecting, executing, lastKey, esi, open>>
    BY <1>2 DEF ServeNews
  <2>2. main'.pc = "block" /\ main'.fin = main.fin
    BY <2>1 DEF Steady, TypeOK, Locals
  <2>3. /\ queue'["ready"] = queue["ready"] \o queue["new"] /\ queue'["new"] = <<>>
        /\ \A q \in {"execution", "blocked"} : queue'[q] = queue[q]
        /\ queue["ready"] \in Seq(Fd) /\ queue["new"] \in Seq(Fd)
    BY <2>1 DEF Steady, TypeOK, QueueName
  <2>4. /\ IsInjective(queue["ready"]) /\ IsInjective(queue["new"])
        /\ In("ready") \cap In("new") = {}
    BY DEF QueueInv, Apart, QueueName
  <2>5. /\ In("ready")' = In("ready") \cup In("new") /\ IsInjective(queue'["ready"])
        /\ In("new")' = {} /\ IsInjective(queue'["new"])
    BY <2>3, <2>4, ConcatSet, EmptySet DEF In
  <2>6. \A q \in {"execution", "blocked"} : In(q)' = In(q) /\ IsInjective(queue'[q])
    BY <2>3 DEF In, QueueInv, Apart, QueueName
  <2>7. Apart'
    <3>1. \A q \in QueueName : IsInjective(queue'[q])
      BY <2>5, <2>6 DEF QueueName
    <3>2. ASSUME NEW p \in QueueName, NEW q \in QueueName, p # q
          PROVE  In(p)' \cap In(q)' = {}
      <4>1. \A r, s \in {"ready", "new", "execution", "blocked"} : r # s => In(r) \cap In(s) = {}
        BY DEF QueueInv, Apart, QueueName
      <4>2. /\ p \in {"ready", "new", "execution", "blocked"}
            /\ q \in {"ready", "new", "execution", "blocked"}
        BY DEF QueueName
      <4>3. CASE p = "ready"
        BY <2>5, <2>6, <3>2, <4>1, <4>2, <4>3
      <4>4. CASE q = "ready"
        BY <2>5, <2>6, <3>2, <4>1, <4>2, <4>4
      <4>5. CASE p # "ready" /\ q # "ready"
        BY <2>5, <2>6, <3>2, <4>1, <4>2, <4>5
      <4> QED BY <4>3, <4>4, <4>5
    <3> QED BY <3>1, <3>2 DEF Apart
  <2>8. Present'
    <3>1. \A q \in QueueName, e \in Fd : e \in In(q)' => e \in open'
      <4>1. \A q \in QueueName, e \in Fd : e \in In(q) => e \in open
        BY <2>1 DEF QueueInv, Present
      <4> QED BY <2>1, <2>5, <2>6, <4>1 DEF QueueName
    <3>2. ~main'.fin
      BY <2>1, <2>2 DEF Steady, Control
    <3> QED BY <2>2, <3>1, <3>2 DEF Present
  <2>9. Waiting'
    BY <2>1, <2>2, <2>6 DEF QueueInv, Waiting, Waiters
  <2>10. NoSelfWait'
    BY <2>1, <2>2 DEF QueueInv, NoSelfWait, Holds
  <2>11. NoBlock'
    <3>1. flag'.block = flag.block
      BY <2>1 DEF Steady, TypeOK, FlagName
    <3> QED BY <2>2, <3>1 DEF QueueInv, NoBlock
  <2> QED BY <2>7, <2>8, <2>9, <2>10, <2>11 DEF QueueInv
<1>3. CASE ~ \/ ServeUpdate /\ flag.update
             \/ ReleaseByConsole
             \/ ServeNews /\ queue' # queue
  <2>1. /\ UNCHANGED <<queue, expecting, locked, open, executing, esi, lastKey>>
        /\ main.pc \notin {"release", "finish"}
    <3> USE OrderlyUnbroken, <1>0 DEF QueueInv, NoBlock, FlagSteps
    <3>1. CASE ServeUpdate     BY <1>3, <3>1 DEF ServeUpdate
    <3>2. CASE ServeNews       BY <1>3, <3>2 DEF ServeNews
    <3>3. CASE BlockExecuting  BY <3>3 DEF BlockExecuting
    <3>4. CASE Preempt         BY <3>4 DEF Preempt
    <3>5. CASE ServeUnlocks \/ UnlocksServed
      BY <3>5 DEF ServeUnlocks, UnlocksServed
    <3>6. ~(FilterReady \/ BlockReady \/ ReadyBlocked \/ BlockForSystem \/ BlocksServed)
      BY DEF FilterReady, BlockReady, ReadyBlocked, BlockForSystem, BlocksServed
    <3> QED BY <1>3, <3>1, <3>2, <3>3, <3>4, <3>5, <3>6
  <2>2. /\ main'.pc \notin {"release", "finish", "filter", "blocking", "leftover"}
        /\ main'.fin = main.fin
    <3> USE <1>0 DEF QueueInv, NoBlock, FlagSteps, Steady, TypeOK, Locals
    <3>1. CASE ServeUpdate     BY <1>3, <3>1 DEF ServeUpdate
    <3>2. CASE ServeNews       BY <1>3, <3>2 DEF ServeNews
    <3>3. CASE BlockExecuting  BY <3>3 DEF BlockExecuting
    <3>4. CASE Preempt         BY <3>4 DEF Preempt
    <3>5. CASE ServeUnlocks    BY <3>5 DEF ServeUnlocks
    <3>6. CASE UnlocksServed   BY <3>6 DEF UnlocksServed
    <3>7. ~(FilterReady \/ BlockReady \/ ReadyBlocked \/ BlockForSystem \/ BlocksServed)
      BY DEF FilterReady, BlockReady, ReadyBlocked, BlockForSystem, BlocksServed
    <3> QED BY <1>3, <3>1, <3>2, <3>3, <3>4, <3>5, <3>6, <3>7
  <2>3. flag'.block = flag.block
    <3>1. CASE ServeNews
      BY <3>1 DEF ServeNews, Steady, TypeOK, FlagName
    <3>2. CASE ~ServeNews
      BY <1>0, <1>3, <3>2 DEF FlagSteps, ServeUpdate, ServeUnlocks, UnlocksServed, BlockExecuting,
           FilterReady, BlockReady, ReadyBlocked, BlockForSystem, BlocksServed, Preempt,
           QueueInv, NoBlock
    <3> QED BY <3>1, <3>2
  <2> QED BY <2>1, <2>2, <2>3, QuietQueues
<1> QED BY <1>1, <1>2, <1>3


\* Nobody is authorized whose socket is closed.
LEMMA AuthorizeOpen ==
  ASSUME Steady, AuthorizeEsiExecution
  PROVE  main.esi \in open /\ main.esi \in Fd
<1>1. main.pc = "authorize" /\ queue["execution"] # <<>> /\ queue["execution"] = <<main.esi>>
  BY DEF AuthorizeEsiExecution, Steady, Control, ExecInv, Executes
<1>2. Turn \in open /\ queue["execution"] = <<Turn>>
  BY <1>1 DEF Steady, ExecInv, Executes
<1>3. Turn = main.esi
  BY <1>1, <1>2, SameElement
<1> QED BY <1>2, <1>3 DEF Steady, TypeOK

\* reschedule() moves the ESI it chose from the ready queue to that of execution.
LEMMA RescheduleMoves ==
  ASSUME Steady, QueueInv, ~Crash, Reschedule
  PROVE  \E e \in Fd :
           /\ main.pc = "dispatch" /\ MustReschedule /\ e \in In("ready")
           /\ main' = [main EXCEPT !.pc = "authorize", !.esi = e,
                           !.outer = IF main.outer = NoEsi THEN e ELSE main.outer]
           /\ UNCHANGED <<locked, expecting, flag, open, executing, lastKey, esi>>
           /\ Apart'
           /\ In("ready")' = In("ready") \ {e} /\ In("execution")' = In("execution") \cup {e}
           /\ \A q \in QueueName \ {"ready", "execution"} : In(q)' = In(q)
<1> USE DEF keyVars, term, world, tables
<1>1. PICK e \in Eligible :
         /\ main.pc = "dispatch" /\ queue["ready"] # <<>> /\ MustReschedule
         /\ \A r \in Eligible : Known(r)
         /\ queue' = MoveEsi("ready", "execution", e)
         /\ main' = [main EXCEPT !.pc = "authorize", !.esi = e,
                         !.outer = IF main.outer = NoEsi THEN e ELSE main.outer]
         /\ UNCHANGED <<locked, expecting, flag, open, executing, lastKey, esi>>
  BY DEF Reschedule, Steady, ExecInv, Routes
<1>2. e \in In("ready") /\ e \in Fd
  <2>1. queue["ready"] \in Seq(Fd)
    BY DEF Steady, TypeOK, QueueName
  <2>2. Eligible \subseteq ToSet(queue["ready"])
    <3>1. Len(queue["ready"]) \in Nat /\ Len(queue["ready"]) # 0
          /\ DOMAIN queue["ready"] = 1..Len(queue["ready"])
      BY <1>1, <2>1, EmptySeq, LenProperties
    <3>2. Head(queue["ready"]) = queue["ready"][1] /\ 1 \in DOMAIN queue["ready"]
      BY <2>1, <3>1
    <3> QED BY <3>2 DEF Eligible, ToSet
  <2> QED BY <1>1, <2>2 DEF In, Known
<1>3. /\ Apart'
      /\ In("ready")' = In("ready") \ {e} /\ In("execution")' = In("execution") \cup {e}
      /\ \A q \in QueueName \ {"ready", "execution"} : In(q)' = In(q)
  BY <1>1, <1>2, MoveApart DEF Steady, QueueInv, QueueName
<1> QED BY <1>1, <1>2, <1>3

\* Choosing the next ESI and authorizing it.
LEMMA DispatchQueues ==
  ASSUME Steady, QueueInv, ~Crash, DispatchSteps
  PROVE  QueueInv'
<1> USE DEF keyVars, term, world, tables
<1>1. CASE Reschedule
  <2>1. PICK e \in Fd :
           /\ main.pc = "dispatch" /\ MustReschedule /\ e \in In("ready")
           /\ main' = [main EXCEPT !.pc = "authorize", !.esi = e,
                           !.outer = IF main.outer = NoEsi THEN e ELSE main.outer]
           /\ UNCHANGED <<locked, expecting, flag, open, executing, lastKey, esi>>
           /\ Apart'
           /\ In("ready")' = In("ready") \ {e} /\ In("execution")' = In("execution") \cup {e}
           /\ \A q \in QueueName \ {"ready", "execution"} : In(q)' = In(q)
    BY <1>1, RescheduleMoves
  <2>2. main'.pc = "authorize" /\ main'.fin = main.fin
    BY <2>1 DEF Steady, TypeOK, Locals
  <2>5. Present'
    <3>1. \A q \in QueueName, f \in Fd : f \in In(q) => f \in open
      BY <2>1 DEF QueueInv, Present
    <3>2. \A q \in QueueName, f \in Fd : f \in In(q)' => f \in open'
      BY <2>1, <3>1 DEF QueueName
    <3>3. ~main'.fin
      BY <2>1, <2>2 DEF Steady, Control
    <3> QED BY <2>2, <3>2, <3>3 DEF Present
  <2>6. Waiting' /\ NoSelfWait' /\ NoBlock'
    BY <2>1, <2>2 DEF QueueInv, Waiting, Waiters, NoSelfWait, NoBlock, Holds, QueueName
  <2> QED BY <2>1, <2>5, <2>6 DEF QueueInv
<1>2. CASE ContinueExecuting \/ AuthorizeEsiExecution
  <2>1. main.pc \in {"dispatch", "authorize"} /\ ~main.fin
    BY <1>2 DEF ContinueExecuting, AuthorizeEsiExecution, Steady, Control
  <2>2. AuthorizeEsiExecution => main.esi \in open /\ main.esi \in Fd
    BY AuthorizeOpen
  <2>3. /\ UNCHANGED <<queue, expecting, locked, open, lastKey>>
        /\ main'.pc \notin {"release", "finish", "filter", "blocking", "leftover"} /\ ~main'.fin
    <3>1. CASE ContinueExecuting
      BY <2>1, <3>1 DEF ContinueExecuting, Idle, Steady, TypeOK, Locals
    <3>2. CASE AuthorizeEsiExecution
      <4>1. main' = Idle /\ UNCHANGED <<queue, expecting, locked, open, lastKey>>
        BY <2>2, <3>2 DEF AuthorizeEsiExecution
      <4>2. Idle.pc = "select" /\ Idle.fin = FALSE
        BY DEF Idle
      <4> QED BY <4>1, <4>2
    <3> QED BY <1>2, <3>1, <3>2
  <2>4. flag'.block = flag.block /\ \A e \in Fd : esi'[e].st = esi[e].st
    <3>1. CASE ContinueExecuting
      BY <3>1 DEF ContinueExecuting
    <3>2. CASE AuthorizeEsiExecution
      <4>1. esi' = [esi EXCEPT ![main.esi].orders = @ + 1]
        BY <2>2, <3>2 DEF AuthorizeEsiExecution
      <4>2. \A e \in Fd : esi'[e].st = esi[e].st
        BY <4>1 DEF Steady, TypeOK, Process
      <4>3. flag'.block = flag.block
        BY <2>2, <3>2 DEF AuthorizeEsiExecution, Steady, TypeOK, FlagName
      <4> QED BY <4>2, <4>3
    <3> QED BY <1>2, <3>1, <3>2
  <2> QED BY <2>1, <2>3, <2>4, QuietQueues
<1> QED BY <1>1, <1>2 DEF DispatchSteps

\* The authorized ESI sends its sentence, and nobody is being told that it is blocked.
LEMMA SentenceQueues ==
  ASSUME Steady, QueueInv, ~Crash, NEW e \in Fd, Sentence(e)
  PROVE  QueueInv'
<1> USE DEF keyVars, term, world, tables
<1>1. PICK op \in {"GET", "SET", "STORE"}, k \in Key : IsThisKeyBlocked(e, op, k)
  BY DEF Sentence
<1>2. /\ UNCHANGED <<main, executing, queue, expecting, locked, open, flag>>
      /\ esi[e].st = "idle" /\ esi[e].orders > 0
      /\ esi'[e].st \in {"asking", "locking", "gone"}
      /\ \A f \in Fd : f # e => esi'[f] = esi[f]
  <2> DEFINE r == [st     |-> IF Locked(k) THEN "asking"
                              ELSE IF op = "GET" THEN "locking" ELSE "gone",
                   op     |-> op, key |-> k, retry |-> FALSE,
                   orders |-> esi[e].orders - 1,
                   line   |-> IF esi[e].retry THEN esi[e].line ELSE esi[e].line + 1]
  <2>1. /\ UNCHANGED <<main, executing, queue, expecting, locked, open, flag>>
        /\ esi[e].st = "idle" /\ esi[e].orders > 0
        /\ esi' = [esi EXCEPT ![e] = r]
    BY <1>1 DEF IsThisKeyBlocked, CoordinatorMessage
  <2>2. r.st \in {"asking", "locking", "gone"}
    OBVIOUS
  <2> HIDE DEF r
  <2> QED BY <2>1, <2>2 DEF Steady, TypeOK
<1>3. \A f \in Fd : f # e => ~Talking(f)
  <2>1. Talking(e)
    BY <1>2 DEF Talking
  <2> QED BY <2>1, TalkerExecutes DEF Steady
<1>4. \A f \in Fd : esi'[f].st # "blocked"
  BY <1>2, <1>3 DEF Talking
<1>5. NoSelfWait'
  BY <1>2, <1>4 DEF QueueInv, NoSelfWait, Holds
<1> QED BY <1>2, <1>5 DEF QueueInv, Apart, Present, Waiting, NoBlock, In, Waiters

\* The console and the ESI processes.
LEMMA ElsewhereQueues ==
  ASSUME Steady, QueueInv, Orderly, ElsewhereSteps
  PROVE  QueueInv'
<1> USE DEF keyVars, term, world, tables
<1>1. CASE GoIdle
  <2>1. /\ main.pc = "select" /\ main' = [Idle EXCEPT !.pc = "burn"]
        /\ UNCHANGED <<queue, expecting, locked, open, executing, esi, lastKey, flag>>
    BY <1>1 DEF GoIdle
  <2>2. main'.pc = "burn" /\ ~main'.fin
    BY <2>1 DEF Idle
  <2> QED BY <2>1, <2>2, QuietQueues
<1>2. CASE Operator \/ TogglePause \/ AddRequest
  <2>1. UNCHANGED <<main, queue, expecting, locked, open, executing, esi, lastKey>>
    BY <1>2 DEF Operator, TypeCommand, TogglePause, AddRequest
  <2>2. flag'.block = flag.block
    <3>1. CASE Operator
      <4>1. PICK c \in Commands : TypeCommand(c)
        BY <3>1 DEF Operator
      <4>2. c \in {"kill", "desbloquear"}
        BY <4>1 DEF TypeCommand, CommandFlag, Orderly
      <4>3. CommandFlag[c] \in {"killed", "unlock"}
        BY <4>2 DEF CommandFlag
      <4> QED BY <4>1, <4>3 DEF TypeCommand, Steady, TypeOK, FlagName
    <3>2. CASE TogglePause
      BY <3>2 DEF TogglePause, Steady, TypeOK, FlagName
    <3>3. CASE AddRequest
      BY <3>3 DEF AddRequest
    <3> QED BY <1>2, <3>1, <3>2, <3>3
  <2> QED BY <2>1, <2>2, QuietQueues
<1>3. ASSUME NEW e \in Fd, InvalidLine(e) \/ EsiCut(e)
      PROVE  QueueInv'
  <2>1. UNCHANGED <<main, queue, expecting, locked, open, executing, lastKey, flag>>
    BY <1>3 DEF InvalidLine, EsiCut
  <2>2. \A f \in Fd : esi'[f].st = "gone" \/ esi'[f] = esi[f]
    <3>1. esi \in [Fd \cup {Ghost} -> Process] /\ e # Ghost /\ Ghost \notin Fd
      BY ConstantsAssumption DEF Steady, TypeOK
    <3>2. CASE InvalidLine(e)
      BY <3>1, <3>2 DEF InvalidLine, Advance, Process
    <3>3. CASE EsiCut(e)
      <4>1. esi'[e].st = "gone" /\ \A f \in Fd : f # e => esi'[f] = esi[f]
        BY <3>1, <3>3 DEF EsiCut, Process
      <4> QED BY <4>1
    <3> QED BY <1>3, <3>2, <3>3
  <2> QED BY <2>1, <2>2, QuietQueues
<1> QED BY <1>1, <1>2, <1>3 DEF ElsewhereSteps

\* The queues are empty at first.
LEMMA InitQueues == Init => QueueInv
<1> SUFFICES ASSUME Init PROVE QueueInv
  OBVIOUS
<1>1. \A q \in QueueName : queue[q] = <<>> /\ In(q) = {} /\ IsInjective(queue[q])
  BY EmptySet DEF Init, In
<1>2. Apart /\ Present
  BY <1>1 DEF Apart, Present, Init, Idle
<1>3. ToSet(expecting) = {} /\ OneEach(expecting)
  BY EmptySet DEF Init, OneEach
<1>4. Waiting
  BY <1>1, <1>3 DEF Waiting, Waiters, Init, Idle, QueueName
<1>5. NoSelfWait
  BY <1>3 DEF NoSelfWait, Init, Idle, NoProcess
<1>6. NoBlock
  BY DEF NoBlock, Init, Idle, FlagName
<1> QED BY <1>2, <1>4, <1>5, <1>6 DEF QueueInv

\* Every step keeps the queues apart and the waiters in theirs.
LEMMA NextQueues ==
  ASSUME Steady, QueueInv, Orderly, [Next]_vars
  PROVE  QueueInv'
<1> USE DEF keyVars, term, world, tables
<1>1. CASE UNCHANGED vars \/ Crash
  <2>1. UNCHANGED <<main, queue, expecting, locked, open, executing, lastKey, flag, esi>>
    BY <1>1 DEF vars, Crash
  <2> QED BY <2>1, QuietQueues
<1> SUFFICES ASSUME ~Crash, ~UNCHANGED vars PROVE QueueInv'
  BY <1>1
<1>2. CASE \E e \in Fd : Accept(e) \/ AcceptWithoutHandshake(e)
  BY <1>2, ArriveQueues
<1>3. CASE \E e \in Fd : Sentence(e)
  BY <1>3, SentenceQueues
<1>4. CASE \E s \in Fd \cup {Ghost} : Conversation(s)
  BY <1>4, ConversationQueues
<1>5. CASE EsiEvents
  BY <1>5, EsiEventsQueues
<1>6. CASE UninitialisedOpcode \/ ReleaseKey \/ ReleaseEnd
  BY <1>6, ReleaseQueues
<1>7. CASE Burn \/ Corpse \/ CorpsesBurnt \/ FinishEsi \/ EsiFinished \/ Drain
  BY <1>7, BurnQueues
<1>8. CASE FlagSteps
  BY <1>8, FlagStepsQueues
<1>9. CASE DispatchSteps
  BY <1>9, DispatchQueues
<1>10. CASE ElsewhereSteps
  BY <1>10, ElsewhereQueues
<1> QED BY <1>2, <1>3, <1>4, <1>5, <1>6, <1>7, <1>8, <1>9, <1>10
        DEF Next, Steps, FlagSteps, DispatchSteps, ElsewhereSteps

\* What the invariant says in the words of the properties.
LEMMA QueuesSay ==
  ASSUME TypeOK, QueueInv
  PROVE  OneQueue /\ BlockedIffExpecting
<1>1. OneQueue
  <2> SUFFICES ASSUME NEW p \in QueueName, NEW q \in QueueName,
                      NEW i \in DOMAIN queue[p], NEW j \in DOMAIN queue[q],
                      queue[p][i] = queue[q][j]
               PROVE  p = q /\ i = j
    BY DEF OneQueue
  <2>1. queue[p][i] \in In(p) /\ queue[q][j] \in In(q)
    BY DEF In, ToSet
  <2>2. p = q
    BY <2>1 DEF QueueInv, Apart
  <2> QED BY <2>2 DEF QueueInv, Apart, IsInjective
<1>2. ASSUME main.pc = "select", NEW e \in Fd
      PROVE  Queued(e, "blocked") <=> \E i \in DOMAIN expecting : expecting[i].esi = e
  <2>1. In("blocked") = Waiters
    BY <1>2 DEF QueueInv, Waiting
  <2>2. e \in Waiters <=> \E i \in DOMAIN expecting : expecting[i].esi = e
    BY DEF Waiters, ToSet
  <2> QED BY <2>1, <2>2 DEF Queued, In
<1> QED BY <1>1, <1>2 DEF BlockedIffExpecting

\* No ESI is twice in the queues, and the ESIs in the blocked queue are exactly those
\* that wait for a key, whatever the operator kills, unlocks or pauses and whatever
\* ESI process is cut.  The conditions leave out what breaks it in the program: the
\* socket of a failed handshake is accepted again while it is in the new queue, SJFCD
\* moves the executing ESI to ready although it has just been blocked, and bloquear
\* queues an ESI again that is blocked already.
THEOREM QueuesCorrect ==
  ASSUME Orderly
  PROVE  Spec => [](OneQueue /\ BlockedIffExpecting)
<1> DEFINE IInv == Steady /\ QueueInv
<1>1. Init => IInv
  BY InitSteady, InitQueues
<1>2. IInv /\ [Next]_vars => IInv'
  BY NextSteady, NextQueues, OrderlyUnbroken
<1>3. IInv => OneQueue /\ BlockedIffExpecting
  BY QueuesSay DEF Steady
<1> HIDE DEF IInv
<1> QED BY <1>1, <1>2, <1>3, PTL DEF Spec

-----------------------------------------------------------------------------
(* The keys of those who are gone *)

\* Serving the flags leads from one flag to the next, or to the choice of an ESI.
LEMMA FlagStepsGo ==
  ASSUME TypeOK, Control, ~Crash, FlagSteps
  PROVE  /\ main.pc \in FlagLabels /\ main'.pc \in FlagLabels \cup {"dispatch"}
         /\ ~main.fin /\ ~main'.fin
         /\ UNCHANGED <<executing, open, info, esi, lastKey>>
<1> USE DEF keyVars, term, world, tables, Goto
<1>1. /\ main.pc \in FlagLabels /\ main'.pc \in FlagLabels \cup {"dispatch"}
      /\ ~main.fin /\ main'.fin = main.fin
  <2> USE DEF TypeOK, Locals, FlagLabels, Control
  <2>1. CASE ServeUpdate       BY <2>1 DEF ServeUpdate
  <2>2. CASE ServeUnlocks      BY <2>2 DEF ServeUnlocks
  <2>3. CASE ReleaseByConsole  BY <2>3 DEF ReleaseByConsole
  <2>4. CASE UnlocksServed     BY <2>4 DEF UnlocksServed
  <2>5. CASE ServeNews         BY <2>5 DEF ServeNews
  <2>6. CASE BlockExecuting    BY <2>6 DEF BlockExecuting
  <2>7. CASE FilterReady       BY <2>7 DEF FilterReady
  <2>8. CASE BlockReady        BY <2>8 DEF BlockReady
  <2>9. CASE ReadyBlocked      BY <2>9 DEF ReadyBlocked
  <2>10. CASE BlockForSystem   BY <2>10 DEF BlockForSystem
  <2>11. CASE BlocksServed     BY <2>11 DEF BlocksServed
  <2>12. CASE Preempt          BY <2>12 DEF Preempt
  <2> QED BY <2>1, <2>2, <2>3, <2>4, <2>5, <2>6, <2>7, <2>8, <2>9, <2>10, <2>11,
             <2>12 DEF FlagSteps
<1>2. UNCHANGED <<executing, open, info, esi, lastKey>>
  BY DEF FlagSteps, ServeUpdate, ServeUnlocks, ReleaseByConsole, UnlocksServed, ServeNews,
         BlockExecuting, FilterReady, BlockReady, ReadyBlocked, BlockForSystem,
         BlocksServed, Preempt
<1> QED BY <1>1, <1>2

\* Without the command bloquear its flag stays down, and main() never gets to serve it.
LEMMA NextNoBlock ==
  ASSUME TypeOK, Control, NoBlock, "bloquear" \notin Commands, [Next]_vars
  PROVE  NoBlock'
<1> USE DEF keyVars, term, world, tables
<1>1. CASE UNCHANGED vars \/ Crash
  BY <1>1 DEF vars, Crash, NoBlock
<1> SUFFICES ASSUME ~Crash, ~UNCHANGED vars PROVE NoBlock'
  BY <1>1
<1>2. flag'.block => flag.block
  <2> USE DEF TypeOK, FlagName
  <2>1. CASE Operator
    <3>1. PICK c \in Commands : TypeCommand(c)
      BY <2>1 DEF Operator
    <3>2. c \in {"kill", "desbloquear"}
      BY <3>1 DEF TypeCommand, CommandFlag
    <3>3. CommandFlag[c] \in {"killed", "unlock"}
      BY <3>2 DEF CommandFlag
    <3> QED BY <3>1, <3>3 DEF TypeCommand
  <2>2. CASE ServeUpdate \/ ReleaseByConsole \/ ReleaseKey
    <3>1. CASE flag' = flag
      BY <3>1
    <3>2. CASE flag' # flag
      BY <2>2, <3>2, UpdateExec DEF ServeUpdate, ReleaseByConsole, ReleaseKey
    <3> QED BY <3>1, <3>2
  <2>3. CASE \E e \in Fd : Accept(e) \/ AcceptWithoutHandshake(e)
    BY <2>3 DEF Accept, AcceptWithoutHandshake, ArriveEsi
  <2>4. CASE EsiEvents
    BY <2>4 DEF EsiEvents, ExecutionSuccess, IAmBlocked, ExecutionFailure, SockMyPort,
           WhenOthersReady
  <2>5. CASE CorpsesBurnt \/ ServeNews \/ BlocksServed \/ AuthorizeEsiExecution \/ TogglePause
    BY <2>5 DEF CorpsesBurnt, ServeNews, BlocksServed, AuthorizeEsiExecution, TogglePause,
           SockMyPort
  <2>6. CASE \E s \in Fd \cup {Ghost} : Conversation(s)
    BY <2>6 DEF Conversation, IsKeyBlockedByExecutingEsi, BlockKey, UnlockKey, InstanceAnswers
  <2>7. CASE \/ \E e \in Fd : Sentence(e) \/ InvalidLine(e) \/ EsiCut(e)
             \/ UninitialisedOpcode \/ ReleaseEnd \/ Burn \/ Corpse
             \/ FinishEsi \/ EsiFinished \/ Drain \/ ServeUnlocks \/ UnlocksServed
             \/ BlockExecuting \/ FilterReady \/ BlockReady \/ ReadyBlocked \/ BlockForSystem
             \/ Preempt \/ Reschedule \/ ContinueExecuting \/ GoIdle \/ AddRequest
    <3>1. flag' = flag
      BY <2>7 DEF Sentence, IsThisKeyBlocked, InvalidLine, EsiCut, UninitialisedOpcode,
             ReleaseEnd, Burn, Corpse, SockMyPort, FinishEsi, EsiFinished, Drain, ServeUnlocks,
             UnlocksServed, BlockExecuting, FilterReady, BlockReady, ReadyBlocked,
             BlockForSystem, Preempt, Reschedule, ContinueExecuting, GoIdle, AddRequest
    <3> QED BY <3>1
  <2> QED BY <2>1, <2>2, <2>3, <2>4, <2>5, <2>6, <2>7 DEF Next, Steps
<1>3. main'.pc \in {"filter", "blocking", "leftover"} =>
          \/ main'.pc = main.pc
          \/ main.pc \in {"filter", "blocking"}
          \/ BlockExecuting /\ flag.block
  <2> USE DEF TypeOK, Locals, Goto
  <2>1. CASE FlagSteps
    <3>1. CASE ServeUpdate       BY <3>1 DEF ServeUpdate
    <3>2. CASE ServeUnlocks      BY <3>2 DEF ServeUnlocks
    <3>3. CASE ReleaseByConsole  BY <3>3 DEF ReleaseByConsole
    <3>4. CASE UnlocksServed     BY <3>4 DEF UnlocksServed
    <3>5. CASE ServeNews         BY <3>5 DEF ServeNews
    <3>6. CASE BlockExecuting    BY <3>6 DEF BlockExecuting
    <3>7. CASE FilterReady       BY <3>7 DEF FilterReady
    <3>8. CASE BlockReady        BY <3>8 DEF BlockReady
    <3>9. CASE ReadyBlocked      BY <3>9 DEF ReadyBlocked
    <3>10. CASE BlockForSystem   BY <3>10 DEF BlockForSystem
    <3>11. CASE BlocksServed     BY <3>11 DEF BlocksServed
    <3>12. CASE Preempt          BY <3>12 DEF Preempt
    <3> QED BY <2>1, <3>1, <3>2, <3>3, <3>4, <3>5, <3>6, <3>7, <3>8, <3>9, <3>10, <3>11,
               <3>12 DEF FlagSteps
  <2>2. CASE ExecutionFailure \/ Corpse
    BY <2>2 DEF ExecutionFailure, Corpse, SockMyPort
  <2>3. CASE UninitialisedOpcode \/ IAmBlocked \/ GoIdle
    BY <2>3 DEF UninitialisedOpcode, IAmBlocked, GoIdle, Idle
  <2>4. ASSUME NEW finish \in BOOLEAN, ExecutionSuccess(finish)
        PROVE  main'.pc = "burn"
    BY <2>4 DEF ExecutionSuccess
  <2>5. CASE ReleaseKey
    BY <2>5 DEF ReleaseKey
  <2>6. CASE ReleaseEnd
    BY <2>6 DEF ReleaseEnd, Control
  <2>7. CASE Burn           BY <2>7 DEF Burn
  <2>8. CASE CorpsesBurnt   BY <2>8 DEF CorpsesBurnt
  <2>9. CASE Drain          BY <2>9 DEF Drain
  <2>10. CASE FinishEsi     BY <2>10 DEF FinishEsi
  <2>11. CASE EsiFinished   BY <2>11 DEF EsiFinished
  <2>12. CASE Reschedule
    <3>1. main' = [main EXCEPT !.pc = "authorize", !.esi = main'.esi, !.outer = main'.outer]
      BY <2>12 DEF Reschedule
    <3> QED BY <3>1
  <2>13. CASE ContinueExecuting
    BY <2>13 DEF ContinueExecuting, Idle
  <2>14. CASE AuthorizeEsiExecution
    <3>1. main' = Idle \/ main'.pc = "release"
      BY <2>14 DEF AuthorizeEsiExecution, SockMyPort
    <3> QED BY <3>1 DEF Idle
  <2>15. CASE \/ \E e \in Fd : Accept(e) \/ AcceptWithoutHandshake(e)
              \/ \E e \in Fd : Sentence(e) \/ InvalidLine(e) \/ EsiCut(e)
              \/ \E s \in Fd \cup {Ghost} : Conversation(s)
              \/ Operator \/ AddRequest \/ TogglePause
    <3>1. main' = main
      BY <2>15 DEF Accept, AcceptWithoutHandshake, ArriveEsi, Sentence, IsThisKeyBlocked,
             InvalidLine, EsiCut, Conversation, IsKeyBlockedByExecutingEsi, BlockKey, UnlockKey,
             InstanceAnswers, Operator, TypeCommand, AddRequest, TogglePause
    <3> QED BY <3>1
  <2> QED BY <2>1, <2>2, <2>3, <2>4, <2>5, <2>6, <2>7, <2>8, <2>9, <2>10, <2>11, <2>12,
             <2>13, <2>14, <2>15 DEF Next, Steps, EsiEvents, FlagSteps
<1> QED BY <1>2, <1>3 DEF NoBlock

\* list_remove_by_condition by key: when the key is there once, it is gone.
LEMMA ForgetKeyTakes ==
  ASSUME NEW s \in Seq(Claim), Distinct(s), NEW k
  PROVE  /\ \A j \in DOMAIN ForgetKey(s, k) :
                ForgetKey(s, k)[j] \in ToSet(s) /\ ForgetKey(s, k)[j].key # k
         /\ \A c \in ToSet(s) : c.key # k => c \in ToSet(ForgetKey(s, k))
<1> DEFINE I == {i \in 1..Len(s) : s[i].key = k}
           r == ForgetKey(s, k)
<1>0. DOMAIN s = 1..Len(s)
  BY LenProperties
<1>1. CASE I = {}
  <2>1. r = s
    BY <1>1 DEF RemoveFirstMatch, ForgetKey
  <2> QED BY <1>0, <1>1, <2>1 DEF ToSet
<1>2. CASE I # {}
  <2>1. PICK i \in I : r = RemoveAt(s, i)
    <3>1. Min(I) \in I
      <4>1. Len(s) \in Nat /\ I \in SUBSET (1..Len(s))
        BY LenProperties
      <4> HIDE DEF I
      <4> QED BY <1>2, <4>1, MinIndex
    <3>2. SelectInSeq(s, LAMBDA c : c.key = k) = Min(I)
      BY <1>2 DEF SelectInSeq
    <3>3. ForgetKey(s, k) = RemoveAt(s, Min(I))
      BY <1>2, <3>2 DEF RemoveFirstMatch, ForgetKey
    <3> QED BY <3>1, <3>3
  <2>2. ToSet(r) = {s[j] : j \in (1..Len(s)) \ {i}}
    BY <2>1, RemoveAtSet
  <2>3. \A j \in 1..Len(s) : s[j].key = k => j = i
    BY <1>0 DEF Distinct
  <2>4. \A j \in DOMAIN r : r[j] \in ToSet(r)
    BY DEF ToSet
  <2> HIDE DEF r
  <2>5. \A c \in ToSet(r) : c \in ToSet(s) /\ c.key # k
    BY <1>0, <2>2, <2>3 DEF ToSet
  <2>6. \A c \in ToSet(s) : c.key # k => c \in ToSet(r)
    BY <1>0, <2>2 DEF ToSet
  <2> QED BY <2>4, <2>5, <2>6 DEF r
<1> QED BY <1>1, <1>2

\* Only the coordinator's BLOCK_KEY gives a key to anybody.
LEMMA OnlyBlockKeyLocks ==
  ASSUME TypeOK, NoBlock, [Next]_vars,
         ~ \E s \in Fd \cup {Ghost} : BlockKey(s) /\ ~Crash
  PROVE  Thinned(locked', locked)
<1> USE DEF keyVars, term, world, tables
<1>0. CASE locked' = locked
  BY <1>0 DEF Thinned
<1> SUFFICES ASSUME locked' # locked, ~Crash PROVE Thinned(locked', locked)
  BY <1>0 DEF Crash
<1>1. CASE ReleaseKey
  BY <1>1, UpdateType DEF ReleaseKey
<1>2. CASE ReleaseEnd
  BY <1>2, ForgetEsiThins DEF ReleaseEnd, TypeOK
<1>3. CASE ServeUpdate
  BY <1>3, UpdateType DEF ServeUpdate
<1>4. CASE ReleaseByConsole
  BY <1>4, UpdateType DEF ReleaseByConsole
<1>5. CASE ~ (ReleaseKey \/ ReleaseEnd \/ ServeUpdate \/ ReleaseByConsole)
  <2>1. ~UNCHANGED vars
    BY DEF vars
  <2>2. \A e \in Fd : ~Accept(e) /\ ~AcceptWithoutHandshake(e)
    BY DEF Accept, AcceptWithoutHandshake, ArriveEsi
  <2>3. \A e \in Fd : ~Sentence(e) /\ ~InvalidLine(e) /\ ~EsiCut(e)
    BY DEF Sentence, IsThisKeyBlocked, InvalidLine, EsiCut
  <2>4. \A s \in Fd \cup {Ghost} : ~Conversation(s)
    BY DEF Conversation, IsKeyBlockedByExecutingEsi, UnlockKey, InstanceAnswers
  <2>5. ~EsiEvents
    BY DEF EsiEvents, ExecutionSuccess, IAmBlocked, ExecutionFailure, SockMyPort
  <2>6. ~GoIdle /\ ~Operator /\ ~AddRequest /\ ~TogglePause
    BY DEF GoIdle, Operator, TypeCommand, AddRequest, TogglePause
  <2>7. ~UninitialisedOpcode /\ ~Burn /\ ~Corpse /\ ~CorpsesBurnt /\ ~FinishEsi
        /\ ~EsiFinished /\ ~Drain /\ ~ServeUnlocks /\ ~UnlocksServed
    BY DEF UninitialisedOpcode, Burn, Corpse, CorpsesBurnt, FinishEsi, EsiFinished,
           Drain, ServeUnlocks, UnlocksServed, SockMyPort
  <2>8. ~ServeNews /\ ~Preempt
        /\ ~Reschedule /\ ~ContinueExecuting /\ ~AuthorizeEsiExecution
    BY DEF ServeNews, Preempt, Reschedule, ContinueExecuting, AuthorizeEsiExecution, SockMyPort
  <2>9. ~BlockExecuting /\ ~FilterReady /\ ~BlockReady /\ ~ReadyBlocked
        /\ ~BlockForSystem /\ ~BlocksServed
    BY DEF BlockExecuting, FilterReady, BlockReady, ReadyBlocked, BlockForSystem, BlocksServed,
           NoBlock
  <2> QED BY <1>5, <2>1, <2>2, <2>3, <2>4, <2>5, <2>6, <2>7, <2>8, <2>9 DEF Next, Steps
<1> QED BY <1>1, <1>2, <1>3, <1>4, <1>5

\* What the table of keys says of those who are gone, or are being buried: whatever
\* release_resources has not given back yet is still in its list.
Owners ==
    /\ OwnersAlive
    /\ main.pc = "release" =>
           \A i \in DOMAIN locked :
               locked[i].esi = main.esi => locked[i] \in ToSet(main.snap)

\* Steps that take keys away and forget no ESI.
LEMMA OwnersStay ==
  ASSUME TypeOK, Owners, Thinned(locked', locked),
         \A e \in Fd : info'[e] >= info[e], info' \in [Fd -> Nat],
         main'.pc = "release" => \/ main' = main
                                 \/ main'.snap = locked'
  PROVE  Owners'
<1>1. locked \in Seq(Claim) /\ locked' \in Seq(Claim)
      /\ \A i \in DOMAIN locked' : locked'[i] \in ToSet(locked)
  BY ThinnedSet DEF TypeOK
<1>2. \A c \in ToSet(locked) : c.esi = NoEsi \/ Known(c.esi)
  BY DEF Owners, OwnersAlive, ToSet
<1>3. \A e : Known(e) => Known(e)'
  BY DEF Known, TypeOK
<1>4. OwnersAlive'
  BY <1>1, <1>2, <1>3 DEF OwnersAlive
<1>5. ASSUME main'.pc = "release", NEW i \in DOMAIN locked', locked'[i].esi = main'.esi
      PROVE  locked'[i] \in ToSet(main'.snap)
  <2>1. CASE main' = main
    <3>1. \A c \in ToSet(locked) : c.esi = main.esi => c \in ToSet(main.snap)
      BY <1>5, <2>1 DEF Owners, ToSet
    <3> QED BY <1>1, <1>5, <2>1, <3>1
  <2>2. CASE main'.snap = locked'
    BY <2>2 DEF ToSet
  <2> QED BY <1>5, <2>1, <2>2
<1> QED BY <1>4, <1>5 DEF Owners

\* release_resources gives back the next key: nobody has that one any more, and the
\* others are further down in its list.
LEMMA ReleaseKeyOwners ==
  ASSUME Steady, OneOwner, Owners, ~Crash, ReleaseKey
  PROVE  Owners'
<1> USE DEF keyVars, term, world, tables
<1>1. PICK i \in DOMAIN main.snap :
            /\ Pending(i)
            /\ ~WakesStranger(main.snap[i].key)
            /\ UpdateBlockedEsiQueue(main.snap[i].key, "update", TRUE)
            /\ main' = [main EXCEPT !.snap = SubSeq(main.snap, i + 1, Len(main.snap))]
            /\ info' = info
  BY DEF ReleaseKey
<1> DEFINE k == main.snap[i].key
           rest == SubSeq(main.snap, i + 1, Len(main.snap))
<1>2. /\ main.pc = "release" /\ main'.pc = main.pc /\ main'.esi = main.esi
      /\ main'.snap = rest /\ main.snap \in Seq(Claim)
  BY <1>1 DEF ReleaseKey, Steady, TypeOK, Locals
<1>3. locked' = ForgetKey(locked, k) /\ locked \in Seq(Claim)
  BY <1>1 DEF UpdateBlockedEsiQueue, Steady, TypeOK
<1>4. \A j \in DOMAIN locked' : locked'[j] \in ToSet(locked) /\ locked'[j].key # k
  BY <1>3, ForgetKeyTakes DEF OneOwner, Distinct
<1>5. OwnersAlive'
  BY <1>1, <1>4 DEF Owners, OwnersAlive, Known, ToSet
<1>6. ASSUME NEW j \in DOMAIN locked', locked'[j].esi = main.esi
      PROVE  locked'[j] \in ToSet(rest)
  <2>1. PICK m \in DOMAIN main.snap : main.snap[m] = locked'[j]
    BY <1>2, <1>4, <1>6 DEF Owners, ToSet
  <2>2. /\ Len(main.snap) \in Nat /\ DOMAIN main.snap = 1..Len(main.snap)
        /\ main.snap[m].esi = main.esi /\ main.snap[m].key # k
    BY <1>2, <1>4, <1>6, <2>1, LenProperties
  <2>3. m > i
    <3>1. ~(m \in 1..(i - 1)) /\ m # i
      BY <1>1, <2>2 DEF Pending
    <3> QED BY <2>2, <3>1
  <2>4. i \in 1..Len(main.snap)
    BY <1>1, <2>2
  <2>5. main.snap[m] \in ToSet(SubSeq(main.snap, i + 1, Len(main.snap)))
    BY <1>2, <2>3, <2>4, SuffixKeeps
  <2> QED BY <2>1, <2>5
<1> QED BY <1>2, <1>5, <1>6 DEF Owners

\* release_resources ends: it forgets an ESI that has nothing any more.
LEMMA ReleaseEndOwners ==
  ASSUME Steady, Owners, ReleaseEnd
  PROVE  Owners' /\ locked' = locked
<1>1. /\ main.pc = "release" /\ \A i \in DOMAIN main.snap : main.snap[i].esi # main.esi
      /\ locked' = ForgetEsi(locked, main.esi)
      /\ info' = [info EXCEPT ![main.esi] = @ - 1]
      /\ main' = [main EXCEPT !.pc = main.after, !.snap = <<>>]
  BY DEF ReleaseEnd
<1>2. main'.pc # "release"
  BY <1>1 DEF Steady, TypeOK, Locals, Control
<1>3. \A i \in DOMAIN locked : locked[i].esi # main.esi
  BY <1>1 DEF Owners, ToSet
<1>4. locked' = locked
  <2>1. locked \in Seq(Claim) /\ DOMAIN locked = 1..Len(locked)
    BY LenProperties DEF Steady, TypeOK
  <2> QED BY <1>1, <1>3, <2>1, ForgetEsiTakes
<1>5. \A e \in Fd : e # main.esi => info'[e] = info[e]
  BY <1>1 DEF Steady, TypeOK
<1>6. OwnersAlive'
  BY <1>3, <1>4, <1>5 DEF Owners, OwnersAlive, Known
<1> QED BY <1>2, <1>4, <1>6 DEF Owners

\* BLOCK_KEY gives the key to the executing ESI, which the scheduler knows.
LEMMA BlockKeyOwners ==
  ASSUME Steady, Owners, ~Crash, NEW s \in Fd \cup {Ghost}, BlockKey(s)
  PROVE  /\ Owners' /\ executing \in Fd /\ queue["execution"] = <<executing>>
         /\ locked' = Append(locked, [esi |-> executing, key |-> lastKey])
<1> USE DEF keyVars, term, world, tables
<1>1. /\ main.pc = "select" /\ queue["execution"] # <<>>
      /\ locked' = Append(locked, [esi |-> Head(queue["execution"]), key |-> lastKey])
      /\ UNCHANGED <<main, info>>
  BY DEF BlockKey, CoordinatorMessage
<1>2. /\ Head(queue["execution"]) = executing /\ executing \in Fd
      /\ queue["execution"] = <<executing>> /\ executing \in open
  <2>1. Turn = executing
    BY <1>1 DEF Turn
  <2> QED BY <1>1, <2>1, ExecutionType DEF Steady, ExecInv, Executes
<1>3. Known(executing)
  BY <1>2 DEF Steady, ExecInv, OneEntryEach, Known
<1> DEFINE c == [esi |-> executing, key |-> lastKey]
<1>4. c \in Claim /\ c.esi = executing /\ locked \in Seq(Claim)
  BY <1>2 DEF Claim, AnyEsi, Steady, TypeOK
<1>5. locked' = Append(locked, c)
  BY <1>1, <1>2
<1>6. \A i \in DOMAIN locked' : locked'[i] \in ToSet(locked) \/ locked'[i] = c
  <2> HIDE DEF c
  <2>1. ToSet(Append(locked, c)) = ToSet(locked) \cup {c}
    BY <1>4, AppendSet
  <2> QED BY <1>5, <2>1 DEF ToSet
<1>7. OwnersAlive'
  <2> HIDE DEF c
  <2> QED BY <1>1, <1>3, <1>4, <1>6 DEF Owners, OwnersAlive, Known, ToSet
<1> QED BY <1>1, <1>2, <1>7 DEF Owners

\* Every step keeps the owners alive.
LEMMA NextOwners ==
  ASSUME Steady, OneOwner, NoBlock, Owners, Unbroken, [Next]_vars
  PROVE  Owners'
<1> USE DEF keyVars, term, world, tables
<1>1. CASE ReleaseEnd
  BY <1>1, ReleaseEndOwners
<1>2. CASE ReleaseKey /\ ~Crash
  BY <1>2, ReleaseKeyOwners
<1>3. CASE \E s \in Fd \cup {Ghost} : BlockKey(s) /\ ~Crash
  BY <1>3, BlockKeyOwners
<1>4. CASE /\ ~ReleaseEnd /\ ~(ReleaseKey /\ ~Crash)
           /\ ~ \E s \in Fd \cup {Ghost} : BlockKey(s) /\ ~Crash
  <2>1. Thinned(locked', locked)
    BY <1>4, OnlyBlockKeyLocks DEF Steady
  <2>2. info' \in [Fd -> Nat] /\ TypeOK
    <3>1. TypeOK'
      BY NextCorrect DEF Steady
    <3> QED BY <3>1 DEF TypeOK, Steady
  <2>3. \A e \in Fd : info'[e] >= info[e]
    <3>1. CASE info' = info
      BY <3>1 DEF Steady, TypeOK
    <3>2. CASE \E e \in Fd : Accept(e) \/ AcceptWithoutHandshake(e)
      <4>1. PICK e \in Fd : info' = [info EXCEPT ![e] = @ + 1]
        BY <3>2 DEF Accept, AcceptWithoutHandshake, ArriveEsi
      <4> QED BY <4>1 DEF Steady, TypeOK
    <3>3. info' = info \/ \E e \in Fd : Accept(e) \/ AcceptWithoutHandshake(e)
      <4> SUFFICES ASSUME ~Crash, ~UNCHANGED vars,
                          ~ \E e \in Fd : Accept(e) \/ AcceptWithoutHandshake(e)
                   PROVE  info' = info
        BY DEF Crash, vars
      <4>1. CASE FlagSteps
        BY <4>1, FlagStepsGo DEF Steady
      <4>2. CASE EsiEvents \/ Corpse \/ AuthorizeEsiExecution
        BY <4>2 DEF EsiEvents, ExecutionSuccess, IAmBlocked, ExecutionFailure, Corpse,
               AuthorizeEsiExecution, SockMyPort
      <4>3. CASE \/ \E e \in Fd : Sentence(e) \/ InvalidLine(e) \/ EsiCut(e)
                 \/ \E s \in Fd \cup {Ghost} : Conversation(s)
                 \/ GoIdle \/ Operator \/ AddRequest \/ TogglePause
        BY <4>3 DEF Sentence, IsThisKeyBlocked, InvalidLine, EsiCut, Conversation,
               IsKeyBlockedByExecutingEsi, BlockKey, UnlockKey, InstanceAnswers, GoIdle,
               Operator, TypeCommand, AddRequest, TogglePause
      <4>4. CASE UninitialisedOpcode \/ Burn \/ CorpsesBurnt \/ FinishEsi \/ EsiFinished
                 \/ Drain \/ Reschedule \/ ContinueExecuting
        BY <4>4 DEF UninitialisedOpcode, Burn, CorpsesBurnt, FinishEsi, EsiFinished, Drain,
               Reschedule, ContinueExecuting
      <4> QED BY <1>4, <4>1, <4>2, <4>3, <4>4 DEF Next, Steps, FlagSteps
    <3> QED BY <3>1, <3>2, <3>3
  <2>4. main'.pc = "release" => main' = main \/ main'.snap = locked'
    <3> SUFFICES ASSUME main'.pc = "release", main' # main PROVE main'.snap = locked'
      OBVIOUS
    <3>1. ~Crash /\ ~UNCHANGED vars
      BY DEF Crash, vars
    <3>2. CASE ExecutionFailure \/ Corpse \/ AuthorizeEsiExecution
      <4>1. main' # Idle
        BY DEF Idle
      <4>2. PICK e, after, i : SockMyPort(e, after, i)
        BY <3>2, <4>1 DEF ExecutionFailure, Corpse, AuthorizeEsiExecution
      <4> QED BY <3>1, <4>2 DEF SockMyPort, Steady, TypeOK, Locals
    <3>3. CASE FinishEsi
      BY <3>1, <3>3 DEF FinishEsi, Steady, TypeOK, Locals
    <3>4. CASE FlagSteps
      BY <3>1, <3>4, FlagStepsGo DEF Steady, FlagLabels
    <3>5. CASE \/ \E e \in Fd : Accept(e) \/ AcceptWithoutHandshake(e)
               \/ \E e \in Fd : Sentence(e) \/ InvalidLine(e) \/ EsiCut(e)
               \/ \E s \in Fd \cup {Ghost} : Conversation(s)
               \/ Operator \/ AddRequest \/ TogglePause
      BY <3>1, <3>5 DEF Accept, AcceptWithoutHandshake, ArriveEsi, Sentence, IsThisKeyBlocked,
             InvalidLine, EsiCut, Conversation, IsKeyBlockedByExecutingEsi, BlockKey, UnlockKey,
             InstanceAnswers, Operator, TypeCommand, AddRequest, TogglePause
    <3>6. CASE UninitialisedOpcode \/ IAmBlocked \/ GoIdle \/ Burn \/ CorpsesBurnt
               \/ EsiFinished \/ Drain
      <4> USE <3>1 DEF Steady, TypeOK, Locals, Goto, Idle
      <4>1. CASE UninitialisedOpcode BY <4>1 DEF UninitialisedOpcode
      <4>2. CASE IAmBlocked          BY <4>2 DEF IAmBlocked
      <4>3. CASE GoIdle              BY <4>3 DEF GoIdle
      <4>4. CASE Burn                BY <4>4 DEF Burn
      <4>5. CASE CorpsesBurnt        BY <4>5 DEF CorpsesBurnt
      <4>6. CASE EsiFinished         BY <4>6 DEF EsiFinished
      <4>7. CASE Drain               BY <4>7 DEF Drain
      <4> QED BY <3>6, <4>1, <4>2, <4>3, <4>4, <4>5, <4>6, <4>7
    <3>7. ASSUME NEW finish \in BOOLEAN, ExecutionSuccess(finish) PROVE FALSE
      BY <3>7 DEF ExecutionSuccess, Steady, TypeOK, Locals
    <3>8. CASE Reschedule
      <4>1. main' = [main EXCEPT !.pc = "authorize", !.esi = main'.esi, !.outer = main'.outer]
        BY <3>1, <3>8 DEF Reschedule, Steady, TypeOK, Locals
      <4> QED BY <4>1 DEF Steady, TypeOK, Locals
    <3>9. CASE ContinueExecuting
      BY <3>9 DEF ContinueExecuting, Idle, Steady, TypeOK, Locals
    <3> QED BY <1>4, <3>1, <3>2, <3>3, <3>4, <3>5, <3>6, <3>7, <3>8, <3>9
            DEF Next, Steps, EsiEvents, FlagSteps
  <2> QED BY <2>1, <2>2, <2>3, <2>4, OwnersStay
<1> QED BY <1>1, <1>2, <1>3, <1>4

\* At first the keys that are blocked belong to the system.
LEMMA InitOwners == Init => NoBlock /\ Owners
<1> SUFFICES ASSUME Init PROVE NoBlock /\ Owners
  OBVIOUS
<1> QED BY DEF Init, NoBlock, Owners, OwnersAlive, Idle, FlagName

\* The conditions under which keys go only from one live ESI to the next: also no
\* process cut in the middle of its sentence, and no command bloquear.
Undisturbed == Unbroken /\ "cut" \notin Failures /\ "bloquear" \notin Commands

\* What holds of the keys then.
Kept == Steady /\ Alternate /\ OneOwner /\ NoBlock /\ Owners

\* Together: initially,
LEMMA InitKept == Init => Kept
BY InitSteady, InitAlternate, InitOwners DEF Kept

\* and after every step.
LEMMA NextKept ==
  ASSUME Undisturbed, Kept, [Next]_vars
  PROVE  Kept'
<1>1. Steady'
  BY NextSteady DEF Undisturbed, Kept
<1>2. Alternate' /\ OneOwner'
  BY NextAlternate, NextLocks, LocksStepKeepsOneOwner DEF Undisturbed, Kept, Steady
<1>3. NoBlock' /\ Owners'
  BY NextNoBlock, NextOwners DEF Undisturbed, Kept, Steady
<1> QED BY <1>1, <1>2, <1>3 DEF Kept

\* Nobody leaves with a key: release_resources works on a copy of the list of keys,
\* and yet when it forgets the ESI no key in the table has that owner, whether the ESI
\* finished, broke the law or was killed.  The conditions leave out a process that is
\* cut and bloquear, which together break it in the program: an ESI blocked on its own
\* key is woken by its own death (893).  Of a failed handshake, with one command, TLC
\* finds no counterexample; the invariant needs the condition.
THEOREM OwnersAliveCorrect ==
  ASSUME Undisturbed
  PROVE  Spec => []OwnersAlive
<1>1. Init => Kept
  BY InitKept
<1>2. Kept /\ [Next]_vars => Kept'
  BY NextKept
<1>3. Kept => OwnersAlive
  BY DEF Kept, Owners
<1> QED BY <1>1, <1>2, <1>3, PTL DEF Spec

-----------------------------------------------------------------------------
(* A STORE gives its key back *)

\* The table of keys, read as a set.
LEMMA LocksAsSet ==
  /\ \A e, k : Holds(e, k) <=> \E c \in ToSet(locked) : c.esi = e /\ c.key = k
  /\ \A k : Locked(k) <=> \E c \in ToSet(locked) : c.key = k
  /\ \A e, k : Holds(e, k)' <=> \E c \in ToSet(locked') : c.esi = e /\ c.key = k
  /\ \A k : Locked(k)' <=> \E c \in ToSet(locked') : c.key = k
BY DEF Holds, Locked, ToSet

\* A key more is a key more.
LEMMA AppendHolds ==
  ASSUME locked \in Seq(Claim), NEW c \in Claim, locked' = Append(locked, c)
  PROVE  /\ \A e, k : Holds(e, k)' <=> Holds(e, k) \/ (c.esi = e /\ c.key = k)
         /\ \A k : Locked(k)' <=> Locked(k) \/ c.key = k
<1>1. ToSet(locked') = ToSet(locked) \cup {c}
  BY AppendSet
<1> QED BY <1>1, LocksAsSet

\* update_blocked_esi_queue for a key that was stored: nobody has it any more, and the
\* other keys stay where they are.
LEMMA ForgetKeyHolds ==
  ASSUME TypeOK, OneOwner, NEW k, locked' = ForgetKey(locked, k)
  PROVE  /\ ~Locked(k)'
         /\ \A e, x : Holds(e, x)' <=> Holds(e, x) /\ x # k
         /\ \A x : Locked(x)' <=> Locked(x) /\ x # k
<1>1. locked \in Seq(Claim) /\ Distinct(locked)
  BY DEF TypeOK, OneOwner, Distinct
<1>2. /\ \A c \in ToSet(locked') : c \in ToSet(locked) /\ c.key # k
      /\ \A c \in ToSet(locked) : c.key # k => c \in ToSet(locked')
  BY <1>1, ForgetKeyTakes DEF ToSet
<1> QED BY <1>2, LocksAsSet

\* The conditions of the rest: nor does the operator kill anybody.
Calm == Undisturbed /\ "kill" \notin Commands

\* A message of the coordinator is about the sentence of the executing ESI.
LEMMA ConversationIs ==
  ASSUME Kept, NEW s \in Fd \cup {Ghost}, Conversation(s)
  PROVE  /\ s \in Fd /\ s = executing /\ main.pc = "select" /\ Talking(s)
         /\ queue["execution"] = <<s>> /\ Head(queue["execution"]) = s
         /\ \A e \in Fd : e # s => ~Talking(e)
<1>1. esi[s].st \in InFlight
  BY DEF Conversation, IsKeyBlockedByExecutingEsi, BlockKey, UnlockKey, InstanceAnswers,
         CoordinatorMessage, InFlight
<1>2. s \in Fd
  BY <1>1 DEF Kept, Alternate, InFlight
<1>3. Talking(s)
  BY <1>1 DEF Talking
<1> QED BY <1>2, <1>3, TalkerExecutes, OneElement DEF Kept, Steady

\* What a message about a live sentence does to the ESIs.
LEMMA AdvanceOne ==
  ASSUME TypeOK, NEW s \in Fd, NEW st, Advance(s, st)
  PROVE  /\ esi'[s].st = st /\ esi'[s].op = esi[s].op /\ esi'[s].key = esi[s].key
         /\ esi'[s].retry = esi[s].retry /\ esi'[s].orders = esi[s].orders
         /\ \A e \in Fd : e # s => esi'[e] = esi[e]
<1>1. s # Ghost /\ esi[s] \in Process
  BY ConstantsAssumption DEF TypeOK
<1>2. esi' = [esi EXCEPT ![s] = [esi[s] EXCEPT !.st = st]]
  BY <1>1 DEF Advance
<1> QED BY <1>1, <1>2 DEF TypeOK, Process

\* The key of a STORE that succeeded is in key_to_unlock, with its flag up, until
\* main() has served it; the answer "ok" to anything else comes from a GET or a SET.
Stored(e) == esi[e].st = "idle" /\ ~esi[e].retry /\ esi[e].op = "STORE"
Stores == \A e \in Fd :
    /\ Stored(e) /\ Holds(e, esi[e].key) =>
           /\ main.pc \in {"burn", "drain", "update"} /\ ~main.fin
           /\ flag.update /\ keyToUnlock = esi[e].key
    /\ esi[e].st = "ok" /\ esi[e].op = "STORE" =>
           flag.update /\ keyToUnlock = esi[e].key
    /\ esi[e].st = "locking" => esi[e].op = "GET"

\* An ESI that tells nothing new about a STORE.
Unstored(e) == /\ ~Stored(e) /\ ~(esi[e].st = "ok" /\ esi[e].op = "STORE")
               /\ esi[e].st = "locking" => esi[e].op = "GET"

\* Steps that keep what was announced.
LEMMA StoresStay ==
  ASSUME Stores,
         \A e \in Fd : esi'[e] = esi[e] \/ Unstored(e)',
         \A e, k : Holds(e, k)' => Holds(e, k),
         flag.update => flag'.update, keyToUnlock' = keyToUnlock,
         main.pc \in {"burn", "drain", "update"} /\ ~main.fin /\ flag.update =>
             main'.pc \in {"burn", "drain", "update"} /\ ~main'.fin
  PROVE  Stores'
<1> SUFFICES ASSUME NEW e \in Fd, esi'[e] = esi[e]
             PROVE  /\ Stored(e)' /\ Holds(e, esi[e].key)' =>
                           /\ main'.pc \in {"burn", "drain", "update"} /\ ~main'.fin
                           /\ flag'.update /\ keyToUnlock' = esi'[e].key
                    /\ esi'[e].st = "ok" /\ esi'[e].op = "STORE" =>
                           flag'.update /\ keyToUnlock' = esi'[e].key
                    /\ esi'[e].st = "locking" => esi'[e].op = "GET"
  BY DEF Stores, Unstored
<1>1. Holds(e, esi[e].key)' => Holds(e, esi[e].key)
  <2>1. Holds(e, esi[e].key)' <=> \E c \in ToSet(locked') : c.esi = e /\ c.key = esi[e].key
    BY DEF Holds, ToSet
  <2>2. Holds(e, esi[e].key) <=> \E c \in ToSet(locked) : c.esi = e /\ c.key = esi[e].key
    BY DEF Holds, ToSet
  <2> QED BY <2>1, <2>2, LocksAsSet
<1> QED BY <1>1 DEF Stores, Stored

\* The sentence of an ESI, and the answer to it, are those of before.
SameSentence(e) == /\ esi'[e].st = esi[e].st /\ esi'[e].op = esi[e].op
                   /\ esi'[e].key = esi[e].key /\ esi'[e].retry = esi[e].retry

\* Steps of main() where nothing is announced: after the update, or for a script that
\* finished.
LEMMA NothingStored ==
  ASSUME Stores, \A e \in Fd : ~Talking(e), \A e \in Fd : SameSentence(e) \/ Unstored(e)',
         main.pc \notin {"burn", "drain", "update"} \/ main.fin \/ ~flag.update,
         \A e, k : Holds(e, k)' => Holds(e, k)
  PROVE  Stores'
<1> SUFFICES ASSUME NEW e \in Fd, SameSentence(e)
             PROVE  ~(Stored(e)' /\ Holds(e, esi[e].key)')
  BY DEF Stores, Unstored, Talking, InFlight, SameSentence
<1>1. Holds(e, esi[e].key)' => Holds(e, esi[e].key)
  <2>1. Holds(e, esi[e].key)' <=> \E c \in ToSet(locked') : c.esi = e /\ c.key = esi'[e].key
    BY DEF Holds, ToSet
  <2>2. \A k : Holds(e, k)' <=> \E c \in ToSet(locked') : c.esi = e /\ c.key = k
    BY LocksAsSet
  <2> QED BY <2>1, <2>2 DEF SameSentence
<1> QED BY <1>1 DEF Stores, Stored, SameSentence

\* The table of keys only shrinks, except in BLOCK_KEY.
LEMMA HoldsShrinks ==
  ASSUME Kept, [Next]_vars, ~ \E s \in Fd \cup {Ghost} : BlockKey(s) /\ ~Crash
  PROVE  /\ \A e, k : Holds(e, k)' => Holds(e, k)
         /\ \A k : Locked(k)' => Locked(k)
<1>1. Thinned(locked', locked) /\ locked \in Seq(Claim)
  BY OnlyBlockKeyLocks DEF Kept, Steady, TypeOK
<1>2. ToSet(locked') \subseteq ToSet(locked)
  BY <1>1, ThinnedSet
<1> QED BY <1>2, LocksAsSet

\* The coordinator's messages: the answer to the STORE comes with the key to release.
LEMMA ConversationStores ==
  ASSUME Kept, Stores, ~Crash, NEW s \in Fd \cup {Ghost}, Conversation(s)
  PROVE  Stores'
<1> USE DEF keyVars, term, world, tables
<1>0. /\ s \in Fd /\ s = executing /\ main.pc = "select" /\ Talking(s) /\ UNCHANGED main
      /\ queue["execution"] = <<s>> /\ Head(queue["execution"]) = s
      /\ \A e \in Fd : e # s => ~Talking(e)
  BY ConversationIs DEF Conversation, IsKeyBlockedByExecutingEsi, BlockKey, UnlockKey,
     InstanceAnswers
<1>1. ASSUME NEW st, Advance(s, st), st = "ok" => esi[s].op # "STORE",
             st \notin {"idle", "locking"},
             UNCHANGED <<locked, flag, keyToUnlock>>
      PROVE  Stores'
  <2>1. esi'[s].st = st /\ esi'[s].op = esi[s].op /\ \A e \in Fd : e # s => esi'[e] = esi[e]
    BY <1>0, <1>1, AdvanceOne DEF Kept, Steady
  <2>2. Unstored(s)'
    BY <1>1, <2>1 DEF Unstored, Stored
  <2>3. \A e, k : Holds(e, k)' => Holds(e, k)
    BY <1>1 DEF Holds
  <2>4. \A e \in Fd : esi'[e] = esi[e] \/ Unstored(e)'
    BY <2>1, <2>2
  <2>5. UNCHANGED <<main, flag, keyToUnlock>>
    BY <1>0, <1>1
  <2> HIDE DEF Stores
  <2> QED BY <2>3, <2>4, <2>5, StoresStay
<1>2. CASE IsKeyBlockedByExecutingEsi(s)
  <2>1. PICK st \in {"ok", "working", "blocked", "gone"} :
            Advance(s, st) /\ (st = "ok" => esi[s].op = "GET")
    BY <1>2 DEF IsKeyBlockedByExecutingEsi
  <2>2. UNCHANGED <<locked, flag, keyToUnlock>>
    BY <1>2 DEF IsKeyBlockedByExecutingEsi
  <2> QED BY <1>1, <2>1, <2>2
<1>3. CASE InstanceAnswers(s)
  <2>1. PICK st \in {"ok", "unlocking", "gone"} :
            Advance(s, st) /\ (st = "ok" => esi[s].op = "SET")
    BY <1>3 DEF InstanceAnswers
  <2>2. UNCHANGED <<locked, flag, keyToUnlock>>
    BY <1>3 DEF InstanceAnswers
  <2> QED BY <1>1, <2>1, <2>2
<1>4. CASE UnlockKey(s)
  <2>1. /\ esi'[s].st = "ok" /\ esi'[s].key = esi[s].key
        /\ \A e \in Fd : e # s => esi'[e] = esi[e]
        /\ keyToUnlock' = esi[s].key /\ locked' = locked
    BY <1>0, <1>4, AdvanceOne DEF UnlockKey, Kept, Steady
  <2>2. flag'.update
    BY <1>4 DEF UnlockKey, Kept, Steady, TypeOK, FlagName
  <2>3. ASSUME NEW e \in Fd, e # s
        PROVE  /\ ~(Stored(e)' /\ Holds(e, esi[e].key)') /\ esi'[e].st \notin {"ok", "locking"}
    BY <1>0, <2>1, <2>3 DEF Stores, Stored, Talking, InFlight, Holds
  <2> QED BY <2>1, <2>2, <2>3 DEF Stores, Stored
<1>5. CASE BlockKey(s)
  <2>1. /\ esi'[s].st = "ok" /\ esi'[s].op = "GET"
        /\ \A e \in Fd : e # s => esi'[e] = esi[e]
    <3>1. esi[s].op = "GET"
      BY <1>0, <1>5 DEF BlockKey, CoordinatorMessage, Stores
    <3> QED BY <1>0, <1>5, <3>1, AdvanceOne DEF BlockKey, Kept, Steady
  <2>2. \A e, k : Holds(e, k)' <=> Holds(e, k) \/ (s = e /\ lastKey = k)
    <3> DEFINE c == [esi |-> s, key |-> lastKey]
    <3>1. c \in Claim /\ c.esi = s /\ c.key = lastKey
      BY <1>0 DEF Claim, AnyEsi, Kept, Steady, TypeOK
    <3>2. locked' = Append(locked, c) /\ locked \in Seq(Claim)
      BY <1>0, <1>5 DEF BlockKey, Kept, Steady, TypeOK
    <3> HIDE DEF c
    <3> QED BY <3>1, <3>2, AppendHolds
  <2>3. ASSUME NEW e \in Fd, e # s
        PROVE  /\ ~(Stored(e)' /\ Holds(e, esi[e].key)') /\ esi'[e].st \notin {"ok", "locking"}
    <3>1. Holds(e, esi[e].key)' => Holds(e, esi[e].key)
      <4>1. Holds(e, esi[e].key)' <=> \E c \in ToSet(locked') : c.esi = e /\ c.key = esi[e].key
        BY <2>1, <2>3 DEF Holds, ToSet
      <4> QED BY <2>2, <2>3, <4>1, LocksAsSet
    <3> QED BY <1>0, <2>1, <2>3, <3>1 DEF Stores, Stored, Talking, InFlight
  <2> QED BY <2>1, <2>3 DEF Stores, Stored
<1> QED BY <1>2, <1>3, <1>4, <1>5 DEF Conversation

\* The executing ESI answers: with the success of a STORE, main() goes to the update
\* of the key, unless the script finished.
LEMMA EsiEventsStores ==
  ASSUME Kept, Stores, ~Crash, EsiEvents
  PROVE  Stores'
<1> USE DEF keyVars, term, world, tables
<1>0. /\ main.pc = "select" /\ executing \in Fd /\ UNCHANGED <<locked, keyToUnlock>>
      /\ flag'.update = flag.update
      /\ \A e, k : Holds(e, k)' => Holds(e, k)
      /\ esi[executing] \in Process
  <2>1. flag' = flag \/ flag' = WhenOthersReady(flag)
    BY DEF EsiEvents, ExecutionSuccess, IAmBlocked, ExecutionFailure, SockMyPort
  <2>2. flag'.update = flag.update
    BY <2>1 DEF WhenOthersReady, Kept, Steady, TypeOK, FlagName
  <2> QED BY <2>2 DEF EsiEvents, ExecutionSuccess, IAmBlocked, ExecutionFailure, SockMyPort,
         FromExecutingEsi, Holds, Kept, Steady, TypeOK
<1>1. CASE ExecutionFailure
  <2>1. esi' = esi
    BY <1>1 DEF ExecutionFailure, SockMyPort
  <2> QED BY <1>0, <2>1, StoresStay
<1>2. CASE IAmBlocked
  <2>1. /\ esi'[executing].st = "idle" /\ esi'[executing].retry
        /\ \A e \in Fd : e # executing => esi'[e] = esi[e]
    <3>1. esi' = [esi EXCEPT ![executing] = [esi[executing] EXCEPT !.st = "idle", !.retry = TRUE]]
      BY <1>0, <1>2 DEF IAmBlocked, Kept, Steady, TypeOK
    <3> QED BY <1>0, <3>1 DEF Kept, Steady, TypeOK, Process
  <2>2. \A e \in Fd : esi'[e] = esi[e] \/ Unstored(e)'
    BY <2>1 DEF Unstored, Stored
  <2> QED BY <1>0, <2>2, StoresStay
<1>3. ASSUME NEW finish \in BOOLEAN, ExecutionSuccess(finish)
      PROVE  Stores'
  <2> DEFINE st == IF finish THEN "gone" ELSE "idle"
  <2>1. /\ esi[executing].st = "ok" /\ esi'[executing].st = st
        /\ esi'[executing].op = esi[executing].op /\ esi'[executing].key = esi[executing].key
        /\ \A e \in Fd : e # executing => esi'[e] = esi[e]
    <3>1. esi' = [esi EXCEPT ![executing] = [esi[executing] EXCEPT !.st = st]]
          /\ esi[executing].st = "ok"
      BY <1>0, <1>3 DEF ExecutionSuccess, FromExecutingEsi, Kept, Steady, TypeOK
    <3> HIDE DEF st
    <3> QED BY <1>0, <3>1 DEF Kept, Steady, TypeOK, Process
  <2>2. \A e \in Fd : e # executing => ~Talking(e)
    BY <2>1, TalkerExecutes DEF Kept, Steady, Talking
  <2>3. CASE finish
    <3>1. \A e \in Fd : esi'[e] = esi[e] \/ Unstored(e)'
      BY <2>1, <2>3 DEF Unstored, Stored
    <3> QED BY <1>0, <3>1, StoresStay
  <2>4. CASE ~finish
    <3>1. main'.pc = "burn" /\ ~main'.fin
      BY <1>3, <2>4 DEF ExecutionSuccess, Kept, Steady, TypeOK, Locals
    <3>2. ASSUME NEW e \in Fd, e # executing
          PROVE  /\ ~(Stored(e)' /\ Holds(e, esi[e].key)')
                 /\ esi'[e].st \notin {"ok", "locking"}
      BY <1>0, <2>1, <2>2, <3>2 DEF Stores, Stored, Talking, InFlight, Holds
    <3>3. esi[executing].op = "STORE" => flag.update /\ keyToUnlock = esi[executing].key
      BY <1>0, <2>1 DEF Stores
    <3>4. flag'.update = flag.update /\ keyToUnlock' = keyToUnlock
      BY <1>0
    <3>5. esi'[executing].st = "idle"
      BY <2>1, <2>4
    <3> QED BY <2>1, <3>1, <3>2, <3>3, <3>4, <3>5 DEF Stores, Stored
  <2> QED BY <2>3, <2>4
<1> QED BY <1>1, <1>2, <1>3 DEF EsiEvents

\* Serving the flags: only the update of a key takes an announcement away, together
\* with the key.
LEMMA FlagStepsStores ==
  ASSUME Kept, Stores, ~Crash, FlagSteps, [Next]_vars
  PROVE  Stores'
<1> USE DEF keyVars, term, world, tables
<1>1. /\ \A e \in Fd : ~Talking(e) /\ SameSentence(e)
      /\ \A e, k : Holds(e, k)' => Holds(e, k)
  <2>1. main.pc # "select" /\ esi' = esi
    BY FlagStepsGo DEF Kept, Steady, FlagLabels
  <2>2. \A e, k : Holds(e, k)' => Holds(e, k)
    BY <2>1, HoldsShrinks DEF BlockKey, CoordinatorMessage
  <2> QED BY <2>1, <2>2, Silence DEF Kept, Steady, SameSentence
<1>2. CASE main.pc # "update" \/ ~flag.update
  <2>1. main.pc \notin {"burn", "drain", "update"} \/ main.fin \/ ~flag.update
    BY <1>2, FlagStepsGo DEF Kept, Steady, FlagLabels
  <2> QED BY <1>1, <2>1, NothingStored
<1>3. CASE main.pc = "update" /\ flag.update
  <2>1. ServeUpdate
    BY <1>3 DEF FlagSteps, ServeUnlocks, ReleaseByConsole, UnlocksServed, ServeNews,
       BlockExecuting, FilterReady, BlockReady, ReadyBlocked, BlockForSystem,
       BlocksServed, Preempt
  <2>2. locked' = ForgetKey(locked, keyToUnlock) /\ UNCHANGED esi
    BY <1>3, <2>1 DEF ServeUpdate, UpdateBlockedEsiQueue
  <2>3. \A e, x : Holds(e, x)' <=> Holds(e, x) /\ x # keyToUnlock
    BY <2>2, ForgetKeyHolds DEF Kept, Steady
  <2>4. ASSUME NEW e \in Fd
        PROVE  /\ ~(Stored(e)' /\ Holds(e, esi[e].key)') /\ esi'[e].st \notin {"ok", "locking"}
    <3>1. Holds(e, esi[e].key)' => Holds(e, esi[e].key) /\ esi[e].key # keyToUnlock
      <4>1. Holds(e, esi[e].key)' <=> \E c \in ToSet(locked') : c.esi = e /\ c.key = esi[e].key
        BY <2>2 DEF Holds, ToSet
      <4> QED BY <2>3, <4>1, LocksAsSet
    <3> QED BY <1>1, <2>2, <3>1 DEF Stores, Stored, Talking, InFlight
  <2> QED BY <2>4 DEF Stores, Stored
<1> QED BY <1>2, <1>3

\* Every step keeps a STORE and the release of its key together.
LEMMA NextStores ==
  ASSUME Kept, Stores, Calm, [Next]_vars
  PROVE  Stores'
<1> USE DEF keyVars, term, world, tables
<1>0. CASE UNCHANGED vars \/ Crash
  <2>1. UNCHANGED <<main, locked, flag, keyToUnlock, esi>>
    BY <1>0 DEF vars, Crash
  <2>2. \A e, k : Holds(e, k)' => Holds(e, k)
    BY <2>1 DEF Holds
  <2> QED BY <2>1, <2>2, StoresStay
<1> SUFFICES ASSUME ~Crash, ~UNCHANGED vars PROVE Stores'
  BY <1>0
<1>1. CASE \E s \in Fd \cup {Ghost} : Conversation(s)
  BY <1>1, ConversationStores
<1>2. CASE EsiEvents
  BY <1>2, EsiEventsStores
<1>3. CASE FlagSteps
  BY <1>3, FlagStepsStores
<1> SUFFICES ASSUME ~ \E s \in Fd \cup {Ghost} : Conversation(s), ~EsiEvents, ~FlagSteps
             PROVE  Stores'
  BY <1>1, <1>2, <1>3
<1>4. \A e, k : Holds(e, k)' => Holds(e, k)
  BY HoldsShrinks DEF Conversation
<1>5. ASSUME NEW e \in Fd, Accept(e) \/ AcceptWithoutHandshake(e)
      PROVE  Stores'
  <2>1. ArriveEsi(e, TRUE)
    BY <1>5 DEF Accept, AcceptWithoutHandshake, Calm, Undisturbed, Unbroken
  <2>2. /\ UNCHANGED <<main, keyToUnlock>> /\ flag'.update = flag.update
        /\ esi'[e] = [NoProcess EXCEPT !.st = "idle"]
        /\ \A f \in Fd : f # e => esi'[f] = esi[f]
    BY <2>1 DEF ArriveEsi, Kept, Steady, TypeOK, FlagName
  <2>3. esi'[e].st = "idle" /\ esi'[e].op = "GET"
    BY <2>2 DEF NoProcess
  <2>4. \A f \in Fd : esi'[f] = esi[f] \/ Unstored(f)'
    BY <2>2, <2>3 DEF Unstored, Stored
  <2> QED BY <1>4, <2>2, <2>4, StoresStay
<1>6. ASSUME NEW e \in Fd, Sentence(e)
      PROVE  Stores'
  <2>1. PICK op \in {"GET", "SET", "STORE"}, k \in Key : IsThisKeyBlocked(e, op, k)
    BY <1>6 DEF Sentence
  <2> DEFINE r == [st     |-> IF Locked(k) THEN "asking"
                              ELSE IF op = "GET" THEN "locking" ELSE "gone",
                   op     |-> op, key |-> k, retry |-> FALSE,
                   orders |-> esi[e].orders - 1,
                   line   |-> IF esi[e].retry THEN esi[e].line ELSE esi[e].line + 1]
  <2>2. esi' = [esi EXCEPT ![e] = r] /\ UNCHANGED <<main, flag, keyToUnlock>>
    BY <2>1 DEF IsThisKeyBlocked
  <2>3. r.st \notin {"idle", "ok"} /\ (r.st = "locking" => r.op = "GET")
    OBVIOUS
  <2> HIDE DEF r
  <2>4. \A f \in Fd : esi'[f] = esi[f] \/ Unstored(f)'
    BY <2>2, <2>3 DEF Unstored, Stored, Kept, Steady, TypeOK
  <2> QED BY <1>4, <2>2, <2>4, StoresStay
<1>7. ASSUME NEW e \in Fd, InvalidLine(e)
      PROVE  Stores'
  <2>1. Advance(e, "gone") /\ UNCHANGED <<main, flag, keyToUnlock>>
    BY <1>7 DEF InvalidLine
  <2>2. esi'[e].st = "gone" /\ \A f \in Fd : f # e => esi'[f] = esi[f]
    BY <2>1, AdvanceOne DEF Kept, Steady
  <2>3. \A f \in Fd : esi'[f] = esi[f] \/ Unstored(f)'
    BY <2>2 DEF Unstored, Stored
  <2> QED BY <1>4, <2>1, <2>3, StoresStay
<1>8. CASE \E e \in Fd : EsiCut(e)
  BY <1>8 DEF EsiCut, Calm, Undisturbed
<1>9. CASE Operator \/ AddRequest \/ TogglePause
  <2>1. UNCHANGED <<main, keyToUnlock, esi>>
    BY <1>9 DEF Operator, TypeCommand, AddRequest, TogglePause
  <2>2. flag.update => flag'.update
    BY <1>9 DEF Operator, TypeCommand, AddRequest, TogglePause, Kept, Steady, TypeOK, FlagName
  <2> QED BY <1>4, <2>1, <2>2, StoresStay
<1>10. CASE Burn
  <2>1. ~flag.killed
    BY DEF Calm, Kept, Steady, ExecInv, Routes
  <2>2. main.pc = "burn" /\ Goto("drain") /\ UNCHANGED <<flag, keyToUnlock, esi>>
    BY <1>10, <2>1 DEF Burn
  <2>3. main'.pc = "drain" /\ main'.fin = main.fin
    BY <2>2 DEF Goto, Kept, Steady, TypeOK, Locals
  <2> QED BY <1>4, <2>2, <2>3, StoresStay
<1>11. CASE Drain
  <2>1. /\ Goto(IF main.ctx = "idle" \/ flag.update \/ flag.new \/ flag.unlock
                THEN "update" ELSE "dispatch")
        /\ UNCHANGED <<flag, keyToUnlock, esi>> /\ ~main.fin
    BY <1>11 DEF Drain
  <2>2. main'.fin = main.fin /\ (flag.update => main'.pc = "update")
    BY <2>1 DEF Goto, Kept, Steady, TypeOK, Locals
  <2> QED BY <1>4, <2>1, <2>2, StoresStay
<1>12. CASE ReleaseEnd
  <2>1. main.pc = "release" /\ main.esi \in Fd /\ esi' = Orphan(main.esi)
    BY <1>12 DEF ReleaseEnd, Kept, Steady, Control, Known
  <2>2. /\ esi'[main.esi] = NoProcess /\ \A f \in Fd : f # main.esi => esi'[f] = esi[f]
    BY <2>1, ConstantsAssumption DEF Orphan, Kept, Steady, TypeOK
  <2>3. \A f \in Fd : SameSentence(f) \/ Unstored(f)'
    BY <2>2 DEF SameSentence, Unstored, Stored, NoProcess
  <2>4. \A f \in Fd : ~Talking(f)
    BY <2>1, Silence DEF Kept, Steady
  <2> QED BY <1>4, <2>1, <2>3, <2>4, NothingStored
<1>13. CASE AuthorizeEsiExecution
  <2>1. main.pc = "authorize" /\ \A f \in Fd : ~Talking(f)
    BY <1>13, Silence DEF AuthorizeEsiExecution, Kept, Steady
  <2>2. \A f \in Fd : SameSentence(f)
    <3>1. CASE esi' = esi
      BY <3>1 DEF SameSentence
    <3>2. CASE esi' = [esi EXCEPT ![main.esi] =
                           [esi[main.esi] EXCEPT !.orders = esi[main.esi].orders + 1]]
      BY <3>2 DEF SameSentence, Kept, Steady, TypeOK, Process
    <3> QED BY <1>13, <3>1, <3>2 DEF AuthorizeEsiExecution, SockMyPort
  <2> QED BY <1>4, <2>1, <2>2, NothingStored
<1>14. CASE GoIdle \/ UninitialisedOpcode \/ ReleaseKey \/ FinishEsi \/ EsiFinished
            \/ Reschedule \/ ContinueExecuting
  <2>1. main.pc \notin {"burn", "drain", "update"} \/ main.fin
    BY <1>14 DEF GoIdle, UninitialisedOpcode, ReleaseKey, FinishEsi, EsiFinished, Reschedule,
       ContinueExecuting
  <2>2. \A f \in Fd : ~Talking(f)
    BY <1>14, Silence DEF GoIdle, UninitialisedOpcode, ReleaseKey, FinishEsi, EsiFinished,
       Reschedule, ContinueExecuting, Kept, Steady
  <2>3. \A f \in Fd : SameSentence(f)
    BY <1>14 DEF GoIdle, UninitialisedOpcode, ReleaseKey, FinishEsi, EsiFinished, Reschedule,
       ContinueExecuting, SameSentence
  <2> QED BY <1>4, <2>1, <2>2, <2>3, NothingStored
<1>15. CASE Corpse \/ CorpsesBurnt
  BY <1>15 DEF Corpse, CorpsesBurnt, Calm, Kept, Steady, ExecInv, Routes
<1> QED BY <1>5, <1>6, <1>7, <1>8, <1>9, <1>10, <1>11, <1>12, <1>13, <1>14, <1>15
        DEF Next, Steps, FlagSteps

\* No STORE has been announced at first.
LEMMA InitStores == Init => Stores
<1> SUFFICES ASSUME Init PROVE Stores
  OBVIOUS
<1>1. \A e \in Fd : esi[e].st = "off"
  BY DEF Init, NoProcess
<1> QED BY <1>1 DEF Stores, Stored

\* The key of a STORE is not its ESI's any more when main() waits for the next message:
\* UNLOCK_KEY leaves it in one variable with one flag, and whatever the ESI answers,
\* the flag is served, or release_resources gives the key back, before select() is
\* called again.  The condition leaves out what breaks it in the program: bloquear gives
\* the key back to its ESI, the STORE of an ESI that was cut is announced over that of
\* the next one, and burying an ESI that was killed lowers the flag (847), so a kill
\* served between the announcement and the update leaves the key with its ESI.  Of a
\* failed handshake TLC finds no counterexample; the invariant needs the condition.
THEOREM StoreReleasesCorrect ==
  ASSUME Calm
  PROVE  Spec => []StoreReleases
<1> DEFINE IInv == Kept /\ Stores
<1>1. Init => IInv
  BY InitKept, InitStores
<1>2. IInv /\ [Next]_vars => IInv'
  BY NextKept, NextStores DEF Calm
<1>3. IInv => StoreReleases
  BY DEF StoreReleases, Stores, Stored
<1> HIDE DEF IInv
<1> QED BY <1>1, <1>2, <1>3, PTL DEF Spec

-----------------------------------------------------------------------------
(* No waiter is forgotten *)

\* Whoever leaves has nothing in flight: its socket was read to the end, or it said
\* that its script finished.
Leaving ==
    /\ main.fin /\ main.pc # "finish" => esi[executing].st = "gone"
    /\ main.pc = "release" => esi[main.esi].st = "gone"
    /\ main.pc = "finish" => esi[executing].st = "off" /\ ~esi[executing].retry

\* A waiter is an ESI that will send again the line it was blocked for.
Retries ==
    /\ \A c \in ToSet(expecting) :
           esi[c.esi].st = "idle" /\ esi[c.esi].retry /\ esi[c.esi].key = c.key
    /\ \A e \in Fd : esi[e].retry => esi[e].st \in {"idle", "off"}

\* The key the coordinator asked about is that of the sentence in flight, until
\* PROTOCOL_EP_I_AM_BLOCKED has used it; a SET or STORE is forwarded only for a key
\* of its ESI.
Inquiry == \A e \in Fd :
    /\ esi[e].st \in {"asking", "locking", "blocked"} => lastKey = esi[e].key /\ lastKey # Freed
    /\ esi[e].st \in {"asking", "blocked"} => Locked(lastKey)
    /\ esi[e].st \in {"working", "unlocking"} => Holds(e, esi[e].key)

\* An ESI that is about to ask for k, or is asking.
Asks(e, k) ==
    /\ esi[e].retry \/ esi[e].st \in InFlight
    /\ esi[e].key = k
    /\ e \in In("ready") \cup In("execution")

\* The waiters of a key sleep only while somebody has the key or is about to ask.
Awake == \A c \in ToSet(expecting) : Locked(c.key) \/ \E e \in Fd : Asks(e, c.key)

\* What holds when waiters are never forgotten.
Watched == Kept /\ QueueInv

\* Without kill, main() buries those whose socket ended and those who finished.
LEMMA NextLeaving ==
  ASSUME Watched, Leaving, Calm, [Next]_vars
  PROVE  Leaving'
<1> USE DEF keyVars, term, world, tables
<1>0. CASE UNCHANGED vars \/ Crash
  <2>1. UNCHANGED <<main, executing, esi>>
    BY <1>0 DEF vars, Crash
  <2> QED BY <2>1 DEF Leaving
<1> SUFFICES ASSUME ~Crash, ~UNCHANGED vars PROVE Leaving'
  BY <1>0
<1> USE DEF Watched, Kept, Steady
<1>1. CASE main' = main /\ main.pc = "select"
  <2>1. ~main.fin
    BY <1>1 DEF Control
  <2> QED BY <1>1, <2>1 DEF Leaving
<1>2. CASE ~main'.fin /\ main'.pc \notin {"release", "finish"}
  BY <1>2 DEF Leaving
<1>3. CASE EsiEvents
  <2>1. ~main.fin /\ main.pc = "select" /\ executing \in Fd /\ esi[executing] \in Process
    BY <1>3 DEF EsiEvents, ExecutionSuccess, IAmBlocked, ExecutionFailure, FromExecutingEsi,
       Control, Idle, TypeOK
  <2>2. CASE ExecutionFailure
    <3>1. esi[executing].st = "gone" /\ esi' = esi /\ main'.pc = "release"
          /\ main'.esi = executing /\ main'.fin = main.fin
      BY <2>2 DEF ExecutionFailure, FromExecutingEsi, SockMyPort, TypeOK, Locals
    <3> QED BY <2>1, <3>1 DEF Leaving
  <2>3. CASE IAmBlocked
    BY <2>1, <2>3, <1>2 DEF IAmBlocked, TypeOK, Locals
  <2>4. ASSUME NEW finish \in BOOLEAN, ExecutionSuccess(finish) PROVE Leaving'
    <3>1. /\ main'.pc = "burn" /\ main'.fin = finish /\ executing' = executing
          /\ esi'[executing].st = IF finish THEN "gone" ELSE "idle"
      BY <2>1, <2>4 DEF ExecutionSuccess, TypeOK, Locals, Process
    <3> QED BY <3>1 DEF Leaving
  <2> QED BY <1>3, <2>2, <2>3, <2>4 DEF EsiEvents
<1>4. CASE FlagSteps
  BY <1>2, <1>4, FlagStepsGo DEF FlagLabels
<1>5. CASE ReleaseKey
  <2>1. UNCHANGED <<esi, executing>> /\ main'.pc = main.pc /\ main'.fin = main.fin
        /\ main'.esi = main.esi
    BY <1>5 DEF ReleaseKey, TypeOK, Locals
  <2> QED BY <2>1 DEF Leaving
<1>6. CASE ReleaseEnd
  <2>1. /\ main.pc = "release" /\ main'.pc = main.after /\ main.after \in {"opcode", "finish"}
        /\ main'.fin = main.fin /\ executing' = executing
    BY <1>6 DEF ReleaseEnd, Control, ExecInv, Routes, Calm, TypeOK, Locals
  <2>2. CASE main.after = "opcode"
    BY <2>1, <2>2, <1>2 DEF Control
  <2>3. CASE main.after = "finish"
    <3>1. main.esi = executing /\ executing \in Fd
      BY <2>1, <2>3 DEF Control, Known
    <3>2. esi'[executing] = NoProcess
      BY <1>6, <3>1, ConstantsAssumption DEF ReleaseEnd, Orphan, TypeOK
    <3> QED BY <2>1, <2>3, <3>2 DEF Leaving, NoProcess
  <2> QED BY <2>1, <2>2, <2>3
<1>7. CASE Burn \/ Drain
  <2>1. UNCHANGED <<esi, executing>> /\ main'.pc \in {"drain", "update", "dispatch"}
        /\ main'.fin = main.fin /\ main.pc \in {"burn", "drain"}
    BY <1>7 DEF Burn, Drain, Goto, ExecInv, Routes, Calm, TypeOK, Locals
  <2> QED BY <2>1 DEF Leaving
<1>8. CASE FinishEsi
  <2>1. /\ UNCHANGED <<esi, executing>> /\ main.fin /\ main.pc = "drain"
        /\ main'.pc = "release" /\ main'.esi = executing
    BY <1>8 DEF FinishEsi, TypeOK, Locals
  <2> QED BY <2>1 DEF Leaving
<1>9. CASE EsiFinished
  BY <1>2, <1>9 DEF EsiFinished, TypeOK, Locals
<1>10. CASE UninitialisedOpcode \/ Reschedule \/ ContinueExecuting
  <2>1. ~main.fin /\ main'.pc \in {"burn", "authorize", "select"}
        /\ (main'.fin => main.fin)
    <3>1. ~main.fin
      BY <1>10 DEF UninitialisedOpcode, Reschedule, ContinueExecuting, Control
    <3>2. CASE UninitialisedOpcode
      BY <3>1, <3>2 DEF UninitialisedOpcode, TypeOK, Locals
    <3>3. CASE Reschedule
      <4>1. main' = [main EXCEPT !.pc = "authorize", !.esi = main'.esi, !.outer = main'.outer]
        BY <3>3 DEF Reschedule, TypeOK, Locals
      <4> QED BY <3>1, <4>1 DEF TypeOK, Locals
    <3>4. CASE ContinueExecuting
      BY <3>1, <3>4 DEF ContinueExecuting, Idle, TypeOK, Locals
    <3> QED BY <1>10, <3>2, <3>3, <3>4
  <2> QED BY <1>2, <2>1
<1>11. CASE AuthorizeEsiExecution
  <2>2. main.esi \in open
    BY <1>11, AuthorizeOpen
  <2>3. main' = Idle
    BY <1>11, <2>2 DEF AuthorizeEsiExecution
  <2>4. ~main'.fin /\ main'.pc \notin {"release", "finish"}
    BY <2>3 DEF Idle
  <2> QED BY <1>2, <2>4
<1>12. CASE GoIdle
  BY <1>2, <1>12 DEF GoIdle, Idle
<1>13. CASE Corpse \/ CorpsesBurnt
  BY <1>13 DEF Corpse, CorpsesBurnt, Calm, ExecInv, Routes
<1>14. CASE \/ \E e \in Fd : Accept(e) \/ AcceptWithoutHandshake(e)
            \/ \E e \in Fd : Sentence(e)
            \/ \E s \in Fd \cup {Ghost} : Conversation(s)
  <2>1. main' = main
    BY <1>14 DEF Accept, AcceptWithoutHandshake, ArriveEsi, Sentence, IsThisKeyBlocked,
       Conversation, IsKeyBlockedByExecutingEsi, BlockKey, UnlockKey, InstanceAnswers
  <2>2. main.pc = "select"
    BY <1>14, ConversationIs DEF Accept, AcceptWithoutHandshake, ArriveEsi, Sentence,
       IsThisKeyBlocked, CoordinatorMessage
  <2> QED BY <1>1, <2>1, <2>2
<1>15. ASSUME NEW e \in Fd, InvalidLine(e) PROVE Leaving'
  <2>1. Talking(e) /\ main' = main
    BY <1>15 DEF InvalidLine, Talking
  <2> QED BY <1>1, <2>1, TalkerExecutes
<1>16. CASE \E e \in Fd : EsiCut(e)
  BY <1>16 DEF EsiCut, Calm, Undisturbed
<1>17. CASE Operator \/ AddRequest \/ TogglePause
  <2>1. UNCHANGED <<main, executing, esi>>
    BY <1>17 DEF Operator, TypeCommand, AddRequest, TogglePause
  <2> QED BY <2>1 DEF Leaving
<1> QED BY <1>3, <1>4, <1>5, <1>6, <1>7, <1>8, <1>9, <1>10, <1>11, <1>12, <1>13, <1>14,
           <1>15, <1>16, <1>17 DEF Next, Steps, FlagSteps

\* A waiter is connected, and is not the ESI that leaves.
LEMMA WaitersIn ==
  ASSUME Watched, Leaving, Retries
  PROVE  /\ \A c \in ToSet(expecting) :
              /\ c \in Claim /\ c.esi \in Fd /\ c.esi \in In("blocked") /\ c.esi \in open
              /\ main.pc = "release" => c.esi # main.esi
              /\ c.esi \notin In("ready") \cup In("execution")
         /\ Waiters = In("blocked")
<1>1. ToSet(expecting) \subseteq Claim
  BY ElementOfSeq, LenProperties DEF ToSet, Watched, Kept, Steady, TypeOK
<1>2. main.pc = "release" => \A c \in ToSet(expecting) : c.esi # main.esi
  BY DEF Leaving, Retries
<1>3. Waiters = In("blocked")
  BY <1>2 DEF Watched, QueueInv, Waiting, Waiters
<1>4. \A e \in In("blocked") : e \in Fd /\ e \notin In("ready") \cup In("execution")
  BY QueueTypes DEF Watched, Kept, Steady, QueueInv, Apart, QueueName
<1>5. \A e \in In("blocked") : e \in open
  BY <1>4 DEF Watched, QueueInv, Present, QueueName
<1> QED BY <1>1, <1>2, <1>3, <1>4, <1>5 DEF Waiters

\* The sentence of e goes on or is answered.
LEMMA ConversationRetries ==
  ASSUME Watched, Leaving, Retries, ~Crash, NEW s \in Fd \cup {Ghost}, Conversation(s)
  PROVE  Retries'
<1> USE DEF keyVars, term, world, tables
<1>1. s \in Fd /\ esi[s].st \in InFlight
  BY ConversationIs DEF Watched, Conversation, IsKeyBlockedByExecutingEsi, BlockKey, UnlockKey,
     InstanceAnswers, CoordinatorMessage, InFlight
<1>2. PICK st : Advance(s, st)
  BY DEF Conversation, IsKeyBlockedByExecutingEsi, BlockKey, UnlockKey, InstanceAnswers
<1>3. esi'[s].retry = esi[s].retry /\ \A e \in Fd : e # s => esi'[e] = esi[e]
  BY <1>1, <1>2, AdvanceOne DEF Watched, Kept, Steady
<1>4. ~esi[s].retry
  BY <1>1 DEF Retries, InFlight
<1>5. expecting' = expecting
  BY DEF Conversation, IsKeyBlockedByExecutingEsi, BlockKey, UnlockKey, InstanceAnswers
<1>6. \A c \in ToSet(expecting) : c.esi \in Fd /\ c.esi # s
  BY <1>1, <1>4, WaitersIn DEF Watched, Retries, InFlight
<1> QED BY <1>3, <1>4, <1>5, <1>6 DEF Retries

\* Every step that leaves the waiters and the ESIs alone, or forgets waiters.
LEMMA RetriesStay ==
  ASSUME Retries, UNCHANGED esi, ToSet(expecting') \subseteq ToSet(expecting)
  PROVE  Retries'
BY DEF Retries

\* A step that changes one ESI, which waits for nothing.
LEMMA OneRetries ==
  ASSUME Retries, NEW e \in Fd, ToSet(expecting') \subseteq ToSet(expecting),
         \A c \in ToSet(expecting) : c.esi \in Fd /\ c.esi # e,
         \A f \in Fd : f # e => esi'[f] = esi[f],
         esi'[e].retry => esi'[e].st \in {"idle", "off"}
  PROVE  Retries'
BY DEF Retries

\* PROTOCOL_EP_I_AM_BLOCKED: the ESI will send the line whose key the coordinator asked
\* about.
LEMMA IAmBlockedRetries ==
  ASSUME Watched, Leaving, Retries, Inquiry, ~Crash, IAmBlocked
  PROVE  /\ Retries' /\ main.pc = "select" /\ executing \in Fd
         /\ esi[executing].st = "blocked" /\ ~esi[executing].retry
         /\ \A e \in Fd : e # executing => esi'[e] = esi[e]
         /\ ToSet(expecting') = ToSet(expecting) \cup {[esi |-> executing, key |-> lastKey]}
<1> USE DEF keyVars, term, world, tables
<1>1. /\ executing \in Fd /\ esi[executing] \in Process /\ esi[executing].st = "blocked"
      /\ expecting' = Append(expecting, [esi |-> executing, key |-> lastKey])
      /\ main.pc = "select"
  BY DEF IAmBlocked, FromExecutingEsi, Watched, Kept, Steady, TypeOK
<1>2. esi' = [esi EXCEPT ![executing] = [esi[executing] EXCEPT !.st = "idle", !.retry = TRUE]]
  BY <1>1 DEF IAmBlocked, Watched, Kept, Steady, TypeOK
<1>3. /\ esi'[executing].st = "idle" /\ esi'[executing].retry
      /\ esi'[executing].key = esi[executing].key
      /\ \A e \in Fd : e # executing => esi'[e] = esi[e]
  BY <1>1, <1>2 DEF Watched, Kept, Steady, TypeOK, Process
<1>4. lastKey = esi[executing].key /\ ~esi[executing].retry
  BY <1>1 DEF Inquiry, Retries
<1> DEFINE c == [esi |-> executing, key |-> lastKey]
<1>5. c \in Claim /\ c.esi = executing /\ c.key = lastKey /\ expecting \in Seq(Claim)
  BY <1>1 DEF Claim, AnyEsi, Watched, Kept, Steady, TypeOK
<1>6. ToSet(expecting') = ToSet(expecting) \cup {c}
  <2> HIDE DEF c
  <2> QED BY <1>1, <1>5, AppendSet DEF c
<1>7. \A d \in ToSet(expecting) : d.esi \in Fd /\ d.esi # executing
  BY <1>1, WaitersIn DEF Retries
<1> HIDE DEF c
<1>8. Retries'
  BY <1>1, <1>3, <1>4, <1>5, <1>6, <1>7 DEF Retries
<1> QED BY <1>1, <1>3, <1>4, <1>6, <1>8 DEF c

\* update_blocked_esi_queue: with a console unlock that wakes somebody the key stays
\* where it was.
LEMMA UpdateWaiters ==
  ASSUME Watched, Leaving, Retries, NEW k, NEW slot \in {"update", "unlock"},
         NEW was \in BOOLEAN, ~WakesStranger(k), UpdateBlockedEsiQueue(k, slot, was)
  PROVE  \E E \in SUBSET In("blocked") :
           /\ Woken(k, E)
           /\ was \/ E = {} => locked' = ForgetKey(locked, k)
           /\ E # {} /\ ~was => locked' = locked
<1>1. \A c \in ToSet(expecting) : c.key = k => c.esi \in In("blocked")
  BY WaitersIn
<1>0. TypeOK /\ Apart /\ OneEach(expecting)
  BY DEF Watched, Kept, Steady, QueueInv, Waiting
<1>2. PICK E \in SUBSET In("blocked") : Woken(k, E)
  BY <1>0, <1>1, UpdateMoves
<1>3. WaiterOf(k) = 0 => E = {}
  <2> SUFFICES ASSUME E # {}, WaiterOf(k) = 0 PROVE FALSE
    OBVIOUS
  <2>1. ToSet(expecting') = ToSet(expecting)
    BY DEF UpdateBlockedEsiQueue
  <2> QED BY <1>2, <2>1 DEF Woken
<1>4. WaiterOf(k) # 0 => E # {}
  <2> SUFFICES ASSUME E = {}, WaiterOf(k) # 0 PROVE FALSE
    OBVIOUS
  <2>1. WaiterOf(k) \in 1..Len(expecting) /\ expecting \in Seq(Claim)
    BY FirstOfKeyIndex DEF WaiterOf, Watched, Kept, Steady, TypeOK
  <2>2. \A i \in 1..Len(expecting) : expecting[i].key # k
    BY <1>2, <2>1, LenProperties DEF Woken, ToSet
  <2>3. {i \in 1..Len(expecting) : expecting[i].key = k} = {}
    BY <2>2
  <2> QED BY <2>3 DEF WaiterOf, FirstOfKey, SelectInSeq
<1> QED BY <1>2, <1>3, <1>4 DEF UpdateBlockedEsiQueue

\* Every step keeps the waiters ready to ask again.
LEMMA NextRetries ==
  ASSUME Watched, Leaving, Retries, Inquiry, Calm, Orderly, [Next]_vars
  PROVE  Retries'
<1> USE DEF keyVars, term, world, tables
<1>0. CASE UNCHANGED vars \/ Crash
  BY <1>0, RetriesStay DEF vars, Crash
<1> SUFFICES ASSUME ~Crash, ~UNCHANGED vars PROVE Retries'
  BY <1>0
<1>1. CASE \E s \in Fd \cup {Ghost} : Conversation(s)
  BY <1>1, ConversationRetries
<1>2. CASE IAmBlocked
  BY <1>2, IAmBlockedRetries
<1>3. CASE ServeUpdate \/ ReleaseByConsole \/ ReleaseKey
  <2>1. UNCHANGED esi
    BY <1>3 DEF ServeUpdate, ReleaseByConsole, ReleaseKey
  <2>2. CASE UNCHANGED expecting
    BY <2>1, <2>2, RetriesStay
  <2>3. CASE expecting' # expecting
    <3>1. ASSUME NEW k, NEW slot \in {"update", "unlock"}, NEW was \in BOOLEAN,
                 ~WakesStranger(k), UpdateBlockedEsiQueue(k, slot, was)
          PROVE  Retries'
      <4>1. ToSet(expecting') \subseteq ToSet(expecting)
        BY <3>1, UpdateWaiters DEF Woken
      <4> QED BY <2>1, <4>1, RetriesStay
    <3>2. CASE ServeUpdate
      BY <2>3, <3>1, <3>2 DEF ServeUpdate
    <3>3. CASE ReleaseByConsole
      BY <2>3, <3>1, <3>3 DEF ReleaseByConsole
    <3>4. CASE ReleaseKey
      BY <2>3, <3>1, <3>4 DEF ReleaseKey
    <3> QED BY <1>3, <3>2, <3>3, <3>4
  <2> QED BY <2>2, <2>3
<1>4. CASE ReleaseEnd
  <2>1. /\ main.pc = "release" /\ main.esi \in Fd /\ esi' = Orphan(main.esi)
        /\ expecting' = ForgetEsi(expecting, main.esi)
    BY <1>4 DEF ReleaseEnd, Watched, Kept, Steady, Control, Known
  <2>2. /\ esi'[main.esi] = NoProcess /\ \A f \in Fd : f # main.esi => esi'[f] = esi[f]
    BY <2>1, ConstantsAssumption DEF Orphan, Watched, Kept, Steady, TypeOK
  <2>3. ToSet(expecting') \subseteq ToSet(expecting)
    <3>1. expecting \in Seq(Claim) /\ OneEach(expecting)
      BY DEF Watched, Kept, Steady, TypeOK, QueueInv, Waiting
    <3> QED BY <2>1, <3>1, ForgetEsiSet
  <2>4. \A c \in ToSet(expecting) : c.esi \in Fd /\ c.esi # main.esi
    BY <2>1, WaitersIn
  <2>5. ~esi'[main.esi].retry
    BY <2>2 DEF NoProcess
  <2> QED BY <2>1, <2>2, <2>3, <2>4, <2>5, OneRetries
<1>5. ASSUME NEW e \in Fd, Accept(e) \/ AcceptWithoutHandshake(e) PROVE Retries'
  <2>1. ArriveEsi(e, TRUE)
    BY <1>5 DEF Accept, AcceptWithoutHandshake, Orderly
  <2>2. /\ e \notin open /\ expecting' = expecting
        /\ esi'[e] = [NoProcess EXCEPT !.st = "idle"]
        /\ \A f \in Fd : f # e => esi'[f] = esi[f]
    BY <2>1 DEF ArriveEsi, Watched, Kept, Steady, TypeOK
  <2>3. ~esi'[e].retry
    BY <2>2 DEF NoProcess
  <2>4. \A c \in ToSet(expecting) : c.esi \in Fd /\ c.esi # e
    BY <2>2, WaitersIn
  <2> QED BY <2>2, <2>3, <2>4, OneRetries
<1>6. ASSUME NEW e \in Fd, Sentence(e) PROVE Retries'
  <2>1. PICK op \in {"GET", "SET", "STORE"}, k \in Key : IsThisKeyBlocked(e, op, k)
    BY <1>6 DEF Sentence
  <2> DEFINE r == [st     |-> IF Locked(k) THEN "asking"
                              ELSE IF op = "GET" THEN "locking" ELSE "gone",
                   op     |-> op, key |-> k, retry |-> FALSE,
                   orders |-> esi[e].orders - 1,
                   line   |-> IF esi[e].retry THEN esi[e].line ELSE esi[e].line + 1]
  <2>2. esi' = [esi EXCEPT ![e] = r] /\ expecting' = expecting
    BY <2>1 DEF IsThisKeyBlocked
  <2>3. r.retry = FALSE
    OBVIOUS
  <2> HIDE DEF r
  <2>4. esi'[e] = r /\ \A f \in Fd : f # e => esi'[f] = esi[f]
    BY <2>2 DEF Watched, Kept, Steady, TypeOK
  <2>5. Talking(e)
    BY <2>1 DEF IsThisKeyBlocked, CoordinatorMessage, Talking,
       Watched, Kept, Steady, TypeOK, Process
  <2>6. \A c \in ToSet(expecting) : c.esi \in Fd /\ c.esi # e
    BY <2>5, WaitersIn, TalkerIn DEF Watched, Kept
  <2> QED BY <2>2, <2>3, <2>4, <2>6, OneRetries
<1>7. ASSUME NEW e \in Fd, InvalidLine(e) PROVE Retries'
  <2>1. /\ Advance(e, "gone") /\ ~esi[e].retry /\ expecting' = expecting
    BY <1>7 DEF InvalidLine
  <2>2. esi'[e].retry = esi[e].retry /\ \A f \in Fd : f # e => esi'[f] = esi[f]
    BY <2>1, AdvanceOne DEF Watched, Kept, Steady
  <2>3. \A c \in ToSet(expecting) : c.esi \in Fd /\ c.esi # e
    BY <2>1, WaitersIn DEF Retries
  <2> QED BY <2>1, <2>2, <2>3, OneRetries
<1>8. CASE \E e \in Fd : EsiCut(e)
  BY <1>8 DEF EsiCut, Calm, Undisturbed
<1>9. ASSUME NEW finish \in BOOLEAN, ExecutionSuccess(finish) PROVE Retries'
  <2>1. executing \in Fd /\ esi[executing].st = "ok" /\ expecting' = expecting
        /\ esi[executing] \in Process
    BY <1>9 DEF ExecutionSuccess, FromExecutingEsi, Watched, Kept, Steady, TypeOK
  <2>2. ~esi[executing].retry
    BY <2>1 DEF Retries
  <2>3. /\ esi'[executing].retry = esi[executing].retry
        /\ \A f \in Fd : f # executing => esi'[f] = esi[f]
    BY <1>9, <2>1 DEF ExecutionSuccess, Watched, Kept, Steady, TypeOK, Process
  <2>4. \A c \in ToSet(expecting) : c.esi \in Fd /\ c.esi # executing
    BY <2>1, WaitersIn DEF Retries
  <2> QED BY <2>1, <2>2, <2>3, <2>4, OneRetries
<1>10. CASE AuthorizeEsiExecution
  <2>1. expecting' = expecting
    BY <1>10 DEF AuthorizeEsiExecution, SockMyPort
  <2>2. \A f \in Fd : SameSentence(f)
    <3>1. CASE esi' = esi
      BY <3>1 DEF SameSentence
    <3>2. CASE esi' = [esi EXCEPT ![main.esi] =
                           [esi[main.esi] EXCEPT !.orders = esi[main.esi].orders + 1]]
      BY <3>2 DEF SameSentence, Watched, Kept, Steady, TypeOK, Process
    <3> QED BY <1>10, <3>1, <3>2 DEF AuthorizeEsiExecution, SockMyPort
  <2>3. \A c \in ToSet(expecting) : c.esi \in Fd
    BY WaitersIn
  <2> QED BY <2>1, <2>2, <2>3 DEF Retries, SameSentence
<1>11. CASE BlockExecuting \/ BlockReady
  BY <1>11, RetriesStay DEF BlockExecuting, BlockReady, Watched, Kept, NoBlock
<1>12. CASE \/ UninitialisedOpcode \/ ExecutionFailure \/ Burn \/ Corpse \/ CorpsesBurnt
            \/ FinishEsi \/ EsiFinished \/ Drain \/ ServeUnlocks \/ UnlocksServed \/ ServeNews
            \/ FilterReady \/ ReadyBlocked \/ BlockForSystem \/ BlocksServed \/ Preempt
            \/ Reschedule \/ ContinueExecuting \/ GoIdle \/ Operator \/ AddRequest \/ TogglePause
  <2>1. UNCHANGED <<esi, expecting>>
    BY <1>12 DEF UninitialisedOpcode, ExecutionFailure, Burn, Corpse, CorpsesBurnt, FinishEsi,
       EsiFinished, Drain, ServeUnlocks, UnlocksServed, ServeNews, FilterReady, ReadyBlocked,
       BlockForSystem, BlocksServed, Preempt, Reschedule, ContinueExecuting, GoIdle, Operator,
       TypeCommand, AddRequest, TogglePause, SockMyPort
  <2> QED BY <2>1, RetriesStay
<1> QED BY <1>1, <1>2, <1>3, <1>4, <1>5, <1>6, <1>7, <1>8, <1>9, <1>10, <1>11, <1>12
        DEF Next, Steps, EsiEvents

\* The steps after which nobody's sentence is with the coordinator.
LEMMA NoInquiry ==
  ASSUME \A e \in Fd : esi'[e].st \notin InFlight \cup {"blocked"}
  PROVE  Inquiry'
BY DEF Inquiry, InFlight

\* The steps that leave the sentences in flight, the key asked about and the locks alone.
LEMMA InquiryStays ==
  ASSUME Inquiry, UNCHANGED <<lastKey, locked>>,
         \A e \in Fd : esi'[e] = esi[e] \/ esi'[e].st \notin InFlight \cup {"blocked"}
  PROVE  Inquiry'
BY DEF Inquiry, InFlight, Holds, Locked

\* The coordinator's messages: what it was told of the key still holds when it acts.
LEMMA ConversationInquiry ==
  ASSUME Watched, Inquiry, ~Crash, NEW s \in Fd \cup {Ghost}, Conversation(s)
  PROVE  Inquiry'
<1> USE DEF keyVars, term, world, tables
<1>0. /\ s \in Fd /\ queue["execution"] = <<s>> /\ Head(queue["execution"]) = s
      /\ \A e \in Fd : e # s => esi[e].st \notin InFlight \cup {"blocked"}
  BY ConversationIs DEF Watched, Talking
<1>1. PICK st : Advance(s, st)
  BY DEF Conversation, IsKeyBlockedByExecutingEsi, BlockKey, UnlockKey, InstanceAnswers
<1>2. /\ esi'[s].st = st /\ esi'[s].key = esi[s].key
      /\ \A e \in Fd : e # s => esi'[e].st \notin InFlight \cup {"blocked"}
  BY <1>0, <1>1, AdvanceOne DEF Watched, Kept, Steady
<1>3. CASE st \notin InFlight \cup {"blocked"}
  BY <1>2, <1>3, NoInquiry
<1>4. CASE st \in InFlight \cup {"blocked"}
  <2>1. CASE IsKeyBlockedByExecutingEsi(s)
    <3>1. /\ esi[s].st = "asking" /\ UNCHANGED locked
          /\ \/ st = "working" /\ Holds(s, lastKey)
             \/ st = "blocked" /\ UNCHANGED lastKey
      <4>1. \E x \in {"ok", "working", "blocked", "gone"} :
               /\ Advance(s, x)
               /\ x = "working" => Holds(s, lastKey)
               /\ x = "blocked" => UNCHANGED lastKey
        BY <1>0, <2>1 DEF IsKeyBlockedByExecutingEsi
      <4>2. \A x : Advance(s, x) => x = st
        BY <1>0, <1>2, AdvanceOne DEF Watched, Kept, Steady
      <4> QED BY <1>4, <2>1, <4>1, <4>2 DEF InFlight, IsKeyBlockedByExecutingEsi,
                 CoordinatorMessage
    <3>2. lastKey = esi[s].key /\ lastKey # Freed /\ Locked(lastKey)
      BY <1>0, <3>1 DEF Inquiry
    <3> QED BY <1>0, <1>2, <3>1, <3>2 DEF Inquiry, InFlight, Holds, Locked
  <2>2. CASE InstanceAnswers(s)
    <3>1. st = "unlocking" /\ esi[s].st = "working" /\ UNCHANGED locked
      <4>1. \E x \in {"ok", "unlocking", "gone"} : Advance(s, x)
        BY <2>2 DEF InstanceAnswers
      <4>2. \A x : Advance(s, x) => x = st
        BY <1>0, <1>2, AdvanceOne DEF Watched, Kept, Steady
      <4> QED BY <1>4, <2>2, <4>1, <4>2 DEF InFlight, InstanceAnswers
    <3>2. Holds(s, esi[s].key)
      BY <1>0, <3>1 DEF Inquiry
    <3> QED BY <1>2, <3>1, <3>2 DEF Inquiry, InFlight, Holds
  <2>3. CASE BlockKey(s) \/ UnlockKey(s)
    <3>1. Advance(s, "ok")
      BY <2>3 DEF BlockKey, UnlockKey
    <3>2. esi'[s].st = "ok"
      BY <1>0, <3>1, AdvanceOne DEF Watched, Kept, Steady
    <3> QED BY <1>2, <1>4, <3>2 DEF InFlight
  <2> QED BY <2>1, <2>2, <2>3 DEF Conversation
<1> QED BY <1>3, <1>4

\* Every step keeps the inquiries about the key of the sentence in flight.
LEMMA NextInquiry ==
  ASSUME Watched, Inquiry, Calm, [Next]_vars
  PROVE  Inquiry'
<1> USE DEF keyVars, term, world, tables
<1>0. CASE UNCHANGED vars \/ Crash
  BY <1>0, InquiryStays DEF vars, Crash
<1> SUFFICES ASSUME ~Crash, ~UNCHANGED vars PROVE Inquiry'
  BY <1>0
<1>1. CASE \E s \in Fd \cup {Ghost} : Conversation(s)
  BY <1>1, ConversationInquiry
<1>2. ASSUME NEW e \in Fd, Sentence(e) PROVE Inquiry'
  <2>1. PICK op \in {"GET", "SET", "STORE"}, k \in Key : IsThisKeyBlocked(e, op, k)
    BY <1>2 DEF Sentence
  <2> DEFINE r == [st     |-> IF Locked(k) THEN "asking"
                              ELSE IF op = "GET" THEN "locking" ELSE "gone",
                   op     |-> op, key |-> k, retry |-> FALSE,
                   orders |-> esi[e].orders - 1,
                   line   |-> IF esi[e].retry THEN esi[e].line ELSE esi[e].line + 1]
  <2>2. esi' = [esi EXCEPT ![e] = r] /\ lastKey' = k /\ UNCHANGED locked
    BY <2>1 DEF IsThisKeyBlocked
  <2>3. r.key = k /\ r.st \in {"asking", "locking", "gone"} /\ (r.st = "asking" => Locked(k))
    OBVIOUS
  <2> HIDE DEF r
  <2>4. esi'[e] = r /\ \A f \in Fd : f # e => esi'[f] = esi[f]
    BY <2>2 DEF Watched, Kept, Steady, TypeOK
  <2>5. Talking(e)
    BY <2>1 DEF IsThisKeyBlocked, CoordinatorMessage, Talking,
       Watched, Kept, Steady, TypeOK, Process
  <2>6. \A f \in Fd : f # e => esi[f].st \notin InFlight \cup {"blocked"}
    BY <2>5, TalkerExecutes DEF Watched, Kept, Steady, Talking
  <2>7. k # Freed
    BY ConstantsAssumption
  <2> QED BY <2>2, <2>3, <2>4, <2>6, <2>7 DEF Inquiry, InFlight, Locked
<1>3. CASE EsiEvents
  <2>1. executing \in Fd
    BY <1>3 DEF EsiEvents, ExecutionSuccess, IAmBlocked, ExecutionFailure, FromExecutingEsi,
       Watched, Kept, Steady, TypeOK
  <2>2. CASE ExecutionFailure
    BY <2>2, InquiryStays DEF ExecutionFailure, SockMyPort
  <2>3. ASSUME NEW finish \in BOOLEAN, ExecutionSuccess(finish) PROVE Inquiry'
    <3>1. /\ esi'[executing].st \in {"gone", "idle"}
          /\ \A f \in Fd : f # executing => esi'[f] = esi[f]
          /\ UNCHANGED <<lastKey, locked>>
      <4>1. PICK st \in {"gone", "idle"} :
                esi' = [esi EXCEPT ![executing] = [esi[executing] EXCEPT !.st = st]]
        BY <2>1, <2>3 DEF ExecutionSuccess, Watched, Kept, Steady, TypeOK
      <4>2. UNCHANGED <<lastKey, locked>>
        BY <2>3 DEF ExecutionSuccess
      <4> QED BY <2>1, <4>1, <4>2 DEF Watched, Kept, Steady, TypeOK, Process
    <3> QED BY <3>1, InquiryStays DEF InFlight
  <2>4. CASE IAmBlocked
    <3>1. /\ esi[executing].st = "blocked" /\ esi'[executing].st = "idle"
          /\ \A f \in Fd : f # executing => esi'[f] = esi[f]
      <4>1. /\ esi[executing].st = "blocked" /\ esi[executing] \in Process
            /\ esi' = [esi EXCEPT ![executing] =
                           [esi[executing] EXCEPT !.st = "idle", !.retry = TRUE]]
        BY <2>1, <2>4 DEF IAmBlocked, FromExecutingEsi, Watched, Kept, Steady, TypeOK
      <4> QED BY <2>1, <4>1 DEF Watched, Kept, Steady, TypeOK, Process
    <3>2. \A f \in Fd : f # executing => esi[f].st \notin InFlight \cup {"blocked"}
      BY TalkerExecutes DEF Watched, Kept, Steady, Talking
    <3> QED BY <3>1, <3>2, NoInquiry DEF InFlight
  <2> QED BY <1>3, <2>2, <2>3, <2>4 DEF EsiEvents
<1>4. ASSUME NEW e \in Fd, Accept(e) \/ AcceptWithoutHandshake(e) PROVE Inquiry'
  <2>1. ArriveEsi(e, TRUE)
    BY <1>4 DEF Accept, AcceptWithoutHandshake, Calm, Undisturbed, Unbroken
  <2>2. /\ esi'[e] = [NoProcess EXCEPT !.st = "idle"] /\ \A f \in Fd : f # e => esi'[f] = esi[f]
        /\ UNCHANGED <<lastKey, locked>>
    BY <2>1 DEF ArriveEsi, Watched, Kept, Steady, TypeOK
  <2>3. esi'[e].st = "idle"
    BY <2>2 DEF NoProcess
  <2> QED BY <2>2, <2>3, InquiryStays DEF InFlight
<1>5. ASSUME NEW e \in Fd, InvalidLine(e) PROVE Inquiry'
  <2>1. Advance(e, "gone") /\ UNCHANGED <<lastKey, locked>>
    BY <1>5 DEF InvalidLine
  <2>2. esi'[e].st = "gone" /\ \A f \in Fd : f # e => esi'[f] = esi[f]
    BY <2>1, AdvanceOne DEF Watched, Kept, Steady
  <2> QED BY <2>1, <2>2, InquiryStays DEF InFlight
<1>6. CASE \E e \in Fd : EsiCut(e)
  BY <1>6 DEF EsiCut, Calm, Undisturbed
<1>7. CASE Operator \/ AddRequest \/ TogglePause \/ GoIdle
  BY <1>7, InquiryStays DEF Operator, TypeCommand, AddRequest, TogglePause, GoIdle
<1>8. CASE Steps
  <2>1. main.pc # "select"
    BY <1>8 DEF Steps, UninitialisedOpcode, ReleaseKey, ReleaseEnd, Burn, Corpse, CorpsesBurnt,
       FinishEsi, EsiFinished, Drain, ServeUpdate, ServeUnlocks, ReleaseByConsole,
       UnlocksServed, ServeNews, BlockExecuting, FilterReady, BlockReady, ReadyBlocked,
       BlockForSystem, BlocksServed, Preempt, Reschedule, ContinueExecuting,
       AuthorizeEsiExecution
  <2>2. \A e \in Fd : esi[e].st \notin InFlight \cup {"blocked"}
    BY <2>1, Silence DEF Watched, Kept, Steady, Talking
  <2>3. CASE ReleaseEnd
    <3>1. main.esi \in Fd /\ esi' = Orphan(main.esi)
      BY <2>3 DEF ReleaseEnd, Watched, Kept, Steady, Control, Known
    <3>2. /\ esi'[main.esi] = NoProcess /\ \A f \in Fd : f # main.esi => esi'[f] = esi[f]
      BY <3>1, ConstantsAssumption DEF Orphan, Watched, Kept, Steady, TypeOK
    <3> QED BY <2>2, <3>2, NoInquiry DEF NoProcess, InFlight
  <2>4. CASE AuthorizeEsiExecution
    <3>1. CASE esi' = esi
      BY <2>2, <3>1, NoInquiry
    <3>2. CASE esi' = [esi EXCEPT ![main.esi] =
                           [esi[main.esi] EXCEPT !.orders = esi[main.esi].orders + 1]]
      <4>1. \A e \in Fd : esi'[e].st = esi[e].st
        BY <3>2 DEF Watched, Kept, Steady, TypeOK, Process
      <4> QED BY <2>2, <4>1, NoInquiry
    <3> QED BY <2>4, <3>1, <3>2 DEF AuthorizeEsiExecution, SockMyPort
  <2>5. CASE ~ReleaseEnd /\ ~AuthorizeEsiExecution
    <3>1. UNCHANGED esi
      BY <1>8, <2>5 DEF Steps, UninitialisedOpcode, ReleaseKey, Burn, Corpse, CorpsesBurnt,
         FinishEsi, EsiFinished, Drain, ServeUpdate, ServeUnlocks, ReleaseByConsole,
         UnlocksServed, ServeNews, BlockExecuting, FilterReady, BlockReady, ReadyBlocked,
         BlockForSystem, BlocksServed, Preempt, Reschedule, ContinueExecuting, SockMyPort
    <3> QED BY <2>2, <3>1, NoInquiry
  <2> QED BY <2>3, <2>4, <2>5
<1> QED BY <1>1, <1>2, <1>3, <1>4, <1>5, <1>6, <1>7, <1>8 DEF Next

\* A step after which each waiter's key is still somebody's, or asked for, as before.
LEMMA AwakeStays ==
  ASSUME Awake,
         \A c \in ToSet(expecting') : c \in ToSet(expecting) \/ Locked(c.key)',
         \A c \in ToSet(expecting') : Locked(c.key) =>
             Locked(c.key)' \/ \E e \in Fd : Asks(e, c.key)',
         \A e \in Fd : \A k : Asks(e, k) => Asks(e, k)' \/ Locked(k)'
  PROVE  Awake'
<1> SUFFICES ASSUME NEW c \in ToSet(expecting'), ~Locked(c.key)'
             PROVE  \E e \in Fd : Asks(e, c.key)'
  BY DEF Awake
<1>1. c \in ToSet(expecting)
  OBVIOUS
<1>2. CASE Locked(c.key)
  BY <1>2
<1>3. CASE ~Locked(c.key)
  <2>1. PICK e \in Fd : Asks(e, c.key)
    BY <1>1, <1>3 DEF Awake
  <2>2. Asks(e, c.key)'
    BY <2>1
  <2> QED BY <2>2
<1> QED BY <1>2, <1>3

\* Steps that leave the waiters and the locks alone, and change at most the sentence of
\* one ESI, that asks for nothing before.
LEMMA OneAwake ==
  ASSUME Awake, UNCHANGED <<expecting, locked>>, NEW e,
         \A k : ~Asks(e, k),
         \A f \in Fd : f # e => SameSentence(f) /\
             (f \in In("ready") \cup In("execution") =>
              f \in In("ready")' \cup In("execution")')
  PROVE  Awake'
<1>1. \A k : Locked(k) <=> Locked(k)'
  BY DEF Locked
<1>2. ASSUME NEW f \in Fd, NEW k, Asks(f, k) PROVE Asks(f, k)'
  <2>1. f # e
    BY <1>2
  <2>2. SameSentence(f) /\ f \in In("ready")' \cup In("execution")'
    BY <1>2, <2>1 DEF Asks
  <2>3. In("ready")' = ToSet(queue'["ready"]) /\ In("execution")' = ToSet(queue'["execution"])
    BY DEF In
  <2> QED BY <1>2, <2>2 DEF Asks, SameSentence
<1> QED BY <1>1, <1>2, AwakeStays

\* Steps that change none of it, or only the place of those who may execute.
LEMMA QuietAwake ==
  ASSUME Awake, UNCHANGED <<expecting, locked>>, \A f \in Fd : SameSentence(f),
         In("ready") \cup In("execution") \subseteq In("ready")' \cup In("execution")'
  PROVE  Awake'
<1>1. \A k : Locked(k) <=> Locked(k)'
  BY DEF Locked
<1>2. ASSUME NEW f \in Fd, NEW k, Asks(f, k) PROVE Asks(f, k)'
  BY <1>2 DEF Asks, SameSentence
<1> QED BY <1>1, <1>2, AwakeStays

\* The coordinator's messages: when the answer is there, somebody has the key.
LEMMA ConversationAwake ==
  ASSUME Watched, Inquiry, Awake, ~Crash, NEW s \in Fd \cup {Ghost}, Conversation(s)
  PROVE  Awake'
<1> USE DEF keyVars, term, world, tables
<1>0. /\ s \in Fd /\ queue["execution"] = <<s>> /\ Head(queue["execution"]) = s
      /\ UNCHANGED <<expecting, queue>>
  BY ConversationIs DEF Watched, Conversation, IsKeyBlockedByExecutingEsi, BlockKey, UnlockKey,
     InstanceAnswers
<1>1. PICK st : Advance(s, st)
  BY DEF Conversation, IsKeyBlockedByExecutingEsi, BlockKey, UnlockKey, InstanceAnswers
<1>2. /\ esi'[s].st = st /\ esi'[s].key = esi[s].key /\ esi'[s].retry = esi[s].retry
      /\ \A e \in Fd : e # s => esi'[e] = esi[e]
  BY <1>0, <1>1, AdvanceOne DEF Watched, Kept, Steady
<1>3. Locked(esi[s].key)' \/ st \in InFlight
  <2>1. CASE IsKeyBlockedByExecutingEsi(s)
    <3>1. esi[s].st = "asking" /\ UNCHANGED locked
      BY <2>1 DEF IsKeyBlockedByExecutingEsi, CoordinatorMessage
    <3>2. lastKey = esi[s].key /\ Locked(lastKey)
      BY <1>0, <3>1 DEF Inquiry
    <3> QED BY <1>2, <3>1, <3>2 DEF Locked
  <2>2. CASE BlockKey(s)
    <3>1. /\ esi[s].st = "locking" /\ locked' = Append(locked, [esi |-> s, key |-> lastKey])
      BY <1>0, <2>2 DEF BlockKey, CoordinatorMessage
    <3>2. lastKey = esi[s].key
      BY <1>0, <3>1 DEF Inquiry
    <3>3. \A k : Locked(k)' <=> Locked(k) \/ lastKey = k
      <4> DEFINE c == [esi |-> s, key |-> lastKey]
      <4>1. c \in Claim /\ c.esi = s /\ c.key = lastKey
        BY <1>0 DEF Claim, AnyEsi, Watched, Kept, Steady, TypeOK
      <4>2. locked' = Append(locked, c) /\ locked \in Seq(Claim)
        BY <3>1 DEF Watched, Kept, Steady, TypeOK
      <4> HIDE DEF c
      <4> QED BY <4>1, <4>2, AppendHolds
    <3>4. Locked(esi[s].key)' <=> \E c \in ToSet(locked') : c.key = esi'[s].key
      BY DEF Locked, ToSet
    <3> QED BY <1>2, <3>2, <3>3, <3>4, LocksAsSet
  <2>3. CASE UnlockKey(s) \/ InstanceAnswers(s)
    <3>1. esi[s].st \in {"working", "unlocking"} /\ UNCHANGED locked
      BY <2>3 DEF UnlockKey, InstanceAnswers, CoordinatorMessage
    <3>2. Holds(s, esi[s].key)
      BY <1>0, <3>1 DEF Inquiry
    <3> QED BY <1>2, <3>1, <3>2 DEF Holds, Locked
  <2> QED BY <2>1, <2>2, <2>3 DEF Conversation
<1>4. \A k : Locked(k) => Locked(k)'
  <2>1. CASE UNCHANGED locked
    BY <2>1 DEF Locked
  <2>2. CASE BlockKey(s)
    <3> DEFINE c == [esi |-> s, key |-> lastKey]
    <3>1. c \in Claim
      BY <1>0 DEF Claim, AnyEsi, Watched, Kept, Steady, TypeOK
    <3>2. locked' = Append(locked, c) /\ locked \in Seq(Claim)
      BY <1>0, <2>2 DEF BlockKey, Watched, Kept, Steady, TypeOK
    <3> HIDE DEF c
    <3> QED BY <3>1, <3>2, AppendHolds
  <2> QED BY <2>1, <2>2 DEF Conversation, IsKeyBlockedByExecutingEsi, UnlockKey, InstanceAnswers
<1>5. ASSUME NEW e \in Fd, NEW k, Asks(e, k) PROVE Asks(e, k)' \/ Locked(k)'
  <2>1. CASE e # s
    BY <1>0, <1>2, <1>5, <2>1 DEF Asks, In
  <2>2. CASE e = s
    <3>1. esi[s].key = k
      BY <1>5, <2>2 DEF Asks
    <3>2. CASE st \in InFlight
      BY <1>0, <1>2, <1>5, <2>2, <3>2 DEF Asks, In
    <3>3. CASE Locked(esi[s].key)'
      <4>1. Locked(esi[s].key)' <=> \E c \in ToSet(locked') : c.key = esi'[s].key
        BY DEF Locked, ToSet
      <4> QED BY <1>2, <3>1, <3>3, <4>1, LocksAsSet
    <3> QED BY <1>3, <3>2, <3>3
  <2> QED BY <2>1, <2>2
<1> QED BY <1>0, <1>4, <1>5, AwakeStays

\* The authorized ESI sends its line: one that was blocked asks for the same key.
LEMMA SentenceAwake ==
  ASSUME Watched, Awake, Retries, ~Crash, NEW e \in Fd, Sentence(e)
  PROVE  Awake'
<1> USE DEF keyVars, term, world, tables
<1>1. PICK op \in {"GET", "SET", "STORE"}, k \in Key : IsThisKeyBlocked(e, op, k)
  BY DEF Sentence
<1> DEFINE r == [st     |-> IF Locked(k) THEN "asking"
                            ELSE IF op = "GET" THEN "locking" ELSE "gone",
                 op     |-> op, key |-> k, retry |-> FALSE,
                 orders |-> esi[e].orders - 1,
                 line   |-> IF esi[e].retry THEN esi[e].line ELSE esi[e].line + 1]
<1>2. /\ esi' = [esi EXCEPT ![e] = r] /\ UNCHANGED <<queue, locked, expecting>>
      /\ esi[e].st = "idle"
      /\ esi[e].retry => op = "GET" /\ k = esi[e].key
  BY <1>1 DEF IsThisKeyBlocked, CoordinatorMessage
<1>3. r.key = k /\ (op = "GET" => r.st \in InFlight)
  BY DEF InFlight
<1> HIDE DEF r
<1>4. esi'[e] = r /\ \A f \in Fd : f # e => esi'[f] = esi[f]
  BY <1>2 DEF Watched, Kept, Steady, TypeOK
<1>5. ASSUME NEW f \in Fd, NEW x, Asks(f, x) PROVE Asks(f, x)'
  <2>1. CASE f # e
    BY <1>2, <1>4, <1>5, <2>1 DEF Asks, In
  <2>2. CASE f = e
    <3>1. esi[e].retry /\ esi[e].key = x
      BY <1>2, <1>5, <2>2 DEF Asks, InFlight
    <3> QED BY <1>2, <1>3, <1>4, <1>5, <2>2, <3>1 DEF Asks, In
  <2> QED BY <2>1, <2>2
<1>6. \A x : Locked(x) <=> Locked(x)'
  BY <1>2 DEF Locked
<1> QED BY <1>2, <1>5, <1>6, AwakeStays

\* A key goes: the first of those who wait for it is ready now, and will ask for it.
LEMMA UpdateAwake ==
  ASSUME Watched, Leaving, Retries, Awake, NEW k, NEW slot \in {"update", "unlock"},
         NEW was \in BOOLEAN, ~WakesStranger(k), UpdateBlockedEsiQueue(k, slot, was),
         UNCHANGED esi
  PROVE  Awake'
<1>1. PICK E \in SUBSET In("blocked") :
         /\ Woken(k, E)
         /\ was \/ E = {} => locked' = ForgetKey(locked, k)
         /\ E # {} /\ ~was => locked' = locked
  BY UpdateWaiters
<1>2. /\ ToSet(expecting') \subseteq ToSet(expecting)
      /\ In("ready") \cup In("execution") \subseteq In("ready")' \cup In("execution")'
  BY <1>1 DEF Woken
<1>3. ASSUME NEW f \in Fd, NEW x, Asks(f, x) PROVE Asks(f, x)'
  BY <1>2, <1>3 DEF Asks
<1>4. ASSUME NEW c \in ToSet(expecting'), Locked(c.key), ~Locked(c.key)'
      PROVE  \E e \in Fd : Asks(e, c.key)'
  <2>1. locked' # locked
    BY <1>4 DEF Locked
  <2>2. locked' = ForgetKey(locked, k)
    BY <1>1, <2>1
  <2>3. c.key = k
    <3>1. \A x : Locked(x)' <=> Locked(x) /\ x # k
      BY <2>2, ForgetKeyHolds DEF Watched, Kept, Steady
    <3>2. \A x : Locked(x)' <=> \E d \in ToSet(locked') : d.key = x
      BY LocksAsSet
    <3>3. Locked(c.key)' <=> \E d \in ToSet(locked') : d.key = c.key
      BY DEF Locked, ToSet
    <3> QED BY <1>4, <3>1, <3>2, <3>3
  <2>4. E # {} /\ c \in ToSet(expecting)
    BY <1>1, <1>2, <2>3 DEF Woken
  <2>5. PICK d \in ToSet(expecting) : d.key = k /\ E = {d.esi}
    BY <1>1, <2>4 DEF Woken
  <2>6. /\ d.esi \in Fd /\ d.esi \in In("ready")'
        /\ esi'[d.esi].retry /\ esi'[d.esi].key = k
    BY <1>1, <2>5, WaitersIn DEF Retries, Woken
  <2>7. Asks(d.esi, c.key)'
    <3>1. ASSUME NEW f, f \in In("ready")', esi'[f].retry, esi'[f].key = c.key
          PROVE  Asks(f, c.key)'
      BY <3>1 DEF Asks
    <3>2. \E f \in Fd : f \in In("ready")' /\ esi'[f].retry /\ esi'[f].key = c.key
      BY <2>3, <2>6
    <3>3. \E f \in Fd : Asks(f, c.key)'
      BY <3>1, <3>2
    <3> QED BY <2>3, <2>6 DEF Asks
  <2> QED BY <2>6, <2>7
<1> QED BY <1>2, <1>3, <1>4, AwakeStays

\* The executing ESI answers; the key it is blocked for is somebody's.
LEMMA EsiEventsAwake ==
  ASSUME Watched, Leaving, Retries, Inquiry, Awake, ~Crash, EsiEvents
  PROVE  Awake'
<1> USE DEF keyVars, term, world, tables
<1>0. /\ executing \in Fd /\ ~esi[executing].retry /\ esi[executing].st \notin InFlight
      /\ main.pc = "select"
  BY DEF EsiEvents, ExecutionSuccess, IAmBlocked, ExecutionFailure, FromExecutingEsi,
     Watched, Kept, Steady, TypeOK, Retries, InFlight
<1>1. \A k : ~Asks(executing, k)
  BY <1>0 DEF Asks
<1>2. CASE ExecutionFailure
  <2>1. queue' = [q \in QueueName |-> RemoveFirst(queue[q], executing)]
        /\ UNCHANGED <<expecting, locked, esi>>
    BY <1>2 DEF ExecutionFailure, SockMyPort
  <2>2. \A q \in {"ready", "execution"} : In(q)' = In(q) \ {executing}
    <3>1. \A q \in {"ready", "execution"} : queue[q] \in Seq(Fd) /\ IsInjective(queue[q])
          /\ queue'[q] = RemoveFirst(queue[q], executing)
      BY <2>1 DEF Watched, Kept, Steady, TypeOK, QueueInv, Apart, QueueName
    <3>2. \A q \in {"ready", "execution"} :
              ToSet(RemoveFirst(queue[q], executing)) = ToSet(queue[q]) \ {executing}
      BY <3>1, RemoveFirstSet
    <3> QED BY <3>1, <3>2 DEF In
  <2>3. \A f \in Fd : f # executing => SameSentence(f) /\
            (f \in In("ready") \cup In("execution") => f \in In("ready")' \cup In("execution")')
    BY <2>1, <2>2 DEF SameSentence
  <2> QED BY <1>1, <2>1, <2>3, OneAwake
<1>3. ASSUME NEW finish \in BOOLEAN, ExecutionSuccess(finish) PROVE Awake'
  <2>1. /\ \A f \in Fd : f # executing => esi'[f] = esi[f]
        /\ UNCHANGED <<queue, expecting, locked>>
    BY <1>0, <1>3 DEF ExecutionSuccess, Watched, Kept, Steady, TypeOK
  <2> QED BY <1>1, <2>1, OneAwake DEF SameSentence, In
<1>4. CASE IAmBlocked
  <2>1. /\ queue' = MoveEsi("execution", "blocked", executing) /\ UNCHANGED locked
        /\ \A f \in Fd : f # executing => esi'[f] = esi[f]
        /\ ToSet(expecting') = ToSet(expecting) \cup {[esi |-> executing, key |-> lastKey]}
        /\ esi[executing].st = "blocked"
    BY <1>4, IAmBlockedRetries DEF IAmBlocked
  <2>2. Locked(lastKey) /\ Talking(executing)
    BY <1>0, <2>1 DEF Inquiry, Talking
  <2>3. In("execution") = {executing}
    BY <1>0, <2>2, TalkerIn DEF Watched, Kept
  <2>4. In("ready")' = In("ready")
    BY <2>1 DEF MoveEsi, In, Watched, Kept, Steady, TypeOK, QueueName
  <2>5. ASSUME NEW f \in Fd, NEW k, Asks(f, k) PROVE Asks(f, k)'
    <3>1. f # executing
      BY <1>1, <2>5
    <3>2. f \in In("ready")' /\ esi'[f] = esi[f]
      BY <2>1, <2>3, <2>4, <2>5, <3>1 DEF Asks
    <3> QED BY <2>5, <3>2 DEF Asks
  <2>6. \A c \in ToSet(expecting') : c \in ToSet(expecting) \/ Locked(c.key)'
    BY <2>1, <2>2 DEF Locked
  <2>7. \A c \in ToSet(expecting') : Locked(c.key) => Locked(c.key)'
    BY <2>1 DEF Locked
  <2> QED BY <2>5, <2>6, <2>7, AwakeStays
<1> QED BY <1>2, <1>3, <1>4 DEF EsiEvents

\* Every step keeps the waiters from being forgotten.
LEMMA NextAwake ==
  ASSUME Watched, Leaving, Retries, Inquiry, Awake, Calm, Orderly, [Next]_vars
  PROVE  Awake'
<1> USE DEF keyVars, term, world, tables
<1>0. ASSUME UNCHANGED <<expecting, locked, queue, esi>> PROVE Awake'
  BY <1>0, QuietAwake DEF SameSentence, In
<1>1. CASE UNCHANGED vars \/ Crash
  BY <1>0, <1>1 DEF vars, Crash
<1> SUFFICES ASSUME ~Crash, ~UNCHANGED vars PROVE Awake'
  BY <1>1
<1>2. CASE \E s \in Fd \cup {Ghost} : Conversation(s)
  BY <1>2, ConversationAwake
<1>3. CASE \E e \in Fd : Sentence(e)
  BY <1>3, SentenceAwake
<1>4. CASE EsiEvents
  BY <1>4, EsiEventsAwake
<1>5. CASE ServeUpdate
  BY <1>0, <1>5, UpdateAwake DEF ServeUpdate
<1>6. CASE ReleaseByConsole
  BY <1>6, UpdateAwake DEF ReleaseByConsole
<1>7. CASE ReleaseKey
  <2>1. PICK i \in DOMAIN main.snap :
            /\ ~WakesStranger(main.snap[i].key)
            /\ UpdateBlockedEsiQueue(main.snap[i].key, "update", TRUE)
            /\ UNCHANGED esi
    BY <1>7 DEF ReleaseKey
  <2> QED BY <2>1, UpdateAwake
<1>8. CASE ReleaseEnd
  <2>1. /\ main.pc = "release" /\ main.esi \in Fd /\ esi' = Orphan(main.esi)
        /\ expecting' = ForgetEsi(expecting, main.esi) /\ UNCHANGED queue
    BY <1>8 DEF ReleaseEnd, Watched, Kept, Steady, Control, Known
  <2>2. \A f \in Fd : f # main.esi => esi'[f] = esi[f]
    BY <2>1, ConstantsAssumption DEF Orphan, Watched, Kept, Steady, TypeOK
  <2>3. ToSet(expecting') \subseteq ToSet(expecting)
    <3>1. expecting \in Seq(Claim) /\ OneEach(expecting)
      BY DEF Watched, Kept, Steady, TypeOK, QueueInv, Waiting
    <3> QED BY <2>1, <3>1, ForgetEsiSet
  <2>4. locked' = locked
    BY <1>8, ReleaseEndOwners DEF Watched, Kept
  <2>5. \A k : ~Asks(main.esi, k)
    BY <2>1 DEF Leaving, Retries, Asks, InFlight
  <2>6. ASSUME NEW f \in Fd, NEW k, Asks(f, k) PROVE Asks(f, k)'
    BY <2>1, <2>2, <2>5, <2>6 DEF Asks, In
  <2>7. \A k : Locked(k) => Locked(k)'
    BY <2>4 DEF Locked
  <2> QED BY <2>3, <2>6, <2>7, AwakeStays
<1>9. ASSUME NEW e \in Fd, Accept(e) \/ AcceptWithoutHandshake(e) PROVE Awake'
  <2>1. ArriveEsi(e, TRUE)
    BY <1>9 DEF Accept, AcceptWithoutHandshake, Orderly
  <2>2. /\ e \notin open /\ main.pc = "select" /\ UNCHANGED <<expecting, locked>>
        /\ \A f \in Fd : f # e => esi'[f] = esi[f]
        /\ queue'["ready"] = queue["ready"] /\ queue'["execution"] = queue["execution"]
    BY <2>1 DEF ArriveEsi, Watched, Kept, Steady, TypeOK, QueueName
  <2>3. \A k : ~Asks(e, k)
    BY <2>2 DEF Asks, Watched, QueueInv, Present, QueueName
  <2> QED BY <2>2, <2>3, OneAwake DEF SameSentence, In
<1>10. ASSUME NEW e \in Fd, InvalidLine(e) PROVE Awake'
  <2>1. /\ Advance(e, "gone") /\ esi[e].st = "idle" /\ ~esi[e].retry
        /\ UNCHANGED <<expecting, locked, queue>>
    BY <1>10 DEF InvalidLine
  <2>2. \A f \in Fd : f # e => esi'[f] = esi[f]
    BY <2>1, AdvanceOne DEF Watched, Kept, Steady
  <2>3. \A k : ~Asks(e, k)
    BY <2>1 DEF Asks, InFlight
  <2> QED BY <2>1, <2>2, <2>3, OneAwake DEF SameSentence, In
<1>11. CASE \E e \in Fd : EsiCut(e)
  BY <1>11 DEF EsiCut, Calm, Undisturbed
<1>12. CASE AuthorizeEsiExecution
  <2>1. main.esi \in open /\ UNCHANGED <<queue, expecting, locked>>
    BY <1>12, AuthorizeOpen DEF AuthorizeEsiExecution, Watched, Kept
  <2>2. esi' = [esi EXCEPT ![main.esi] = [esi[main.esi] EXCEPT !.orders = esi[main.esi].orders + 1]]
    BY <1>12, <2>1 DEF AuthorizeEsiExecution
  <2>3. \A f \in Fd : SameSentence(f)
    BY <2>2 DEF SameSentence, Watched, Kept, Steady, TypeOK, Process
  <2> QED BY <2>1, <2>3, QuietAwake DEF In
<1>13. CASE EsiFinished
  <2>1. /\ main.pc = "finish" /\ UNCHANGED <<expecting, locked, esi>>
        /\ queue' = [queue EXCEPT !["execution"] = RemoveFirst(queue["execution"], executing)]
    BY <1>13 DEF EsiFinished
  <2>2. \A k : ~Asks(executing, k)
    BY <2>1 DEF Leaving, Asks, InFlight
  <2>3. In("ready")' = In("ready") /\ In("execution")' = In("execution") \ {executing}
    <3>1. queue["execution"] \in Seq(Fd) /\ IsInjective(queue["execution"])
      BY DEF Watched, Kept, Steady, TypeOK, QueueInv, Apart, QueueName
    <3>2. ToSet(RemoveFirst(queue["execution"], executing)) = In("execution") \ {executing}
      BY <3>1, RemoveFirstSet DEF In
    <3>3. queue'["execution"] = RemoveFirst(queue["execution"], executing)
          /\ queue'["ready"] = queue["ready"]
      BY <2>1 DEF Watched, Kept, Steady, TypeOK, QueueName
    <3> QED BY <3>2, <3>3 DEF In
  <2>4. \A f \in Fd : f # executing => SameSentence(f) /\
            (f \in In("ready") \cup In("execution") => f \in In("ready")' \cup In("execution")')
    BY <2>1, <2>3 DEF SameSentence
  <2> QED BY <2>1, <2>2, <2>4, OneAwake
<1>14. CASE ServeNews
  <2>1. UNCHANGED <<expecting, locked, esi>>
    BY <1>14 DEF ServeNews
  <2>2. CASE UNCHANGED queue
    BY <1>0, <2>1, <2>2
  <2>3. CASE queue' = [queue EXCEPT !["ready"] = queue["ready"] \o queue["new"], !["new"] = <<>>]
    <3>1. queue'["ready"] = queue["ready"] \o queue["new"]
          /\ queue'["execution"] = queue["execution"]
          /\ queue["ready"] \in Seq(Fd) /\ queue["new"] \in Seq(Fd)
      BY <2>3 DEF Watched, Kept, Steady, TypeOK, QueueName
    <3>2. ToSet(queue["ready"] \o queue["new"]) = In("ready") \cup In("new")
      BY <3>1, ConcatSet DEF In
    <3> QED BY <2>1, <3>1, <3>2, QuietAwake DEF SameSentence, In
  <2> QED BY <1>14, <2>2, <2>3 DEF ServeNews
<1>15. CASE Preempt
  BY <1>0, <1>15, OrderlyUnbroken DEF Preempt
<1>16. CASE Reschedule
  <2>1. UNCHANGED <<expecting, locked, esi>>
        /\ In("ready") \cup In("execution") \subseteq In("ready")' \cup In("execution")'
    BY <1>16, RescheduleMoves DEF Watched, Kept
  <2> QED BY <2>1, QuietAwake DEF SameSentence
<1>17. CASE BlockExecuting \/ FilterReady \/ BlockReady \/ ReadyBlocked \/ BlockForSystem
            \/ BlocksServed
  BY <1>0, <1>17 DEF BlockExecuting, FilterReady, BlockReady, ReadyBlocked, BlockForSystem,
     BlocksServed, Watched, Kept, NoBlock
<1>18. CASE Corpse \/ CorpsesBurnt
  BY <1>18 DEF Corpse, CorpsesBurnt, Calm, Watched, Kept, Steady, ExecInv, Routes
<1>19. CASE UninitialisedOpcode \/ Burn \/ FinishEsi \/ Drain \/ ServeUnlocks \/ UnlocksServed
            \/ ContinueExecuting \/ GoIdle \/ Operator \/ AddRequest \/ TogglePause
  BY <1>0, <1>19 DEF UninitialisedOpcode, Burn, FinishEsi, Drain, ServeUnlocks, UnlocksServed,
     ContinueExecuting, GoIdle, Operator, TypeCommand, AddRequest, TogglePause
<1> QED BY <1>2, <1>3, <1>4, <1>5, <1>6, <1>7, <1>8, <1>9, <1>10, <1>11, <1>12, <1>13, <1>14,
           <1>15, <1>16, <1>17, <1>18, <1>19 DEF Next, Steps

\* The inductive invariant of the waiters.
Waking == Watched /\ Leaving /\ Retries /\ Inquiry /\ Awake

\* Nobody waits at first.
LEMMA InitWaking == Init => Waking
<1> SUFFICES ASSUME Init PROVE Waking
  OBVIOUS
<1>1. Watched
  BY InitKept, InitQueues DEF Watched
<1>2. ToSet(expecting) = {}
  BY EmptySet DEF Init
<1>3. Leaving /\ Retries /\ Inquiry /\ Awake
  BY <1>2 DEF Leaving, Retries, Inquiry, Awake, Init, Idle, NoProcess
<1> QED BY <1>1, <1>3 DEF Waking

\* The parts of the invariant hold one another up.
LEMMA NextWaking ==
  ASSUME Waking, Calm, Orderly, [Next]_vars
  PROVE  Waking'
<1>1. Watched'
  BY NextKept, NextQueues DEF Waking, Watched, Calm, Kept
<1>2. Leaving' /\ Retries' /\ Inquiry' /\ Awake'
  BY NextLeaving, NextRetries, NextInquiry, NextAwake DEF Waking
<1> QED BY <1>1, <1>2 DEF Waking

\* A waiter is never forgotten: update_blocked_esi_queue wakes one waiter of a key that
\* goes, the others sleep on, and yet whenever main() waits for a message each of them
\* has its key taken by somebody, or an ESI in the queues of those who execute is about
\* to take it.  The conditions leave out what breaks it in the program: the waiter that
\* was woken is killed or cut before it asks again (797), or the queues get out of order
\* (SJFCD, bloquear).  Of a failed handshake TLC finds no counterexample; the invariant
\* needs the condition.
THEOREM NoLostWakeupCorrect ==
  ASSUME Calm, Orderly
  PROVE  Spec => []NoLostWakeup
<1>1. Init => Waking
  BY InitWaking
<1>2. Waking /\ [Next]_vars => Waking'
  BY NextWaking
<1>3. Waking => NoLostWakeup
  <2> SUFFICES ASSUME Waking, NEW i \in DOMAIN expecting, ~Locked(expecting[i].key)
               PROVE  \E e \in Fd : /\ esi[e].retry \/ esi[e].st \in InFlight
                                    /\ esi[e].key = expecting[i].key
                                    /\ Queued(e, "ready") \/ Queued(e, "execution")
    BY DEF NoLostWakeup
  <2>1. expecting[i] \in ToSet(expecting)
    BY DEF ToSet
  <2>2. PICK e \in Fd : Asks(e, expecting[i].key)
    BY <2>1 DEF Waking, Awake
  <2> QED BY <2>2 DEF Asks, Queued, In
<1> QED BY <1>1, <1>2, <1>3, PTL DEF Spec

-----------------------------------------------------------------------------
(* The scheduler survives *)

\* The conditions of the last theorem: nothing goes wrong outside the scheduler either.
Faultless == Calm /\ Orderly /\ Failures = {}

\* Nobody breaks the law, so the scheduler hears of no ESI that left before it finished.
Lawful ==
    /\ main.pc = "select" => \A e \in Fd : esi[e].st # "gone"
    /\ \A e \in Fd : esi[e].st \in InFlight => esi[e].key # Freed
    /\ \A e \in Fd : esi[e].st = "asking" /\ esi[e].op # "GET" => Holds(e, esi[e].key)

\* Only who finished is buried, once, and main() has no result it did not receive.
Finishing ==
    /\ main.pc # "opcode" /\ (main.pc = "release" => main.after = "finish")
    /\ main.fin /\ main.pc # "finish" => executing \in open

\* An announced key is allocated and is a key of the executing ESI, until the flag is
\* lowered: by the update, or by release_resources, which has that key in its list.
Announced ==
    flag.update =>
        \/ /\ main.pc \in {"select", "burn", "drain", "update"}
           /\ main.pc = "select" => executing \in Fd /\ esi[executing].st = "ok"
           /\ keyToUnlock # Freed /\ Holds(executing, keyToUnlock)
        \/ main.pc = "release" /\ \E i \in DOMAIN main.snap : main.snap[i].esi = main.esi

Surviving == Waking /\ Lawful /\ Finishing /\ Announced

\* Whoever waits, or is ready, is known to the scheduler.
LEMMA NoStrangers ==
  ASSUME Waking
  PROVE  /\ \A k : ~WakesStranger(k)
         /\ main.pc # "finish" => \A e \in In("ready") : Known(e)
<1> USE DEF Waking, Watched, Kept, Steady
<1>1. \A e \in Fd : e \in open => Known(e)
  BY DEF ExecInv, OneEntryEach, Known
<1>2. ASSUME NEW k, WakesStranger(k) PROVE FALSE
  <2>1. /\ WaiterOf(k) \in 1..Len(expecting) /\ ~Known(expecting[WaiterOf(k)].esi)
    BY <1>2, FirstOfKeyIndex DEF WakesStranger, WaiterOf, TypeOK
  <2>2. expecting[WaiterOf(k)] \in ToSet(expecting)
    BY <2>1, LenProperties DEF ToSet, TypeOK
  <2> QED BY <1>1, <2>1, <2>2, WaitersIn
<1>3. main.pc # "finish" => \A e \in In("ready") : Known(e)
  BY <1>1, QueueTypes DEF QueueInv, Present, QueueName
<1> QED BY <1>2, <1>3

\* While one ESI talks the mutex of the coordinator is free, unless it asks itself.
LEMMA MutexIsFree ==
  ASSUME Kept, NEW e \in Fd, Talking(e), esi[e].st # "asking"
  PROVE  ~MutexTaken
<1>1. esi[Ghost].st # "asking"
  BY DEF Kept, Alternate
<1>2. \A f \in Fd : esi[f].st = "asking" => f = e
  BY TalkerExecutes DEF Kept, Steady, Talking, InFlight
<1>3. DOMAIN esi = Fd \cup {Ghost}
  BY DEF Kept, Steady, TypeOK
<1> QED BY <1>1, <1>2, <1>3 DEF MutexTaken

\* None of the places where the scheduler may crash is reached with what crashes it.
LEMMA NoCrash ==
  ASSUME Surviving, Faultless, alive, [Next]_vars
  PROVE  alive'
<1> USE DEF keyVars, term, world, tables
<1> USE DEF Surviving, Waking, Watched, Kept, Steady
<1>1. CASE UNCHANGED vars
  BY <1>1 DEF vars
<1>2. ASSUME NEW e \in Fd, Sentence(e) PROVE alive'
  <2>1. PICK op \in {"GET", "SET", "STORE"}, k \in Key : IsThisKeyBlocked(e, op, k)
    BY <1>2 DEF Sentence
  <2>2. Talking(e) /\ esi[e].st # "asking"
    BY <2>1 DEF IsThisKeyBlocked, CoordinatorMessage, Talking, TypeOK, Process
  <2>3. ~MutexTaken
    BY <2>2, MutexIsFree
  <2> QED BY <2>1, <2>3 DEF IsThisKeyBlocked
<1>3. ASSUME NEW s \in Fd \cup {Ghost}, Conversation(s) PROVE alive'
  <2>1. s \in Fd /\ queue["execution"] # <<>> /\ Talking(s)
    BY <1>3, ConversationIs, OneElement
  <2>2. CASE IsKeyBlockedByExecutingEsi(s)
    BY <2>1, <2>2 DEF IsKeyBlockedByExecutingEsi
  <2>3. CASE BlockKey(s)
    <3>1. esi[s].st = "locking" /\ ~MutexTaken
      BY <2>1, <2>3, MutexIsFree DEF BlockKey, CoordinatorMessage
    <3>2. lastKey # Freed
      BY <2>1, <3>1 DEF Inquiry
    <3> QED BY <2>1, <2>3, <3>1, <3>2 DEF BlockKey
  <2>4. CASE UnlockKey(s)
    <3>1. ~MutexTaken
      BY <2>1, <2>4, MutexIsFree DEF UnlockKey, CoordinatorMessage
    <3> QED BY <2>4, <3>1 DEF UnlockKey
  <2>5. CASE InstanceAnswers(s)
    BY <2>5 DEF InstanceAnswers
  <2> QED BY <1>3, <2>2, <2>3, <2>4, <2>5 DEF Conversation
<1>4. CASE EsiEvents
  <2>1. ~ExecutionFailure
    BY DEF ExecutionFailure, FromExecutingEsi, Lawful, TypeOK
  <2>2. IAmBlocked => lastKey # Freed
    BY DEF IAmBlocked, FromExecutingEsi, Inquiry, TypeOK
  <2> QED BY <1>4, <2>1, <2>2 DEF EsiEvents, ExecutionSuccess, IAmBlocked
<1>5. CASE ServeUpdate
  <2>1. flag.update => keyToUnlock # Freed
    BY <1>5 DEF ServeUpdate, Announced
  <2> QED BY <1>5, <2>1, NoStrangers DEF ServeUpdate
<1>6. CASE ReleaseKey \/ ReleaseByConsole
  BY <1>6, NoStrangers DEF ReleaseKey, ReleaseByConsole
<1>7. CASE FinishEsi
  <2>1. Known(executing)
    BY <1>7 DEF FinishEsi, Finishing, ExecInv, OneEntryEach, Known, TypeOK
  <2> QED BY <1>7, <2>1 DEF FinishEsi
<1>8. CASE Reschedule
  <2>1. main.pc = "dispatch" /\ queue["ready"] # <<>>
    BY <1>8 DEF Reschedule, ExecInv, Routes, MustReschedule
  <2>2. Eligible \subseteq In("ready")
    <3>1. /\ queue["ready"] \in Seq(Fd) /\ Len(queue["ready"]) \in Nat
          /\ Len(queue["ready"]) # 0 /\ DOMAIN queue["ready"] = 1..Len(queue["ready"])
      BY <2>1, EmptySeq, LenProperties DEF TypeOK, QueueName
    <3>2. Head(queue["ready"]) = queue["ready"][1] /\ 1 \in DOMAIN queue["ready"]
      BY <3>1
    <3> QED BY <3>2 DEF Eligible, ToSet, In
  <2>3. \A r \in Eligible : Known(r)
    BY <2>1, <2>2, NoStrangers
  <2> QED BY <1>8, <2>1, <2>3 DEF Reschedule
<1>9. CASE AuthorizeEsiExecution
  BY <1>9, AuthorizeOpen DEF AuthorizeEsiExecution
<1>10. CASE UninitialisedOpcode \/ Corpse
  BY <1>10 DEF UninitialisedOpcode, Corpse, Finishing, Faultless, Calm, ExecInv, Routes
<1>11. CASE \/ \E e \in Fd : Accept(e) \/ AcceptWithoutHandshake(e)
            \/ \E e \in Fd : InvalidLine(e) \/ EsiCut(e)
            \/ GoIdle \/ Operator \/ AddRequest \/ TogglePause
  BY <1>11 DEF Accept, AcceptWithoutHandshake, ArriveEsi, InvalidLine, EsiCut, GoIdle, Operator,
     TypeCommand, AddRequest, TogglePause
<1>12. CASE ReleaseEnd \/ Burn \/ CorpsesBurnt \/ EsiFinished \/ Drain \/ ServeUnlocks
            \/ UnlocksServed \/ ServeNews \/ BlockExecuting \/ FilterReady \/ BlockReady
            \/ ReadyBlocked \/ BlockForSystem \/ BlocksServed \/ Preempt \/ ContinueExecuting
  BY <1>12 DEF ReleaseEnd, Burn, CorpsesBurnt, EsiFinished, Drain, ServeUnlocks, UnlocksServed,
     ServeNews, BlockExecuting, FilterReady, BlockReady, ReadyBlocked, BlockForSystem,
     BlocksServed, Preempt, ContinueExecuting
<1> QED BY <1>1, <1>2, <1>3, <1>4, <1>5, <1>6, <1>7, <1>8, <1>9, <1>10, <1>11, <1>12
        DEF Next, Steps

\* No sentence is in flight, and nobody is gone when main() waits for a message.
LEMMA LawfulQuiet ==
  ASSUME \A e \in Fd : esi'[e].st \notin InFlight,
         main'.pc = "select" => \A e \in Fd : esi'[e].st # "gone"
  PROVE  Lawful'
BY DEF Lawful, InFlight

\* Steps that leave the keys alone, and change an ESI only to one with nothing in flight.
LEMMA LawfulStays ==
  ASSUME Lawful, UNCHANGED <<main, locked>>,
         \A e \in Fd : esi'[e] = esi[e] \/ esi'[e].st \notin InFlight \cup {"gone"}
  PROVE  Lawful'
BY DEF Lawful, InFlight, Holds

\* The coordinator's messages: an ESI that has the key it writes is never refused.
LEMMA ConversationLawful ==
  ASSUME Surviving, Faultless, ~Crash, NEW s \in Fd \cup {Ghost}, Conversation(s)
  PROVE  Lawful'
<1> USE DEF keyVars, term, world, tables
<1>0. /\ s \in Fd /\ main.pc = "select" /\ UNCHANGED main /\ Head(queue["execution"]) = s
      /\ \A e \in Fd : e # s => esi[e].st \notin InFlight
  BY ConversationIs DEF Surviving, Waking, Watched, Talking, Conversation,
     IsKeyBlockedByExecutingEsi, BlockKey, UnlockKey, InstanceAnswers
<1>1. PICK st : Advance(s, st) /\ st \in {"ok", "working", "blocked", "unlocking"}
  <2>1. CASE IsKeyBlockedByExecutingEsi(s)
    <3>1. esi[s].op = "GET" \/ (Locked(lastKey) /\ Holds(s, lastKey))
      BY <1>0, <2>1 DEF IsKeyBlockedByExecutingEsi, CoordinatorMessage, Surviving, Waking,
         Inquiry, Lawful
    <3> QED BY <1>0, <2>1, <3>1 DEF IsKeyBlockedByExecutingEsi
  <2>2. CASE BlockKey(s) \/ UnlockKey(s)
    BY <2>2 DEF BlockKey, UnlockKey
  <2>3. CASE InstanceAnswers(s)
    BY <2>3 DEF InstanceAnswers, Faultless
  <2> QED BY <2>1, <2>2, <2>3 DEF Conversation
<1>2. esi[s].st \in InFlight
  BY DEF Conversation, IsKeyBlockedByExecutingEsi, BlockKey, UnlockKey, InstanceAnswers,
     CoordinatorMessage, InFlight
<1>3. /\ esi'[s].st = st /\ esi'[s].key = esi[s].key
      /\ \A e \in Fd : e # s => esi'[e] = esi[e]
  BY <1>0, <1>1, AdvanceOne DEF Surviving, Waking, Watched, Kept, Steady
<1> QED BY <1>0, <1>1, <1>2, <1>3 DEF Surviving, Lawful, InFlight

\* The question about a sentence: a SET or a STORE names a key its ESI has.
LEMMA SentenceLawful ==
  ASSUME Surviving, Faultless, ~Crash, NEW e \in Fd, Sentence(e)
  PROVE  Lawful'
<1>1. PICK op \in {"GET", "SET", "STORE"}, k \in Key : IsThisKeyBlocked(e, op, k)
  BY DEF Sentence
<1> DEFINE r == [st     |-> IF Locked(k) THEN "asking"
                            ELSE IF op = "GET" THEN "locking" ELSE "gone",
                 op     |-> op, key |-> k, retry |-> FALSE,
                 orders |-> esi[e].orders - 1,
                 line   |-> IF esi[e].retry THEN esi[e].line ELSE esi[e].line + 1]
<1>2. /\ esi' = [esi EXCEPT ![e] = r] /\ UNCHANGED <<main, locked>>
      /\ op = "GET" \/ Holds(e, k)
  BY <1>1 DEF IsThisKeyBlocked, tables, Faultless
<1>3. Holds(e, k) => Locked(k)
  BY DEF Holds, Locked
<1>4. r.key = k /\ r.op = op /\ r.st \in {"asking", "locking"}
  BY <1>2, <1>3
<1> HIDE DEF r
<1>5. esi'[e] = r /\ \A f \in Fd : f # e => esi'[f] = esi[f]
  BY <1>2 DEF Surviving, Waking, Watched, Kept, Steady, TypeOK
<1>6. k # Freed
  BY ConstantsAssumption
<1>7. Holds(e, k)' <=> Holds(e, k)
  BY <1>2 DEF Holds
<1>8. ASSUME NEW f \in Fd
      PROVE  /\ main'.pc = "select" => esi'[f].st # "gone"
             /\ esi'[f].st \in InFlight => esi'[f].key # Freed
             /\ esi'[f].st = "asking" /\ esi'[f].op # "GET" =>
                    \E i \in DOMAIN locked : locked[i].key = esi'[f].key /\ locked[i].esi = f
  <2>1. CASE f = e
    BY <1>2, <1>4, <1>5, <1>6, <2>1 DEF Holds
  <2>2. CASE f # e
    BY <1>2, <1>5, <2>2 DEF Surviving, Lawful, Holds
  <2> QED BY <2>1, <2>2
<1> QED BY <1>2, <1>8 DEF Lawful, Holds

\* Every step keeps the law.
LEMMA NextLawful ==
  ASSUME Surviving, Faultless, ~Crash, [Next]_vars
  PROVE  Lawful'
<1> USE DEF keyVars, term, world, tables
<1> USE DEF Surviving, Waking, Watched, Kept, Steady
<1>0. ASSUME UNCHANGED <<main, locked, esi>> PROVE Lawful'
  BY <1>0, LawfulStays
<1>1. CASE UNCHANGED vars
  BY <1>0, <1>1 DEF vars
<1>2. CASE \E s \in Fd \cup {Ghost} : Conversation(s)
  BY <1>2, ConversationLawful
<1>3. CASE \E e \in Fd : Sentence(e)
  BY <1>3, SentenceLawful
<1>4. CASE EsiEvents
  <2>1. ~ExecutionFailure
    BY DEF ExecutionFailure, FromExecutingEsi, Lawful, TypeOK
  <2>2. /\ executing \in Fd /\ main'.pc = "burn" /\ Talking(executing)
        /\ \A e \in Fd : e # executing => esi'[e] = esi[e]
        /\ esi'[executing].st \in {"idle", "gone"}
    <3>1. CASE IAmBlocked
      <4>1. /\ executing \in Fd /\ esi[executing].st = "blocked" /\ esi[executing] \in Process
            /\ \A e \in Fd : e # executing => esi'[e] = esi[e]
        BY <3>1, IAmBlockedRetries DEF TypeOK
      <4>2. /\ main'.pc = "burn"
            /\ esi' = [esi EXCEPT ![executing] =
                          [esi[executing] EXCEPT !.st = "idle", !.retry = TRUE]]
        BY <3>1, <4>1 DEF IAmBlocked, TypeOK, Locals
      <4>3. esi'[executing].st = "idle"
        BY <4>1, <4>2 DEF TypeOK, Process
      <4> QED BY <4>1, <4>2, <4>3 DEF Talking
    <3>2. ASSUME NEW finish \in BOOLEAN, ExecutionSuccess(finish)
          PROVE  /\ executing \in Fd /\ main'.pc = "burn" /\ Talking(executing)
                 /\ \A e \in Fd : e # executing => esi'[e] = esi[e]
                 /\ esi'[executing].st \in {"idle", "gone"}
      BY <3>2 DEF ExecutionSuccess, FromExecutingEsi, Talking, TypeOK, Locals, Process
    <3> QED BY <1>4, <2>1, <3>1, <3>2 DEF EsiEvents
  <2>3. \A e \in Fd : e # executing => ~Talking(e)
    BY <2>2, TalkerExecutes
  <2>4. \A e \in Fd : esi'[e].st \notin InFlight
    BY <2>2, <2>3 DEF Talking, InFlight
  <2> QED BY <2>2, <2>4, LawfulQuiet
<1>5. CASE GoIdle
  <2>1. /\ \A e \in Fd : ~Talking(e) /\ esi' = esi /\ main'.pc = "burn"
    BY <1>5, Silence DEF GoIdle, Idle
  <2> QED BY <2>1, LawfulQuiet DEF Talking
<1>6. ASSUME NEW e \in Fd, Accept(e) \/ AcceptWithoutHandshake(e) PROVE Lawful'
  <2>1. ArriveEsi(e, TRUE)
    BY <1>6 DEF Accept, AcceptWithoutHandshake, Faultless
  <2>2. /\ UNCHANGED <<main, locked>> /\ esi'[e].st = "idle"
        /\ \A f \in Fd : f # e => esi'[f] = esi[f]
    BY <2>1 DEF ArriveEsi, NoProcess, TypeOK, Process
  <2> QED BY <2>2, LawfulStays DEF InFlight
<1>7. CASE Operator \/ AddRequest \/ TogglePause
  BY <1>0, <1>7 DEF Operator, TypeCommand, AddRequest, TogglePause
<1>8. ASSUME NEW e \in Fd, InvalidLine(e) \/ EsiCut(e) PROVE Lawful'
  BY <1>8 DEF InvalidLine, EsiCut, Faultless
<1>9. CASE Steps
  <2>1. main.pc # "select" /\ \A e \in Fd : ~Talking(e)
    <3>1. main.pc # "select"
      BY <1>9 DEF Steps, UninitialisedOpcode, ReleaseKey, ReleaseEnd, Burn, Corpse, CorpsesBurnt,
         FinishEsi, EsiFinished, Drain, ServeUpdate, ServeUnlocks, ReleaseByConsole,
         UnlocksServed, ServeNews, BlockExecuting, FilterReady, BlockReady, ReadyBlocked,
         BlockForSystem, BlocksServed, Preempt, Reschedule, ContinueExecuting,
         AuthorizeEsiExecution
    <3> QED BY <3>1, Silence
  <2>2. CASE ReleaseEnd
    <3>1. /\ main.esi \in Fd /\ esi' = Orphan(main.esi) /\ main'.pc = "finish"
      BY <2>2 DEF ReleaseEnd, Control, Known, Finishing, TypeOK, Locals
    <3>2. esi'[main.esi] = NoProcess /\ \A f \in Fd : f # main.esi => esi'[f] = esi[f]
      BY <3>1, ConstantsAssumption DEF Orphan, TypeOK
    <3>3. \A e \in Fd : esi'[e].st \notin InFlight
      BY <2>1, <3>2 DEF Talking, NoProcess, InFlight
    <3> QED BY <3>1, <3>3, LawfulQuiet
  <2>3. CASE ContinueExecuting \/ AuthorizeEsiExecution
    <3>1. \A e \in Fd : esi'[e].st = esi[e].st
      <4>1. CASE AuthorizeEsiExecution
        <5>1. main.esi \in open /\ main.esi \in Fd
          BY <4>1, AuthorizeOpen
        <5>2. esi' = [esi EXCEPT ![main.esi] =
                          [esi[main.esi] EXCEPT !.orders = esi[main.esi].orders + 1]]
          BY <4>1, <5>1 DEF AuthorizeEsiExecution
        <5> QED BY <5>1, <5>2 DEF TypeOK, Process
      <4>2. CASE ContinueExecuting
        BY <4>2 DEF ContinueExecuting
      <4> QED BY <2>3, <4>1, <4>2
    <3>2. main.pc \in {"dispatch", "authorize"} /\ ~main.fin
      BY <2>3 DEF ContinueExecuting, AuthorizeEsiExecution, Control
    <3>3. \A e \in Fd : esi[e].st # "gone"
      BY <3>2 DEF Alternate, Busy
    <3> QED BY <2>1, <3>1, <3>3, LawfulQuiet DEF Talking
  <2>4. CASE ~ (ReleaseEnd \/ ContinueExecuting \/ AuthorizeEsiExecution)
    <3>1. esi' = esi /\ main'.pc # "select"
      <4>1. CASE FlagSteps
        BY <4>1, FlagStepsGo DEF FlagLabels
      <4>2. CASE UninitialisedOpcode \/ Corpse \/ CorpsesBurnt
        BY <4>2 DEF UninitialisedOpcode, Corpse, CorpsesBurnt, Finishing, Faultless, Calm,
           ExecInv, Routes
      <4>3. CASE ReleaseKey
        BY <4>3 DEF ReleaseKey, TypeOK, Locals
      <4>4. CASE Burn \/ FinishEsi \/ EsiFinished \/ Drain
        BY <4>4 DEF Burn, FinishEsi, EsiFinished, Drain, Goto, TypeOK, Locals
      <4>5. CASE Reschedule
        <5>1. main' = [main EXCEPT !.pc = "authorize", !.esi = main'.esi, !.outer = main'.outer]
              /\ esi' = esi
          BY <4>5 DEF Reschedule, TypeOK, Locals
        <5>2. main'.pc = "authorize"
          BY <5>1 DEF TypeOK, Locals
        <5> QED BY <5>1, <5>2
      <4> QED BY <1>9, <2>4, <4>1, <4>2, <4>3, <4>4, <4>5 DEF Steps, FlagSteps
    <3> QED BY <2>1, <3>1, LawfulQuiet DEF Talking
  <2> QED BY <2>2, <2>3, <2>4
<1> QED BY <1>1, <1>2, <1>3, <1>4, <1>5, <1>6, <1>7, <1>8, <1>9 DEF Next

\* Main goes on without anybody to bury.
LEMMA FinishingPast ==
  ASSUME main'.pc \notin {"opcode", "release"}, ~main'.fin \/ main'.pc = "finish"
  PROVE  Finishing'
BY DEF Finishing

\* The same for steps that leave the main thread and the executing ESI where they are.
LEMMA FinishingStays ==
  ASSUME Finishing, UNCHANGED <<main, executing>>, open \subseteq open'
  PROVE  Finishing'
BY DEF Finishing

\* Every step keeps the order of a burial.
LEMMA NextFinishing ==
  ASSUME Surviving, Faultless, ~Crash, [Next]_vars
  PROVE  Finishing'
<1> USE DEF keyVars, term, world, tables
<1> USE DEF Surviving, Waking, Watched, Kept, Steady
<1>1. CASE UNCHANGED vars
  BY <1>1, FinishingStays DEF vars
<1>2. CASE EsiEvents
  <2>1. ~ExecutionFailure /\ (main.pc = "select" => ~main.fin)
    BY DEF ExecutionFailure, FromExecutingEsi, Lawful, TypeOK, Control, Idle
  <2>2. CASE IAmBlocked
    <3>1. main'.pc = "burn" /\ ~main'.fin
      BY <2>1, <2>2 DEF IAmBlocked, FromExecutingEsi, TypeOK, Locals
    <3> QED BY <3>1, FinishingPast
  <2>3. ASSUME NEW finish \in BOOLEAN, ExecutionSuccess(finish) PROVE Finishing'
    <3>1. main'.pc = "burn" /\ UNCHANGED <<executing, open>> /\ executing \in open
      BY <2>3 DEF ExecutionSuccess, FromExecutingEsi, TypeOK, Locals
    <3> QED BY <3>1 DEF Finishing
  <2> QED BY <1>2, <2>1, <2>2, <2>3 DEF EsiEvents
<1>3. CASE FlagSteps
  BY <1>3, FlagStepsGo, FinishingPast DEF FlagLabels
<1>4. CASE ReleaseKey
  <2>1. /\ main'.pc = main.pc /\ main'.after = main.after /\ main'.fin = main.fin
        /\ UNCHANGED <<executing, open>>
    BY <1>4 DEF ReleaseKey, TypeOK, Locals
  <2> QED BY <2>1 DEF Finishing
<1>5. CASE ReleaseEnd
  <2>1. main'.pc = "finish"
    BY <1>5 DEF ReleaseEnd, Finishing, TypeOK, Locals
  <2> QED BY <2>1, FinishingPast
<1>6. CASE Burn \/ Drain \/ FinishEsi
  <2>1. /\ main'.pc \in {"drain", "update", "dispatch", "release"} /\ main'.fin = main.fin
        /\ (main'.pc = "release" => main'.after = "finish")
        /\ main.pc \in {"burn", "drain"} /\ UNCHANGED <<executing, open>>
    BY <1>6 DEF Burn, Drain, FinishEsi, Goto, ExecInv, Routes, Faultless, Calm, TypeOK, Locals
  <2> QED BY <2>1 DEF Finishing
<1>7. CASE EsiFinished \/ GoIdle
  <2>1. main'.pc \in {"dispatch", "burn"} /\ ~main'.fin
    BY <1>7 DEF EsiFinished, GoIdle, Idle, TypeOK, Locals
  <2> QED BY <2>1, FinishingPast
<1>8. CASE UninitialisedOpcode \/ Corpse \/ CorpsesBurnt
  BY <1>8 DEF UninitialisedOpcode, Corpse, CorpsesBurnt, Finishing, Faultless, Calm,
     ExecInv, Routes
<1>9. CASE Reschedule
  <2>1. main' = [main EXCEPT !.pc = "authorize", !.esi = main'.esi, !.outer = main'.outer]
        /\ ~main.fin
    BY <1>9 DEF Reschedule, Control, TypeOK, Locals
  <2>2. main'.pc = "authorize" /\ ~main'.fin
    BY <2>1 DEF TypeOK, Locals
  <2> QED BY <2>2, FinishingPast
<1>10. CASE ContinueExecuting \/ AuthorizeEsiExecution
  <2>1. main'.pc \in {"authorize", "select"} /\ ~main'.fin
    <3>1. CASE ContinueExecuting
      BY <3>1 DEF ContinueExecuting, Control, Idle, TypeOK, Locals
    <3>2. CASE AuthorizeEsiExecution
      <4>1. main.esi \in open
        BY <3>2, AuthorizeOpen
      <4>2. main' = Idle
        BY <3>2, <4>1 DEF AuthorizeEsiExecution
      <4> QED BY <4>2 DEF Idle
    <3> QED BY <1>10, <3>1, <3>2
  <2> QED BY <2>1, FinishingPast
<1>11. CASE \/ \E e \in Fd : Accept(e) \/ AcceptWithoutHandshake(e)
            \/ \E e \in Fd : Sentence(e) \/ InvalidLine(e) \/ EsiCut(e)
            \/ \E s \in Fd \cup {Ghost} : Conversation(s)
            \/ Operator \/ AddRequest \/ TogglePause
  <2>1. UNCHANGED <<main, executing>> /\ open \subseteq open'
    BY <1>11 DEF Accept, AcceptWithoutHandshake, ArriveEsi, Sentence, IsThisKeyBlocked,
       InvalidLine, EsiCut, Conversation, IsKeyBlockedByExecutingEsi, BlockKey, UnlockKey,
       InstanceAnswers, Operator, TypeCommand, AddRequest, TogglePause
  <2> QED BY <2>1, FinishingStays
<1> QED BY <1>1, <1>2, <1>3, <1>4, <1>5, <1>6, <1>7, <1>8, <1>9, <1>10, <1>11
        DEF Next, Steps, FlagSteps

\* Steps that leave everything an announcement is about alone.
LEMMA AnnouncedStays ==
  ASSUME Announced, UNCHANGED <<main, executing, locked, keyToUnlock>>,
         flag'.update = flag.update, flag.update => esi'[executing] = esi[executing]
  PROVE  Announced'
BY DEF Announced, Holds

\* Nothing is announced.
LEMMA NothingAnnounced ==
  ASSUME Announced, flag'.update = flag.update,
         \/ main.pc \notin {"select", "burn", "drain", "update", "release"}
         \/ main.pc = "select" /\ (executing \in Fd => esi[executing].st # "ok")
  PROVE  Announced'
BY DEF Announced

\* The coordinator's messages: PROTOCOL_CP_UNLOCK_KEY announces a key of its ESI.
LEMMA ConversationAnnounced ==
  ASSUME Surviving, ~Crash, NEW s \in Fd \cup {Ghost}, Conversation(s)
  PROVE  Announced'
<1> USE DEF keyVars, term, world, tables
<1>0. /\ s \in Fd /\ s = executing /\ main.pc = "select" /\ esi[s].st \in InFlight
  BY ConversationIs DEF Surviving, Waking, Watched, Conversation,
     IsKeyBlockedByExecutingEsi, BlockKey, UnlockKey, InstanceAnswers, CoordinatorMessage, InFlight
<1>1. CASE ~UnlockKey(s)
  <2>1. flag'.update = flag.update /\ esi[executing].st # "ok"
    BY <1>0, <1>1 DEF Conversation, IsKeyBlockedByExecutingEsi, BlockKey, InstanceAnswers, InFlight
  <2> QED BY <1>0, <2>1, NothingAnnounced DEF Surviving
<1>2. CASE UnlockKey(s)
  <2>1. /\ esi[s].st = "unlocking" /\ Advance(s, "ok") /\ keyToUnlock' = esi[s].key
        /\ UNCHANGED <<main, executing, locked>>
    BY <1>2 DEF UnlockKey, CoordinatorMessage
  <2>2. esi'[s].st = "ok"
    BY <1>0, <2>1, AdvanceOne DEF Surviving, Waking, Watched, Kept, Steady
  <2>3. Holds(s, esi[s].key) /\ esi[s].key # Freed
    BY <1>0, <2>1 DEF Surviving, Waking, Inquiry, Lawful
  <2> QED BY <1>0, <2>1, <2>2, <2>3 DEF Announced, Holds
<1> QED BY <1>1, <1>2

\* Every step keeps the announced key, or takes it back.
LEMMA NextAnnounced ==
  ASSUME Surviving, Faultless, ~Crash, [Next]_vars
  PROVE  Announced'
<1> USE DEF keyVars, term, world, tables
<1> USE DEF Surviving, Waking, Watched, Kept, Steady
<1>1. CASE UNCHANGED vars
  BY <1>1, AnnouncedStays DEF vars
<1>2. CASE \E s \in Fd \cup {Ghost} : Conversation(s)
  BY <1>2, ConversationAnnounced
<1>3. ASSUME NEW e \in Fd, Sentence(e) PROVE Announced'
  <2>1. flag' = flag /\ main.pc = "select" /\ esi[e].st = "idle" /\ Talking(e)
    BY <1>3 DEF Sentence, IsThisKeyBlocked, CoordinatorMessage, Talking, TypeOK, Process
  <2>2. e = executing
    BY <2>1, TalkerExecutes
  <2> QED BY <2>1, <2>2, NothingAnnounced
<1>4. CASE EsiEvents
  <2>1. ~ExecutionFailure
    BY DEF ExecutionFailure, FromExecutingEsi, Lawful, TypeOK
  <2>2. CASE IAmBlocked
    <3>1. main.pc = "select" /\ esi[executing].st = "blocked" /\ flag'.update = flag.update
      BY <2>2 DEF IAmBlocked, FromExecutingEsi, WhenOthersReady, TypeOK, FlagName
    <3> QED BY <3>1, NothingAnnounced
  <2>3. ASSUME NEW finish \in BOOLEAN, ExecutionSuccess(finish) PROVE Announced'
    <3>1. /\ main.pc = "select" /\ main'.pc = "burn" /\ flag'.update = flag.update
          /\ UNCHANGED <<executing, keyToUnlock, locked>>
      BY <2>3 DEF ExecutionSuccess, FromExecutingEsi, WhenOthersReady, TypeOK, FlagName, Locals
    <3> QED BY <3>1 DEF Announced, Holds
  <2> QED BY <1>4, <2>1, <2>2, <2>3 DEF EsiEvents
<1>5. ASSUME NEW e \in Fd, Accept(e) \/ AcceptWithoutHandshake(e) PROVE Announced'
  <2>1. ArriveEsi(e, TRUE)
    BY <1>5 DEF Accept, AcceptWithoutHandshake, Faultless
  <2>2. /\ UNCHANGED <<main, executing, locked, keyToUnlock>> /\ main.pc = "select"
        /\ e \notin open /\ \A f \in Fd : f # e => esi'[f] = esi[f]
        /\ flag'.update = flag.update
    BY <2>1 DEF ArriveEsi, TypeOK, FlagName
  <2>3. flag.update => executing \in Fd /\ executing # e
    <3> SUFFICES ASSUME flag.update PROVE executing \in Fd /\ executing # e
      OBVIOUS
    <3>1. executing \in Fd /\ Talking(executing)
      BY <2>2 DEF Announced, Talking
    <3>2. queue["execution"] # <<>>
      BY <3>1, TalkerExecutes, OneElement
    <3>3. executing \in open
      BY <2>2, <3>2 DEF ExecInv, Executes, Turn
    <3> QED BY <2>2, <3>1, <3>3
  <2> QED BY <2>2, <2>3, AnnouncedStays
<1>6. CASE GoIdle
  <2>1. main.pc = "select" /\ flag' = flag /\ queue["execution"] = <<>>
    BY <1>6 DEF GoIdle
  <2>2. executing \in Fd => ~Talking(executing)
    BY <2>1, Silence
  <2> QED BY <2>1, <2>2, NothingAnnounced DEF Talking
<1>7. CASE Operator \/ AddRequest \/ TogglePause
  <2>1. flag'.update = flag.update
    <3>1. ASSUME NEW c \in Commands, TypeCommand(c) PROVE flag'.update = flag.update
      <4>1. c \in {"kill", "bloquear", "desbloquear"}
        BY <3>1 DEF TypeCommand, CommandFlag
      <4>2. CommandFlag[c] \in {"killed", "block", "unlock"}
        BY <4>1 DEF CommandFlag
      <4> QED BY <3>1, <4>2 DEF TypeCommand, TypeOK, FlagName
    <3>2. CASE AddRequest \/ TogglePause
      BY <3>2 DEF AddRequest, TogglePause, TypeOK, FlagName
    <3> QED BY <1>7, <3>1, <3>2 DEF Operator
  <2>2. UNCHANGED <<main, executing, locked, keyToUnlock, esi>>
    BY <1>7 DEF Operator, TypeCommand, AddRequest, TogglePause
  <2> QED BY <2>1, <2>2, AnnouncedStays
<1>8. ASSUME NEW e \in Fd, InvalidLine(e) \/ EsiCut(e) PROVE Announced'
  BY <1>8 DEF InvalidLine, EsiCut, Faultless
<1>9. CASE ReleaseKey \/ (ServeUpdate /\ flag.update)
  <2>1. ~flag'.update
    BY <1>9 DEF ReleaseKey, ServeUpdate, UpdateBlockedEsiQueue, TypeOK, FlagName
  <2> QED BY <2>1 DEF Announced
<1>10. CASE ReleaseEnd
  <2>1. ~flag'.update
    BY <1>10 DEF ReleaseEnd, Announced
  <2> QED BY <2>1 DEF Announced
<1>11. CASE Burn \/ Drain
  <2>1. /\ main.pc \in {"burn", "drain"} /\ (flag.update => main'.pc \in {"drain", "update"})
        /\ UNCHANGED <<flag, executing, locked, keyToUnlock>>
    BY <1>11 DEF Burn, Drain, Goto, ExecInv, Routes, Faultless, Calm, TypeOK, Locals
  <2> QED BY <2>1 DEF Announced, Holds
<1>12. CASE FinishEsi
  <2>1. /\ main.pc = "drain" /\ main'.pc = "release" /\ main'.snap = locked
        /\ main'.esi = executing /\ flag' = flag
    BY <1>12 DEF FinishEsi, TypeOK, Locals
  <2> QED BY <2>1 DEF Announced, Holds
<1>13. CASE FlagSteps /\ ~ServeUpdate
  <2>1. main.pc \notin {"select", "burn", "drain", "update", "release"}
    BY <1>13 DEF FlagSteps, ServeUnlocks, ReleaseByConsole, UnlocksServed, ServeNews,
       BlockExecuting, FilterReady, BlockReady, ReadyBlocked, BlockForSystem, BlocksServed, Preempt
  <2>2. flag'.update = flag.update
    BY <1>13 DEF FlagSteps, ServeUnlocks, ReleaseByConsole, UpdateBlockedEsiQueue, UnlocksServed,
       ServeNews, BlockExecuting, FilterReady, BlockReady, ReadyBlocked, BlockForSystem,
       BlocksServed, Preempt, TypeOK, FlagName
  <2> QED BY <2>1, <2>2, NothingAnnounced
<1>14. CASE ServeUpdate /\ ~flag.update
  BY <1>14 DEF ServeUpdate, Announced
<1>15. CASE EsiFinished \/ Reschedule \/ ContinueExecuting \/ AuthorizeEsiExecution
  <2>1. main.pc \notin {"select", "burn", "drain", "update", "release"}
    BY <1>15 DEF EsiFinished, Reschedule, ContinueExecuting, AuthorizeEsiExecution
  <2>2. flag'.update = flag.update
    <3>1. CASE AuthorizeEsiExecution
      BY <3>1, AuthorizeOpen DEF AuthorizeEsiExecution, TypeOK, FlagName
    <3>2. CASE EsiFinished \/ Reschedule \/ ContinueExecuting
      BY <3>2 DEF EsiFinished, Reschedule, ContinueExecuting
    <3> QED BY <1>15, <3>1, <3>2
  <2> QED BY <2>1, <2>2, NothingAnnounced
<1>16. CASE UninitialisedOpcode \/ Corpse \/ CorpsesBurnt
  BY <1>16 DEF UninitialisedOpcode, Corpse, CorpsesBurnt, Finishing, Faultless, Calm,
     ExecInv, Routes
<1> QED BY <1>1, <1>2, <1>3, <1>4, <1>5, <1>6, <1>7, <1>8, <1>9, <1>10, <1>11, <1>12, <1>13,
           <1>14, <1>15, <1>16 DEF Next, Steps, FlagSteps

\* Every step keeps all of it.
LEMMA NextSurviving ==
  ASSUME alive, Surviving, Faultless, [Next]_vars
  PROVE  alive' /\ Surviving'
<1>1. alive' /\ ~Crash
  BY NoCrash DEF Crash
<1>2. Waking'
  BY NextWaking DEF Surviving, Faultless
<1>3. Lawful' /\ Finishing' /\ Announced'
  BY <1>1, NextLawful, NextFinishing, NextAnnounced
<1> QED BY <1>1, <1>2, <1>3 DEF Surviving

\* In the initial state nothing has happened.
LEMMA InitSurviving == Init => alive /\ Surviving
<1> SUFFICES ASSUME Init PROVE alive /\ Surviving
  OBVIOUS
<1>1. alive /\ Waking
  BY InitWaking DEF Init
<1>2. Lawful /\ Finishing /\ Announced
  BY DEF Lawful, Finishing, Announced, Init, Idle, NoProcess, FlagName, InFlight
<1> QED BY <1>1, <1>2 DEF Surviving

\* The scheduler survives: as long as scripts take a key before they write it, no process
\* is cut and no handshake fails, the operator uses neither kill nor bloquear, and the
\* algorithm is not SJFCD, it never dereferences an ESI it does not know or a key it has
\* freed, and never waits for a mutex that only itself would release.  Each of these
\* conditions is needed: without it, and with all the others, TLC finds a crash.
THEOREM NeverCrashesCorrect ==
  ASSUME Faultless
  PROVE  Spec => []NeverCrashes
<1> DEFINE IInv == alive /\ Surviving
<1>1. Init => IInv
  BY InitSurviving
<1>2. IInv /\ [Next]_vars => IInv'
  BY NextSurviving
<1>3. IInv => NeverCrashes
  BY DEF NeverCrashes
<1> HIDE DEF IInv
<1> QED BY <1>1, <1>2, <1>3, PTL DEF Spec
=============================================================================
