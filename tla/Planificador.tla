---------------------------- MODULE Planificador ----------------------------
(***************************************************************************)
(* The scheduler process (planificador/planificador.c and the console      *)
(* thread of planificador/consola.c), together with the part of its        *)
(* environment that it reacts to: ESI processes that execute one sentence  *)
(* per PROTOCOL_PE_EXEC, and the coordinator, which asks about, blocks and *)
(* unblocks the key of the sentence in flight.                             *)
(*                                                                         *)
(* The main thread is one select() loop; the console thread writes the     *)
(* same flags and lists with no lock.  A handler is therefore a chain of   *)
(* steps, main.pc naming the code between two points where the console can *)
(* intervene.  Estimates and waiting times are abstracted: every algorithm *)
(* but FIFO may select any ESI of the ready queue.                         *)
(***************************************************************************)
EXTENDS Naturals, Sequences, SequencesExt

CONSTANTS
    Fd,           \* socket numbers accept() may return; an ESI is its socket
    Key,          \* keys named by scripts, the console and the configuration
    NoEsi,        \* the -1 of the code: no ESI, or the system as a key's owner
    Freed,        \* a key pointer that is not allocated (any more)
    Ghost,        \* the coordinator's side of a sentence whose ESI is gone
    Algorithm,    \* setup.scheduling_algorithm
    ConfigKeys,   \* setup.blocked_keys, the keys blocked from the start
    Commands,     \* console commands the operator uses
    Failures,     \* what may go wrong outside the scheduler
    MaxArrivals,  \* bound: connections accepted
    MaxCommands,  \* bound: console commands typed
    MaxLines      \* bound: sentences of a script

ASSUME ConstantsAssumption ==
    /\ NoEsi \notin Fd /\ Ghost \notin Fd /\ Ghost # NoEsi
    /\ Freed \notin Key /\ Freed \notin Fd /\ Freed # NoEsi
    /\ Algorithm \in {"FIFO", "SJFCD", "SJFSD", "HRRN"}
    /\ ConfigKeys \in Seq(Key)
    /\ \A i, j \in DOMAIN ConfigKeys : ConfigKeys[i] = ConfigKeys[j] => i = j
    /\ Commands \subseteq {"bloquear", "desbloquear", "kill", "pausar"}
    /\ Failures \subseteq {"law", "cut", "handshake"}
    /\ MaxArrivals \in Nat /\ MaxCommands \in Nat /\ MaxLines \in Nat

VARIABLES
    alive,        \* FALSE once the scheduler crashed or hung for ever
    main,         \* where the main thread is, and the locals of that code
    queue,        \* g_new_queue, g_ready_queue, g_execution_queue, g_blocked_queue
    finished,     \* g_finished_queue, written and never read
    locked,       \* g_locked_keys
    expecting,    \* g_esis_sexpecting_keys
    info,         \* g_esi_bursts: number of entries of each ESI
    flag,         \* the int flags main() polls
    executing,    \* executing_esi
    lastKey,      \* last_key_inquired
    keyToUnlock,  \* key_to_unlock
    req,          \* the three lists the console thread fills
    console,      \* the command whose flag is set but whose entry is not added yet
    open,         \* connected_fds, without the listener and the coordinator
    esi,          \* each ESI process and its conversation with the coordinator
    arrivals, commands

tables  == <<queue, finished, locked, expecting, info>>
keyVars == <<lastKey, keyToUnlock>>
term    == <<console, commands>>
world   == <<open, esi, arrivals>>
vars    == <<alive, main, tables, flag, executing, keyVars, req, term, world>>

-----------------------------------------------------------------------------
(* Types *)

QueueName == {"new", "ready", "execution", "blocked"}
FlagName  == {"new", "reschedule", "update", "killed", "block", "unlock", "paused"}
AnyKey    == Key \cup {Freed}
AnyEsi    == Fd \cup {NoEsi}
Claim     == [esi : AnyEsi, key : AnyKey]   \* key_blocker, esi_sexpecting_key
InFlight  == {"asking", "locking", "working", "unlocking"}
Stage     == InFlight \cup {"off", "idle", "ok", "blocked", "gone"}
Label     == {"select", "release", "opcode", "burn", "corpses", "drain", "finish",
              "update", "unlock", "unlocking", "news", "block", "filter", "blocking",
              "leftover", "preempt", "dispatch", "authorize", "again"}
Locals    == [pc : Label, ctx : {"result", "idle"}, fin : BOOLEAN, esi : AnyEsi,
              after : Label, snap : Seq(Claim), i : Nat \ {0}, outer : AnyEsi]
Process   == [st : Stage, op : {"GET", "SET", "STORE"}, key : AnyKey,
              retry : BOOLEAN, orders : Nat, line : Nat]

Preemptive == Algorithm = "SJFCD"

Idle == [pc |-> "select", ctx |-> "idle", fin |-> FALSE, esi |-> NoEsi,
         after |-> "select", snap |-> <<>>, i |-> 1, outer |-> NoEsi]
NoProcess == [st |-> "off", op |-> "GET", key |-> Freed,
              retry |-> FALSE, orders |-> 0, line |-> 0]

TypeOK ==
    /\ alive \in BOOLEAN
    /\ main \in Locals
    /\ queue \in [QueueName -> Seq(Fd)]
    /\ finished \subseteq Fd
    /\ locked \in Seq(Claim)
    /\ expecting \in Seq(Claim)
    /\ info \in [Fd -> Nat]
    /\ flag \in [FlagName -> BOOLEAN]
    /\ executing \in AnyEsi
    /\ lastKey \in AnyKey /\ keyToUnlock \in AnyKey
    /\ req \in [killed : Seq(Fd), block : Seq(Claim), unlock : Seq(Key)]
    /\ console \in Commands \cup {"none"}
    /\ open \subseteq Fd
    /\ esi \in [Fd \cup {Ghost} -> Process]
    /\ arrivals \in Nat /\ commands \in Nat

Init ==
    /\ alive = TRUE
    /\ main = Idle
    /\ queue = [q \in QueueName |-> <<>>]
    /\ finished = {}
    /\ locked = [i \in DOMAIN ConfigKeys |-> [esi |-> NoEsi, key |-> ConfigKeys[i]]]
    /\ expecting = <<>>
    /\ info = [e \in Fd |-> 0]
    /\ flag = [f \in FlagName |-> f = "reschedule"]
    /\ executing = NoEsi
    /\ lastKey = Freed /\ keyToUnlock = Freed
    /\ req = [killed |-> <<>>, block |-> <<>>, unlock |-> <<>>]
    /\ console = "none"
    /\ open = {}
    /\ esi = [e \in Fd \cup {Ghost} |-> NoProcess]
    /\ arrivals = 0 /\ commands = 0

-----------------------------------------------------------------------------
(* The tables and the helpers on them *)

\* lists of claims: the first entry of a key or of an ESI, and the list without it
FirstOfKey(s, k) == SelectInSeq(s, LAMBDA c : c.key = k)
FirstOfEsi(s, e) == SelectInSeq(s, LAMBDA c : c.esi = e)
ForgetKey(s, k)  == RemoveFirstMatch(s, LAMBDA c : c.key = k)
ForgetEsi(s, e)  == RemoveFirstMatch(s, LAMBDA c : c.esi = e)

Known(e)   == e \in Fd /\ info[e] > 0     \* obtain_esi_information_by_id # NULL
\* mutant: keys of the system do not count
LockedByEsi(k) == \E i \in DOMAIN locked : locked[i].key = k /\ locked[i].esi # NoEsi
Locked(k)  == \E i \in DOMAIN locked : locked[i].key = k
Holds(e, k) == \E i \in DOMAIN locked : locked[i].key = k /\ locked[i].esi = e
WaiterOf(k) == FirstOfKey(expecting, k)   \* 0 if nobody waits
\* mutant: the ESI is not taken out of the first queue
CopyEsi(from, to, e) == [queue EXCEPT ![to] = Append(@, e)]
MoveEsi(from, to, e) ==
    [queue EXCEPT ![from] = RemoveFirst(@, e), ![to] = Append(@, e)]

\* A NULL dereference, a double free, or sem_wait on a semaphore that only this
\* thread posts: the scheduler does nothing more.
Crash ==
    /\ alive' = FALSE
    /\ UNCHANGED <<main, tables, flag, executing, keyVars, req, term, world>>

\* mutants of the next operator: nobody is woken; the waiter stays in the list of
\* waiters; a key is kept by a STORE and lost by a console unlock; the key is
\* handed over to the waiter
UpdateNobody(k, slot, wasAStore) ==
    /\ locked' = ForgetKey(locked, k)
    /\ flag' = [flag EXCEPT ![slot] = FALSE]
    /\ UNCHANGED <<queue, expecting>>
UpdateAndWait(k, slot, wasAStore) ==
    /\ queue' = IF WaiterOf(k) = 0 THEN queue
                ELSE MoveEsi("blocked", "ready", expecting[WaiterOf(k)].esi)
    /\ locked' = ForgetKey(locked, k)
    /\ flag' = [flag EXCEPT ![slot] = FALSE]
    /\ UNCHANGED expecting
UpdateKeeping(k, slot, wasAStore) ==
    /\ queue' = IF WaiterOf(k) = 0 THEN queue
                ELSE MoveEsi("blocked", "ready", expecting[WaiterOf(k)].esi)
    /\ expecting' = ForgetKey(expecting, k)
    /\ locked' = IF wasAStore THEN locked ELSE ForgetKey(locked, k)
    /\ flag' = [flag EXCEPT ![slot] = FALSE]
UpdateHandingOver(k, slot, wasAStore) ==
    /\ queue' = IF WaiterOf(k) = 0 THEN queue
                ELSE MoveEsi("blocked", "ready", expecting[WaiterOf(k)].esi)
    /\ expecting' = ForgetKey(expecting, k)
    /\ locked' = IF WaiterOf(k) = 0 THEN ForgetKey(locked, k)
                 ELSE Append(ForgetKey(locked, k), expecting[WaiterOf(k)])
    /\ flag' = [flag EXCEPT ![slot] = FALSE]

\* update_blocked_esi_queue: the first ESI waiting for k becomes ready; the lock
\* goes away unless a console unlock woke somebody.
UpdateBlockedEsiQueue(k, slot, wasAStore) ==
    LET i == WaiterOf(k) IN
    \/ /\ i = 0
       /\ locked' = ForgetKey(locked, k)
       /\ flag' = [flag EXCEPT ![slot] = FALSE]
       /\ UNCHANGED <<queue, expecting>>
    \/ /\ i # 0
       /\ LET e == expecting[i].esi IN
          /\ queue' = MoveEsi("blocked", "ready", e)
          /\ expecting' = ForgetEsi(expecting, e)
       /\ locked' = IF wasAStore THEN ForgetKey(locked, k) ELSE locked
       /\ flag' = [flag EXCEPT ![slot] = FALSE,
                               !.reschedule = @ \/ Preemptive]

WakesStranger(k) == WaiterOf(k) # 0 /\ ~Known(expecting[WaiterOf(k)].esi)

Goto(pc) == main' = [main EXCEPT !.pc = pc]

\* sock_my_port up to its call of release_resources; after is where the caller
\* continues.
SockMyPort(e, after, i) ==
    \/ ~Known(e) /\ Crash
    \/ /\ Known(e)
       /\ queue' = [q \in QueueName |-> RemoveFirst(queue[q], e)]
       /\ finished' = finished \cup
              {f \in {e} : \E q \in QueueName : f \in ToSet(queue[q])}
       /\ main' = [main EXCEPT !.pc = "release", !.esi = e, !.after = after,
                               !.snap = locked, !.i = i]
       /\ UNCHANGED <<alive, locked, expecting, info, flag, executing, keyVars,
                      req, term, world>>

-----------------------------------------------------------------------------
(* select(): a new connection *)

ArriveEsi(e, connected) ==
    /\ alive /\ main.pc = "select"
    /\ e \notin open /\ arrivals < MaxArrivals
    /\ arrivals' = arrivals + 1
    /\ queue' = [queue EXCEPT !["new"] = Append(@, e)]
    /\ info' = [info EXCEPT ![e] = @ + 1]
    /\ flag' = [flag EXCEPT !.new = TRUE, !.reschedule = @ \/ Preemptive]
    /\ open' = IF connected THEN open \cup {e} ELSE open
    /\ esi' = [esi EXCEPT ![e] = IF connected THEN [NoProcess EXCEPT !.st = "idle"]
                                              ELSE @]
    /\ UNCHANGED <<alive, main, finished, locked, expecting, executing, keyVars,
                   req, term>>

Accept(e) == ArriveEsi(e, TRUE)
\* the handshake fails: the socket is closed, yet the ESI enters the new queue
AcceptWithoutHandshake(e) == "handshake" \in Failures /\ ArriveEsi(e, FALSE)

-----------------------------------------------------------------------------
(* select(): a message of the coordinator about the sentence of s *)

\* IS_THIS_KEY_BLOCKED answered "blocked" keeps mutex_coordinador until the
\* question that follows it
MutexTaken == \E s \in DOMAIN esi : esi[s].st = "asking"

\* the next stage of the sentence of s; nobody reads the result of a ghost
Advance(s, st) ==
    esi' = [esi EXCEPT ![s].st =
                IF s = Ghost /\ st \in {"ok", "blocked", "gone"} THEN "off" ELSE st]

CoordinatorMessage(s, st) == alive /\ main.pc = "select" /\ esi[s].st = st

\* PROTOCOL_CP_IS_THIS_KEY_BLOCKED for the sentence (op, k) the authorized ESI e
\* has just sent; an ESI that was blocked sends the same line again
IsThisKeyBlocked(e, op, k) ==
    /\ CoordinatorMessage(e, "idle")
    /\ esi[e].orders > 0
    /\ IF esi[e].retry THEN op = "GET" /\ k = esi[e].key ELSE esi[e].line < MaxLines
    /\ op = "GET" \/ Holds(e, k) \/ "law" \in Failures
    /\ \/ MutexTaken /\ Crash
       \/ /\ ~MutexTaken
          /\ lastKey' = k
          /\ esi' = [esi EXCEPT ![e] =
                 [st     |-> IF Locked(k) THEN "asking"
                             ELSE IF op = "GET" THEN "locking" ELSE "gone",
                  op     |-> op, key |-> k, retry |-> FALSE,
                  orders |-> @.orders - 1,
                  line   |-> IF @.retry THEN @.line ELSE @.line + 1]]
          /\ UNCHANGED <<alive, main, tables, flag, executing, keyToUnlock, req, term,
                         open, arrivals>>

\* mutant of the next operator: last_key_inquired is freed before PROTOCOL_EP_I_AM_BLOCKED
IsKeyBlockedAndForget(s) ==
    /\ CoordinatorMessage(s, "asking")
    /\ Locked(lastKey) => queue["execution"] # <<>>
    /\ Advance(s, IF Locked(lastKey) /\ Holds(Head(queue["execution"]), lastKey)
                  THEN (IF esi[s].op = "GET" THEN "ok" ELSE "working")
                  ELSE (IF esi[s].op = "GET" THEN "blocked" ELSE "gone"))
    /\ lastKey' = Freed
    /\ UNCHANGED <<alive, main, tables, flag, executing, keyToUnlock, req, term, open, arrivals>>

\* PROTOCOL_CP_IS_KEY_BLOCKED_BY_EXECUTING_ESI; a SET or STORE without the key is
\* an illegal operation and the ESI exits without telling the scheduler
IsKeyBlockedByExecutingEsi(s) ==
    /\ CoordinatorMessage(s, "asking")
    /\ \/ Locked(lastKey) /\ queue["execution"] = <<>> /\ Crash
       \/ /\ Locked(lastKey) => queue["execution"] # <<>>
          /\ IF Locked(lastKey) /\ Holds(Head(queue["execution"]), lastKey)
             THEN /\ Advance(s, IF esi[s].op = "GET" THEN "ok" ELSE "working")
                  /\ lastKey' = Freed
             ELSE /\ Advance(s, IF esi[s].op = "GET" THEN "blocked" ELSE "gone")
                  /\ UNCHANGED lastKey
          /\ UNCHANGED <<alive, main, tables, flag, executing, keyToUnlock, req, term,
                         open, arrivals>>

\* PROTOCOL_CP_BLOCK_KEY: add_new_key_blocker
BlockKey(s) ==
    /\ CoordinatorMessage(s, "locking")
    /\ \/ (MutexTaken \/ queue["execution"] = <<>> \/ lastKey = Freed) /\ Crash
       \/ /\ ~MutexTaken /\ queue["execution"] # <<>> /\ lastKey # Freed
          /\ locked' = Append(locked, [esi |-> Head(queue["execution"]), key |-> lastKey])
          /\ lastKey' = Freed
          /\ Advance(s, "ok")
          /\ UNCHANGED <<alive, main, queue, finished, expecting, info, flag, executing,
                         keyToUnlock, req, term, open, arrivals>>

\* PROTOCOL_CP_UNLOCK_KEY: the key is only remembered
UnlockKey(s) ==
    /\ CoordinatorMessage(s, "unlocking")
    /\ \/ MutexTaken /\ Crash
       \/ /\ ~MutexTaken
          /\ keyToUnlock' = esi[s].key
          /\ flag' = [flag EXCEPT !.update = TRUE]
          /\ Advance(s, "ok")
          /\ UNCHANGED <<alive, main, tables, executing, lastKey, req, term, open, arrivals>>

-----------------------------------------------------------------------------
(* select(): the executing ESI answers, or its socket reports end of file *)

FromExecutingEsi(st) ==
    /\ alive /\ main.pc = "select"
    /\ executing \in open /\ esi[executing].st = st

WhenOthersReady(f) ==
    [f EXCEPT !.reschedule = @ \/ queue["ready"] # <<>>]

\* EXECUTION_SUCCESS followed by FINISHED_SCRIPT or DIDNT_FINISH_SCRIPT
ExecutionSuccess(finish) ==
    /\ FromExecutingEsi("ok")
    /\ finish \/ esi[executing].line < MaxLines
    /\ esi' = [esi EXCEPT ![executing].st = IF finish THEN "gone" ELSE "idle"]
    /\ flag' = IF finish THEN WhenOthersReady(flag) ELSE flag
    /\ main' = [main EXCEPT !.pc = "burn", !.ctx = "result", !.fin = finish]
    /\ UNCHANGED <<alive, tables, executing, keyVars, req, term, open, arrivals>>

IAmBlocked ==
    /\ FromExecutingEsi("blocked")
    /\ \/ lastKey = Freed /\ Crash
       \/ /\ lastKey # Freed
          /\ expecting' = Append(expecting, [esi |-> executing, key |-> lastKey])
          /\ queue' = MoveEsi("execution", "blocked", executing)
          /\ flag' = WhenOthersReady(flag)
          /\ lastKey' = Freed
          /\ esi' = [esi EXCEPT ![executing].st = "idle", ![executing].retry = TRUE]
          /\ main' = [main EXCEPT !.pc = "burn", !.ctx = "result"]
          /\ UNCHANGED <<alive, finished, locked, info, executing, keyToUnlock, req,
                         term, open, arrivals>>

\* recv fails: sock_my_port, and the opcode returned was never written
ExecutionFailure ==
    /\ FromExecutingEsi("gone")
    /\ SockMyPort(executing, "opcode", 1)

\* every opcode main() knows dereferences the information just destroyed; any
\* other value falls through the switch
UninitialisedOpcode ==
    /\ alive /\ main.pc = "opcode"
    /\ \/ Crash
       \/ /\ main' = [main EXCEPT !.pc = "burn", !.ctx = "result"]
          /\ UNCHANGED <<alive, tables, flag, executing, keyVars, req, term, world>>

-----------------------------------------------------------------------------
(* release_resources(main.esi): one step per key held when it was called *)

Pending(i) == /\ i \in DOMAIN main.snap
              /\ main.snap[i].esi = main.esi
              /\ \A j \in 1..(i - 1) : main.snap[j].esi # main.esi

ReleaseKey ==
    /\ alive /\ main.pc = "release"
    /\ \E i \in DOMAIN main.snap :
        /\ Pending(i)
        /\ LET k == main.snap[i].key IN
           \/ WakesStranger(k) /\ Crash
           \/ /\ ~WakesStranger(k)
              /\ UpdateBlockedEsiQueue(k, "update", TRUE)
              /\ main' = [main EXCEPT !.snap = SubSeq(@, i + 1, Len(@))]
              /\ UNCHANGED <<alive, finished, info, executing, keyVars, req, term, world>>

\* a sentence in flight outlives the socket of its ESI
Orphan(e) ==
    [esi EXCEPT ![e] = NoProcess,
                ![Ghost] = IF esi[e].st \in InFlight THEN esi[e] ELSE @]

ReleaseEnd ==
    /\ alive /\ main.pc = "release"
    /\ \A i \in DOMAIN main.snap : main.snap[i].esi # main.esi
    /\ LET e == main.esi IN
       /\ expecting' = ForgetEsi(expecting, e)
       /\ locked' = ForgetEsi(locked, e)
       /\ info' = [info EXCEPT ![e] = @ - 1]
       /\ open' = open \ {e}
       /\ esi' = Orphan(e)
    /\ main' = [main EXCEPT !.pc = main.after, !.snap = <<>>]
    /\ UNCHANGED <<alive, queue, finished, flag, executing, keyVars, req, term, arrivals>>

-----------------------------------------------------------------------------
(* burn_esi_corpses *)

Burn ==
    /\ alive /\ main.pc = "burn"
    /\ IF flag.killed
       THEN /\ req' = [req EXCEPT !.killed =
                           IF main.fin THEN RemoveFirst(@, executing) ELSE @]
            /\ main' = [main EXCEPT !.pc = "corpses", !.i = 1]
       ELSE Goto("drain") /\ UNCHANGED req
    /\ UNCHANGED <<alive, tables, flag, executing, keyVars, term, world>>

Corpse ==
    /\ alive /\ main.pc = "corpses"
    /\ main.i <= Len(req.killed)
    /\ SockMyPort(req.killed[main.i], "corpses", main.i + 1)

CorpsesBurnt ==
    /\ alive /\ main.pc = "corpses"
    /\ main.i > Len(req.killed)
    /\ req' = [req EXCEPT !.killed = <<>>]
    /\ flag' = [flag EXCEPT !.killed = FALSE]
    /\ Goto("drain")
    /\ UNCHANGED <<alive, tables, executing, keyVars, term, world>>

-----------------------------------------------------------------------------
(* After a finished script: release_resources and the finished queue *)

FinishEsi ==
    /\ alive /\ main.pc = "drain" /\ main.fin
    /\ \/ ~Known(executing) /\ Crash
       \/ /\ Known(executing)
          /\ main' = [main EXCEPT !.pc = "release", !.esi = executing,
                                  !.after = "finish", !.snap = locked]
          /\ keyToUnlock' = IF flag.update THEN Freed ELSE keyToUnlock
          /\ UNCHANGED <<alive, tables, flag, executing, lastKey, req, term, world>>

EsiFinished ==
    /\ alive /\ main.pc = "finish"
    /\ queue' = [queue EXCEPT !["execution"] = RemoveFirst(@, executing)]
    /\ finished' = finished \cup {executing}
    /\ executing' = NoEsi
    /\ main' = [main EXCEPT !.pc = "dispatch", !.fin = FALSE]
    /\ UNCHANGED <<alive, locked, expecting, info, flag, keyVars, req, term, world>>

-----------------------------------------------------------------------------
(* Otherwise the flags are served, in the order of main() *)

\* mutant: a finished script does not skip the flags
DrainAlways ==
    /\ alive /\ main.pc = "drain"
    /\ Goto("update")
    /\ UNCHANGED <<alive, tables, flag, executing, keyVars, req, term, world>>
Drain ==
    /\ alive /\ main.pc = "drain" /\ ~main.fin
    /\ Goto(IF main.ctx = "idle" \/ flag.update \/ flag.new \/ flag.unlock
            THEN "update" ELSE "dispatch")
    /\ UNCHANGED <<alive, tables, flag, executing, keyVars, req, term, world>>

\* the key announced by UNLOCK_KEY
ServeUpdate ==
    /\ alive /\ main.pc = "update"
    /\ \/ /\ ~flag.update /\ Goto("unlock")
          /\ UNCHANGED <<alive, tables, flag, executing, keyVars, req, term, world>>
       \/ /\ flag.update /\ (keyToUnlock = Freed \/ WakesStranger(keyToUnlock))
          /\ Crash
       \/ /\ flag.update /\ keyToUnlock # Freed /\ ~WakesStranger(keyToUnlock)
          /\ UpdateBlockedEsiQueue(keyToUnlock, "update", TRUE)
          /\ keyToUnlock' = Freed
          /\ Goto("unlock")
          /\ UNCHANGED <<alive, finished, info, executing, lastKey, req, term, world>>

\* the keys unlocked at the console
ServeUnlocks ==
    /\ alive /\ main.pc = "unlock"
    /\ main' = [main EXCEPT !.pc = IF flag.unlock THEN "unlocking" ELSE "news", !.i = 1]
    /\ UNCHANGED <<alive, tables, flag, executing, keyVars, req, term, world>>

ReleaseByConsole ==
    /\ alive /\ main.pc = "unlocking" /\ main.i <= Len(req.unlock)
    /\ LET k == req.unlock[main.i] IN
       \/ WakesStranger(k) /\ Crash
       \/ /\ ~WakesStranger(k)
          /\ UpdateBlockedEsiQueue(k, "unlock", FALSE)
          /\ main' = [main EXCEPT !.i = @ + 1]
          /\ UNCHANGED <<alive, finished, info, executing, keyVars, req, term, world>>

UnlocksServed ==
    /\ alive /\ main.pc = "unlocking" /\ main.i > Len(req.unlock)
    /\ req' = [req EXCEPT !.unlock = <<>>]
    /\ Goto("news")
    /\ UNCHANGED <<alive, tables, flag, executing, keyVars, term, world>>

\* update_new_esi_queue
ServeNews ==
    /\ alive /\ main.pc = "news"
    /\ IF flag.new /\ (main.ctx = "result" \/ queue["new"] # <<>>)
       THEN /\ queue' = [queue EXCEPT !["ready"] = @ \o queue["new"], !["new"] = <<>>]
            /\ flag' = [flag EXCEPT !.new = FALSE, !.reschedule = @ \/ Preemptive]
       ELSE UNCHANGED <<queue, flag>>
    /\ Goto("block")
    /\ UNCHANGED <<alive, finished, locked, expecting, info, executing, keyVars, req,
                   term, world>>

-----------------------------------------------------------------------------
(* block_by_console_procedure *)

RequestOf(e) == FirstOfEsi(req.block, e)
ForgetRequest(e) ==
    [req EXCEPT !.block = ForgetEsi(@, e)]

\* the ESI waits for the key, or takes it if nobody has it
BlockEsi(w, from) ==
    IF Locked(w.key)
    THEN /\ expecting' = Append(expecting, w)
         /\ queue' = MoveEsi(from, "blocked", w.esi)
         /\ UNCHANGED locked
    ELSE /\ locked' = Append(locked, w)
         /\ UNCHANGED <<queue, expecting>>

BlockExecuting ==
    /\ alive /\ main.pc = "block"
    /\ LET i == IF queue["execution"] = <<>> THEN 0
                ELSE RequestOf(Head(queue["execution"])) IN
       IF flag.block /\ i # 0
       THEN /\ BlockEsi(req.block[i], "execution")
            /\ req' = ForgetRequest(Head(queue["execution"]))
       ELSE UNCHANGED <<queue, locked, expecting, req>>
    /\ Goto(IF flag.block THEN "filter" ELSE "preempt")
    /\ UNCHANGED <<alive, finished, info, flag, executing, keyVars, term, world>>

\* list_filter: the requests whose ESI is ready now; the others are left blank
FilterReady ==
    /\ alive /\ main.pc = "filter"
    /\ main' = [main EXCEPT !.pc = "blocking",
           !.snap = [i \in DOMAIN req.block |->
               [req.block[i] EXCEPT !.esi =
                   IF @ \in ToSet(queue["ready"]) THEN @ ELSE NoEsi]]]
    /\ UNCHANGED <<alive, tables, flag, executing, keyVars, req, term, world>>

BlockReady ==
    /\ alive /\ main.pc = "blocking"
    /\ \E i \in DOMAIN main.snap :
        /\ main.snap[i].esi # NoEsi
        /\ \A j \in 1..(i - 1) : main.snap[j].esi = NoEsi
        /\ BlockEsi(main.snap[i], "ready")
        /\ req' = ForgetRequest(main.snap[i].esi)
        /\ main' = [main EXCEPT !.snap = SubSeq(@, i + 1, Len(@))]
    /\ UNCHANGED <<alive, finished, info, flag, executing, keyVars, term, world>>

ReadyBlocked ==
    /\ alive /\ main.pc = "blocking"
    /\ \A i \in DOMAIN main.snap : main.snap[i].esi = NoEsi
    /\ main' = [main EXCEPT !.pc = "leftover", !.snap = <<>>, !.i = 1]
    /\ UNCHANGED <<alive, tables, flag, executing, keyVars, req, term, world>>

\* mutant of the next operator: the key stays with the ESI that no longer exists
BlockForTheDead ==
    /\ alive /\ main.pc = "leftover" /\ main.i <= Len(req.block)
    /\ locked' = IF Locked(req.block[main.i].key) THEN locked
                 ELSE Append(locked, req.block[main.i])
    /\ main' = [main EXCEPT !.i = @ + 1]
    /\ UNCHANGED <<alive, queue, finished, expecting, info, flag, executing, keyVars,
                   req, term, world>>

\* a request for an ESI that does not exist gives a free key to the system
BlockForSystem ==
    /\ alive /\ main.pc = "leftover" /\ main.i <= Len(req.block)
    /\ LET w == req.block[main.i] IN
       locked' = IF Known(w.esi) \/ Locked(w.key) THEN locked
                 ELSE Append(locked, [w EXCEPT !.esi = NoEsi])
    /\ main' = [main EXCEPT !.i = @ + 1]
    /\ UNCHANGED <<alive, queue, finished, expecting, info, flag, executing, keyVars,
                   req, term, world>>

BlocksServed ==
    /\ alive /\ main.pc = "leftover" /\ main.i > Len(req.block)
    /\ req' = [req EXCEPT !.block = <<>>]
    /\ flag' = [flag EXCEPT !.block = FALSE]
    /\ Goto("preempt")
    /\ UNCHANGED <<alive, tables, executing, keyVars, term, world>>

-----------------------------------------------------------------------------
(* Who executes next *)

\* the executing ESI goes back to ready, whatever queue it is in by now
Preempt ==
    /\ alive /\ main.pc = "preempt"
    /\ queue' = IF main.ctx = "result" /\ Preemptive /\ flag.reschedule
                THEN MoveEsi("execution", "ready", executing) ELSE queue
    /\ Goto("dispatch")
    /\ UNCHANGED <<alive, finished, locked, expecting, info, flag, executing, keyVars,
                   req, term, world>>

MayDispatch == main.ctx = "result" => ~flag.paused
\* mutants: whenever somebody is ready; only when the flag says so
RescheduleAlways == queue["ready"] # <<>>
RescheduleIfFlag == queue["ready"] # <<>> /\ flag.reschedule
MustReschedule ==
    queue["ready"] # <<>> /\ (main.ctx = "idle" \/ flag.reschedule)

\* schedule_esis: FIFO looks at the head alone, the others sort the whole queue
Eligible == IF Algorithm = "FIFO" THEN {Head(queue["ready"])}
            ELSE ToSet(queue["ready"])

\* reschedule() up to authorize_esi_execution; after a failed authorization it
\* runs again inside the outer call, which will set executing_esi last
Reschedule ==
    /\ alive
    /\ \/ main.pc = "dispatch" /\ MayDispatch /\ MustReschedule
       \/ main.pc = "again"
    /\ \/ queue["ready"] = <<>> /\ Crash
       \/ /\ queue["ready"] # <<>>
          /\ \E e \in Eligible :
             \/ (\E r \in Eligible : ~Known(r)) /\ Crash
             \/ /\ \A r \in Eligible : Known(r)
                /\ queue' = MoveEsi("ready", "execution", e)
                /\ executing' = IF main.pc = "again" THEN NoEsi ELSE executing
                /\ main' = [main EXCEPT !.pc = "authorize", !.esi = e,
                                !.outer = IF @ = NoEsi THEN e ELSE @]
                /\ UNCHANGED <<alive, finished, locked, expecting, info, flag, keyVars,
                               req, term, world>>

ContinueExecuting ==
    /\ alive /\ main.pc = "dispatch" /\ MayDispatch /\ ~MustReschedule
    /\ main' = IF main.ctx = "result" /\ queue["execution"] # <<>>
               THEN [main EXCEPT !.pc = "authorize", !.esi = Head(queue["execution"])]
               ELSE Idle
    /\ UNCHANGED <<alive, tables, flag, executing, keyVars, req, term, world>>

AuthorizeEsiExecution ==
    /\ alive /\ main.pc = "authorize"
    /\ \/ /\ main.esi \notin open
          /\ SockMyPort(main.esi, "again", 1)
       \/ /\ main.esi \in open
          /\ esi' = [esi EXCEPT ![main.esi].orders = @ + 1]
          /\ executing' = IF main.outer = NoEsi THEN executing ELSE main.outer
          /\ flag' = IF main.outer = NoEsi THEN flag
                     ELSE [flag EXCEPT !.reschedule = FALSE]
          /\ main' = Idle
          /\ UNCHANGED <<alive, tables, keyVars, req, term, open, arrivals>>

\* the part of the loop after the descriptors, when nothing executes
IdleWork ==
    \/ flag.killed \/ flag.update \/ flag.unlock \/ flag.block
    \/ flag.new /\ queue["new"] # <<>>
    \/ queue["ready"] # <<>>

\* mutant: it is done while an ESI executes, too
GoIdleAnyTime ==
    /\ alive /\ main.pc = "select"
    /\ ~flag.paused /\ IdleWork
    /\ main' = [Idle EXCEPT !.pc = "burn"]
    /\ UNCHANGED <<alive, tables, flag, executing, keyVars, req, term, world>>

GoIdle ==
    /\ alive /\ main.pc = "select"
    /\ queue["execution"] = <<>> /\ ~flag.paused
    /\ IdleWork
    /\ main' = [Idle EXCEPT !.pc = "burn"]
    /\ UNCHANGED <<alive, tables, flag, executing, keyVars, req, term, world>>

-----------------------------------------------------------------------------
(* The console thread: first the flag, then the entry of the list *)

CommandFlag == [kill |-> "killed", bloquear |-> "block", desbloquear |-> "unlock"]

TypeCommand(c) ==
    /\ alive /\ console = "none" /\ commands < MaxCommands
    /\ c \in Commands \cap DOMAIN CommandFlag
    /\ flag' = [flag EXCEPT ![CommandFlag[c]] = TRUE]
    /\ console' = c
    /\ commands' = commands + 1
    /\ UNCHANGED <<alive, main, tables, executing, keyVars, req, world>>

\* obtain_esi_fd_by_esi_pid: a live ESI, or -1 for a process that does not exist
NamedEsi == {e \in Fd : Known(e)} \cup {NoEsi}

AddRequest ==
    /\ alive
    /\ \/ /\ console = "kill"
          /\ \E e \in NamedEsi :
              req' = [req EXCEPT !.killed = IF e = NoEsi THEN @ ELSE Append(@, e)]
       \/ /\ console = "bloquear"
          /\ \E e \in NamedEsi, k \in Key :
              req' = [req EXCEPT !.block = Append(@, [esi |-> e, key |-> k])]
       \/ /\ console = "desbloquear"
          /\ \E k \in Key : req' = [req EXCEPT !.unlock = Append(@, k)]
    /\ console' = "none"
    /\ UNCHANGED <<alive, main, tables, flag, executing, keyVars, commands, world>>

\* pausar and continuar
TogglePause ==
    /\ alive /\ console = "none"
    /\ "pausar" \in Commands
    /\ flag.paused \/ commands < MaxCommands
    /\ flag' = [flag EXCEPT !.paused = ~@]
    /\ commands' = IF flag.paused THEN commands ELSE commands + 1
    /\ UNCHANGED <<alive, main, tables, executing, keyVars, req, console, world>>

-----------------------------------------------------------------------------
(* The rest of the environment *)

\* a SET or STORE that the coordinator forwarded to an instance
InstanceAnswers(s) ==
    /\ alive /\ esi[s].st = "working"
    /\ \/ Advance(s, IF esi[s].op = "SET" THEN "ok" ELSE "unlocking")
       \/ "law" \in Failures /\ Advance(s, "gone")
    /\ UNCHANGED <<alive, main, tables, flag, executing, keyVars, req, term, open, arrivals>>

\* the authorized line does not parse, or its key is too long
InvalidLine(e) ==
    /\ alive /\ "law" \in Failures
    /\ esi[e].st = "idle" /\ esi[e].orders > 0 /\ ~esi[e].retry
    /\ Advance(e, "gone")
    /\ UNCHANGED <<alive, main, tables, flag, executing, keyVars, req, term, open, arrivals>>

\* an ESI process is terminated; the coordinator goes on with its sentence
\* (bound: one such sentence at a time)
EsiCut(e) ==
    /\ alive /\ "cut" \in Failures
    /\ esi[e].st \notin {"off", "gone"}
    /\ esi[e].st \in InFlight => esi[Ghost].st = "off"
    /\ esi' = [esi EXCEPT ![e].st = "gone",
                          ![Ghost] = IF esi[e].st \in InFlight THEN esi[e] ELSE @]
    /\ UNCHANGED <<alive, main, tables, flag, executing, keyVars, req, term, open, arrivals>>

-----------------------------------------------------------------------------

Steps == \* the main thread between two calls of select()
    \/ UninitialisedOpcode
    \/ ReleaseKey \/ ReleaseEnd
    \/ Burn \/ Corpse \/ CorpsesBurnt
    \/ FinishEsi \/ EsiFinished
    \/ Drain \/ ServeUpdate \/ ServeUnlocks \/ ReleaseByConsole \/ UnlocksServed
    \/ ServeNews \/ BlockExecuting \/ FilterReady \/ BlockReady \/ ReadyBlocked
    \/ BlockForSystem \/ BlocksServed
    \/ Preempt \/ Reschedule \/ ContinueExecuting \/ AuthorizeEsiExecution

EsiEvents ==
    \/ \E finish \in BOOLEAN : ExecutionSuccess(finish)
    \/ IAmBlocked \/ ExecutionFailure

Sentence(e) == \E op \in {"GET", "SET", "STORE"}, k \in Key : IsThisKeyBlocked(e, op, k)
Conversation(s) ==
    IsKeyBlockedByExecutingEsi(s) \/ BlockKey(s) \/ UnlockKey(s) \/ InstanceAnswers(s)

Operator == \E c \in Commands : TypeCommand(c)

Next ==
    \/ \E e \in Fd : Accept(e) \/ AcceptWithoutHandshake(e)
    \/ \E e \in Fd : Sentence(e) \/ InvalidLine(e) \/ EsiCut(e)
    \/ \E s \in Fd \cup {Ghost} : Conversation(s)
    \/ EsiEvents \/ Steps \/ GoIdle
    \/ Operator \/ AddRequest \/ TogglePause

Spec == Init /\ [][Next]_vars

\* select() keeps returning, and ESIs, coordinator and instances keep answering
FairSpec ==
    /\ Spec
    /\ WF_vars(Steps) /\ WF_vars(GoIdle) /\ WF_vars(EsiEvents)
    /\ \A e \in Fd : WF_vars(Sentence(e))
    /\ \A s \in Fd \cup {Ghost} : WF_vars(Conversation(s))
    /\ WF_vars(AddRequest) /\ WF_vars(TogglePause)

-----------------------------------------------------------------------------
(* Properties *)

Queued(e, q) == e \in ToSet(queue[q])

\* planificador.h:120: moving an ESI takes it away from the queue it was in.  No
\* ESI is in two queues, or twice in one.
OneQueue ==
    \A p, q \in QueueName : \A i \in DOMAIN queue[p], j \in DOMAIN queue[q] :
        queue[p][i] = queue[q][j] => p = q /\ i = j

\* One ESI executes at a time, and it is the one main() listens to.
OneExecuting ==
    /\ Len(queue["execution"]) <= 1
    /\ main.pc = "select" /\ queue["execution"] # <<>> => queue["execution"] = <<executing>>

\* A key has one owner: GET checks and blocks in two messages, and the console
\* blocks and unblocks keys meanwhile.
OneOwner ==
    \A i, j \in DOMAIN locked : locked[i].key = locked[j].key => i = j

\* No key stays with an ESI the scheduler no longer knows: every way out of the
\* system gives its keys back.
OwnersAlive ==
    \A i \in DOMAIN locked : locked[i].esi = NoEsi \/ Known(locked[i].esi)

\* An ESI waits for exactly one key while it is in the blocked queue, and only then.
BlockedIffExpecting ==
    main.pc = "select" =>
        \A e \in Fd : Queued(e, "blocked") <=>
                      \E i \in DOMAIN expecting : expecting[i].esi = e

\* Nobody waits for a free key unless an ESI that asked for it before is about to
\* ask again: a waiter is never forgotten.
NoLostWakeup ==
    main.pc = "select" /\ ~flag.update =>
        \A i \in DOMAIN expecting :
            \/ Locked(expecting[i].key)
            \/ \E e \in Fd : /\ esi[e].retry \/ esi[e].st \in InFlight
                             /\ esi[e].key = expecting[i].key
                             /\ Queued(e, "ready") \/ Queued(e, "execution")

\* The scheduler told the coordinator PROTOCOL_PC_KEY_UNLOCKED_SUCCESFULLY
\* (planificador.c:281): once the result of that STORE is processed, the ESI does
\* not hold the key any more.
StoreReleases ==
    main.pc = "select" =>
        \A e \in Fd : esi[e].st = "idle" /\ ~esi[e].retry /\ esi[e].op = "STORE" =>
                      ~Holds(e, esi[e].key)

\* The scheduler survives what its ESIs and its operator do.
NeverCrashes == alive

\* Scripts on one key cannot wait for each other in a circle: every ESI that
\* connects is eventually let go (update_blocked_esi_queue, reschedule).
EveryScriptEnds == \A e \in Fd : e \in open ~> e \notin open

\* The lock table implements KeyLocks: the owner of a key is that of its first entry.
OwnerOf(k) ==
    IF Locked(k) THEN locked[FirstOfKey(locked, k)].esi ELSE Freed
Locks == INSTANCE KeyLocks WITH
    Owner <- AnyEsi, Free <- Freed, System <- NoEsi,
    ConfigOwned <- ToSet(ConfigKeys),
    owner <- [k \in Key |-> OwnerOf(k)]
ImplementsKeyLocks == Locks!Spec

-----------------------------------------------------------------------------
(* Inductive invariants, for the proofs *)

\* Labels at which main() still works on the ESI whose result it received.
ServingExecuting ==
    \/ main.pc \in {"opcode", "burn", "corpses", "drain", "finish", "update", "unlock",
                   "unlocking", "news", "block", "filter", "blocking", "leftover", "preempt"}
    \/ main.pc = "release" /\ main.after \in {"opcode", "corpses", "finish"}

\* The locals of the main thread agree with the place it is at: what each label
\* dereferences exists (the paths of main(), release_resources and reschedule).
Control ==
    /\ main.pc = "select" => main = Idle
    /\ main.pc = "release" =>
           Known(main.esi) /\ main.after \in {"opcode", "corpses", "finish", "again"}
    /\ main.pc = "authorize" => main.esi \in Fd /\ queue["execution"] # <<>>
    /\ main.fin => main.ctx = "result" /\
           (\/ main.pc \in {"burn", "corpses", "drain", "finish"}
            \/ main.pc = "release" /\ main.after \in {"corpses", "finish"})
    /\ main.pc = "finish" \/ (main.pc = "release" /\ main.after = "finish") => main.fin
    /\ main.pc = "release" /\ main.after = "finish" => main.esi = executing
    /\ ServingExecuting /\ (\/ main.ctx = "result" \/ main.pc = "opcode"
                            \/ main.pc = "release" /\ main.after = "opcode")
           => executing \in Fd

\* The two together, since neither is kept without the other: main() appends
\* executing_esi to its queues and counts entries down without looking.
InControl == TypeOK /\ Control

\* An ESI that is authorized, executing its sentence, or gone and not yet buried.
Busy(e) ==
    \/ esi[e].st = "idle" /\ esi[e].orders > 0
    \/ esi[e].st \in InFlight \cup {"ok", "blocked", "gone"}

\* As long as no ESI process is cut, one sentence is in flight at a time, the
\* execution queue is not empty meanwhile, and main() serves its flags only between
\* two sentences: this is what makes the coordinator's two questions atomic.
Alternate ==
    /\ esi[Ghost].st = "off"
    /\ \A e \in Fd : /\ e \in open => esi[e].st # "off"
                     /\ esi[e].orders > 0 => esi[e].orders = 1 /\ esi[e].st \in {"idle", "gone"}
    /\ main.pc = "select" =>
           /\ \A e, f \in Fd : Busy(e) /\ Busy(f) => e = f
           /\ \A e \in Fd : Busy(e) => queue["execution"] # <<>>
    /\ main.pc # "select" =>
           \A e \in Fd : Busy(e) =>
               /\ esi[e].st = "gone"
               /\ \/ main.fin /\ main.pc # "finish" /\ e = executing
                  \/ main.pc = "release" /\ e = main.esi
    /\ \A e \in Fd : esi[e].st = "locking" => ~Locked(lastKey)

=============================================================================
