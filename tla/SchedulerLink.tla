--------------------------- MODULE SchedulerLink ---------------------------
(***************************************************************************)
(* The one socket between the coordinator and the scheduler.  On the       *)
(* coordinator's side the threads of the ESIs and of the instances write   *)
(* it, the thread of the scheduler's connection reads it, and an answer    *)
(* goes from that thread to the one that waits for it through a single     *)
(* slot and two semaphores.  On the scheduler's side the main thread       *)
(* answers and the console's command "status" writes too; they share       *)
(* mutex_coordinador.                                                      *)
(*                                                                         *)
(* A word of the socket is what one send() writes.  What the scheduler     *)
(* answers is the matter of Planificador: here any answer is possible.     *)
(***************************************************************************)
EXTENDS Naturals, Sequences, FiniteSets

CONSTANTS
    Thread,        \* the coordinator's threads with a sentence of some ESI
    Status,        \* the console's request, as the subject of a word
    MaxInFlight,   \* bound: sentences at a time (1 unless an ESI process is cut)
    MaxSentences,  \* bound: sentences
    MaxStatus      \* bound: status commands

ASSUME LinkAssumption ==
    /\ Status \notin Thread
    /\ MaxInFlight \in Nat /\ MaxSentences \in Nat /\ MaxStatus \in Nat

VARIABLES
    toScheduler, toCoordinator,  \* the words under way
    mutex,       \* mutex_coordinador, a semaphore
    main,        \* the scheduler's main thread in the coordinator's switch
    console,     \* the console thread in key_status
    asked, shown, \* status commands sent and answered
    recvSem,     \* protocol_recv_sem
    pendingSem,  \* pending_protocol_sem
    pending,     \* pending_protocol
    reader,      \* handle_scheduler_connection
    thread,      \* each sentence in scheduler_recv_key_state, _block_key, _unblock_key
    sentences,
    running      \* FALSE once scheduler_exit() ends the coordinator

scheduler   == <<mutex, main, console, asked, shown>>
coordinator == <<recvSem, pendingSem, pending, reader, thread, sentences, running>>
vars == <<toScheduler, toCoordinator, scheduler, coordinator>>

-----------------------------------------------------------------------------

Question == {"IS_THIS_KEY_BLOCKED", "IS_KEY_BLOCKED_BY_EXECUTING_ESI", "BLOCK_KEY",
             "UNLOCK_KEY", "KEY_STATUS"}
Answer   == {"KEY_IS_BLOCKED", "KEY_IS_NOT_BLOCKED", "KEY_BLOCKED_BY_EXECUTING_ESI",
             "KEY_NOT_BLOCKED_BY_EXECUTING_ESI", "KEY_BLOCKED_SUCCESFULLY",
             "KEY_UNLOCKED_SUCCESFULLY"}
OwnerAnswer == {"KEY_BLOCKED_BY_EXECUTING_ESI", "KEY_NOT_BLOCKED_BY_EXECUTING_ESI"}
Subject  == Thread \cup {Status}
Word     == [kind : Question \cup Answer \cup {"body"}, of : Subject]
Waiting  == {"asked", "blocking", "unlocked"}   \* in scheduler_pending_protocol_recv
Place    == Waiting \cup {"idle", "asking", "direct", "free", "own", "unlocking"}

W(kind, of) == [kind |-> kind, of |-> of]

TypeOK ==
    /\ toScheduler \in Seq(Word) /\ toCoordinator \in Seq(Word)
    /\ mutex \in 0..1
    /\ main \in [pc : {"select", "wait", "body", "lost"}, op : Question, of : Subject]
    /\ console \in {"idle", "locked"}
    /\ asked \in Nat /\ shown \in Nat
    /\ recvSem \in 0..1 /\ pendingSem \in 0..1
    /\ pending \in Word
    /\ reader \in {"wait", "recv", "status", "state"}
    /\ thread \in [Thread -> [pc : Place, woken : BOOLEAN]]
    /\ sentences \in Nat
    /\ running \in BOOLEAN

Init ==
    /\ toScheduler = <<>> /\ toCoordinator = <<>>
    /\ mutex = 1
    /\ main = [pc |-> "select", op |-> "KEY_STATUS", of |-> Status]
    /\ console = "idle"
    /\ asked = 0 /\ shown = 0
    /\ recvSem = 1 /\ pendingSem = 0
    /\ pending = W("body", Status)
    /\ reader = "wait"
    /\ thread = [t \in Thread |-> [pc |-> "idle", woken |-> FALSE]]
    /\ sentences = 0
    /\ running = TRUE

-----------------------------------------------------------------------------
(* The coordinator: a thread with a sentence *)

At(t, pc) == running /\ thread[t].pc = pc
GoTo(t, pc) == thread' = [thread EXCEPT ![t] = [pc |-> pc, woken |-> FALSE]]
Send(kind, t) == toScheduler' = Append(toScheduler, W(kind, t))

InFlight == {t \in Thread : thread[t].pc # "idle"}

\* scheduler_recv_key_state: the opcode and the key are sends of their own
Ask(t) ==
    /\ At(t, "idle")
    /\ Cardinality(InFlight) < MaxInFlight /\ sentences < MaxSentences
    /\ Send("IS_THIS_KEY_BLOCKED", t)
    /\ GoTo(t, "asking")
    /\ sentences' = sentences + 1
    /\ UNCHANGED <<toCoordinator, scheduler, recvSem, pendingSem, pending, reader, running>>

SendKey(t) ==
    /\ \/ At(t, "asking") /\ GoTo(t, "asked")
       \/ At(t, "unlocking") /\ GoTo(t, "unlocked")
    /\ Send("body", t)
    /\ UNCHANGED <<toCoordinator, scheduler, recvSem, pendingSem, pending, reader,
                   sentences, running>>

\* scheduler_pending_protocol_recv: sem_wait, then read the slot
Wake(t) ==
    /\ running /\ thread[t].pc \in Waiting /\ ~thread[t].woken
    /\ pendingSem > 0
    /\ pendingSem' = pendingSem - 1
    /\ thread' = [thread EXCEPT ![t].woken = TRUE]
    /\ UNCHANGED <<toScheduler, toCoordinator, scheduler, recvSem, pending, reader,
                   sentences, running>>

\* the answer to the first question; anything else ends the coordinator
ReadState(t) ==
    /\ At(t, "asked") /\ thread[t].woken
    /\ IF pending.kind = "KEY_IS_NOT_BLOCKED"
       THEN recvSem' = recvSem + 1 /\ GoTo(t, "free") /\ UNCHANGED <<toScheduler, running>>
       ELSE /\ UNCHANGED recvSem
            /\ IF pending.kind = "KEY_IS_BLOCKED"
               THEN /\ Send("IS_KEY_BLOCKED_BY_EXECUTING_ESI", t)
                    /\ GoTo(t, "direct")
                    /\ UNCHANGED running
               ELSE running' = FALSE /\ UNCHANGED <<toScheduler, thread>>
    /\ UNCHANGED <<toCoordinator, scheduler, pendingSem, pending, reader, sentences>>

\* the answer to the second question is read from the socket, without the reader
ReadOwner(t) ==
    /\ At(t, "direct") /\ toCoordinator # <<>>
    /\ toCoordinator' = Tail(toCoordinator)
    /\ LET kind == Head(toCoordinator).kind IN
       IF kind \in OwnerAnswer
       THEN /\ recvSem' = recvSem + 1
            /\ GoTo(t, IF kind = "KEY_BLOCKED_BY_EXECUTING_ESI" THEN "own" ELSE "idle")
            /\ UNCHANGED running
       ELSE running' = FALSE /\ UNCHANGED <<recvSem, thread>>
    /\ UNCHANGED <<toScheduler, scheduler, pendingSem, pending, reader, sentences>>

\* mutant: nobody looks at the answer to BLOCK_KEY, so nobody waits for it
BlockKeyWithoutAnswer(t) ==
    /\ At(t, "free")
    /\ Send("BLOCK_KEY", t) \/ UNCHANGED toScheduler
    /\ GoTo(t, "idle")
    /\ UNCHANGED <<toCoordinator, scheduler, recvSem, pendingSem, pending, reader,
                   sentences, running>>

\* mutant: BLOCK_KEY is sent with its key, as the other requests are
BlockKeyWithName(t) ==
    /\ At(t, "free")
    /\ \/ /\ toScheduler' = toScheduler \o <<W("BLOCK_KEY", t), W("body", t)>>
          /\ GoTo(t, "blocking")
       \/ GoTo(t, "idle") /\ UNCHANGED toScheduler
    /\ UNCHANGED <<toCoordinator, scheduler, recvSem, pendingSem, pending, reader,
                   sentences, running>>

\* a GET of a free key blocks it; a SET or STORE without its GET is illegal
BlockKey(t) ==
    /\ At(t, "free")
    /\ \/ Send("BLOCK_KEY", t) /\ GoTo(t, "blocking")
       \/ GoTo(t, "idle") /\ UNCHANGED toScheduler
    /\ UNCHANGED <<toCoordinator, scheduler, recvSem, pendingSem, pending, reader,
                   sentences, running>>

\* a STORE that its instance performed unblocks the key; the other sentences end
UnblockKey(t) ==
    /\ At(t, "own")
    /\ \/ Send("UNLOCK_KEY", t) /\ GoTo(t, "unlocking")
       \/ GoTo(t, "idle") /\ UNCHANGED toScheduler
    /\ UNCHANGED <<toCoordinator, scheduler, recvSem, pendingSem, pending, reader,
                   sentences, running>>

\* mutant: the answer is read and protocol_recv_sem is not posted
AcknowledgedWithoutPost(t) ==
    /\ At(t, "blocking") \/ At(t, "unlocked")
    /\ thread[t].woken
    /\ GoTo(t, "idle")
    /\ UNCHANGED <<toScheduler, toCoordinator, scheduler, recvSem, pendingSem, pending,
                   reader, sentences, running>>

\* scheduler_block_key, scheduler_unblock_key: nobody looks at the answer
Acknowledged(t) ==
    /\ At(t, "blocking") \/ At(t, "unlocked")
    /\ thread[t].woken
    /\ recvSem' = recvSem + 1
    /\ GoTo(t, "idle")
    /\ UNCHANGED <<toScheduler, toCoordinator, scheduler, pendingSem, pending, reader,
                   sentences, running>>

-----------------------------------------------------------------------------
(* The coordinator: handle_scheduler_connection *)

ReaderWait ==
    /\ running /\ reader = "wait" /\ recvSem > 0
    /\ recvSem' = recvSem - 1
    /\ reader' = "recv"
    /\ UNCHANGED <<toScheduler, toCoordinator, scheduler, pendingSem, pending, thread,
                   sentences, running>>

\* mutant: protocol_recv_sem is posted after every message
ReaderRecvAndPost ==
    /\ running /\ reader = "recv" /\ toCoordinator # <<>>
    /\ toCoordinator' = Tail(toCoordinator)
    /\ IF Head(toCoordinator).kind = "KEY_STATUS"
       THEN reader' = "status" /\ UNCHANGED <<recvSem, pendingSem, pending>>
       ELSE /\ pending' = Head(toCoordinator) /\ pendingSem' = pendingSem + 1
            /\ recvSem' = recvSem + 1 /\ reader' = "wait"
    /\ UNCHANGED <<toScheduler, scheduler, thread, sentences, running>>

ReaderRecv ==
    /\ running /\ reader = "recv" /\ toCoordinator # <<>>
    /\ toCoordinator' = Tail(toCoordinator)
    /\ IF Head(toCoordinator).kind = "KEY_STATUS"
       THEN reader' = "status" /\ UNCHANGED <<pendingSem, pending>>
       ELSE /\ pending' = Head(toCoordinator) /\ pendingSem' = pendingSem + 1
            /\ reader' = "wait"
    /\ UNCHANGED <<toScheduler, scheduler, recvSem, thread, sentences, running>>

\* scheduler_send_key_status: the opcode, then the state of the key
SendStatus ==
    /\ running
    /\ \/ /\ reader = "status" /\ reader' = "state"
          /\ Send("KEY_STATUS", Status) /\ UNCHANGED recvSem
       \/ /\ reader = "state" /\ reader' = "wait"
          /\ Send("body", Status) /\ recvSem' = recvSem + 1
    /\ UNCHANGED <<toCoordinator, scheduler, pendingSem, pending, thread, sentences, running>>

-----------------------------------------------------------------------------
(* The scheduler's main thread *)

Reply(kind, of) == toCoordinator' = Append(toCoordinator, W(kind, of))

\* the opcode; the second question alone is answered without taking the semaphore,
\* which the first one left taken
Receive ==
    /\ running /\ main.pc = "select" /\ toScheduler # <<>>
    /\ toScheduler' = Tail(toScheduler)
    /\ LET w == Head(toScheduler) IN
       \/ /\ w.kind = "body"   \* not an opcode: what follows is out of step
          /\ main' = [main EXCEPT !.pc = "lost"]
          /\ UNCHANGED <<toCoordinator, mutex>>
       \/ /\ w.kind = "IS_KEY_BLOCKED_BY_EXECUTING_ESI"
          /\ \E answer \in OwnerAnswer : Reply(answer, w.of)
          /\ mutex' = mutex + 1
          /\ UNCHANGED main
       \/ /\ w.kind \notin {"body", "IS_KEY_BLOCKED_BY_EXECUTING_ESI"}
          /\ main' = [pc |-> "wait", op |-> w.kind, of |-> w.of]
          /\ UNCHANGED <<toCoordinator, mutex>>
    /\ UNCHANGED <<console, asked, shown, coordinator>>

\* sem_wait(&mutex_coordinador); BLOCK_KEY has no argument and is answered at once
Lock ==
    /\ running /\ main.pc = "wait" /\ mutex > 0
    /\ IF main.op = "BLOCK_KEY"
       THEN /\ Reply("KEY_BLOCKED_SUCCESFULLY", main.of)
            /\ main' = [main EXCEPT !.pc = "select"]
            /\ UNCHANGED mutex
       ELSE /\ main' = [main EXCEPT !.pc = "body"]
            /\ mutex' = mutex - 1
            /\ UNCHANGED toCoordinator
    /\ UNCHANGED <<toScheduler, console, asked, shown, coordinator>>

Body ==
    /\ running /\ main.pc = "body" /\ toScheduler # <<>>
    /\ toScheduler' = Tail(toScheduler)
    /\ IF Head(toScheduler) # W("body", main.of)
       THEN /\ main' = [main EXCEPT !.pc = "lost"]
            /\ UNCHANGED <<toCoordinator, mutex, shown>>
       ELSE /\ main' = [main EXCEPT !.pc = "select"]
            /\ \/ /\ main.op = "IS_THIS_KEY_BLOCKED"
                  /\ \/ Reply("KEY_IS_BLOCKED", main.of) /\ UNCHANGED mutex
                     \/ Reply("KEY_IS_NOT_BLOCKED", main.of) /\ mutex' = mutex + 1
                  /\ UNCHANGED shown
               \/ /\ main.op = "UNLOCK_KEY"
                  /\ Reply("KEY_UNLOCKED_SUCCESFULLY", main.of)
                  /\ mutex' = mutex + 1
                  /\ UNCHANGED shown
               \/ /\ main.op = "KEY_STATUS"
                  /\ shown' = shown + 1
                  /\ mutex' = mutex + 1
                  /\ UNCHANGED toCoordinator
    /\ UNCHANGED <<console, asked, coordinator>>

-----------------------------------------------------------------------------
(* The console: key_status *)

\* mutant: the console does not take the semaphore
StatusWithoutLock ==
    /\ running /\ console = "idle" /\ asked < MaxStatus
    /\ console' = "locked"
    /\ UNCHANGED <<toScheduler, toCoordinator, mutex, main, asked, shown, coordinator>>

StatusLock ==
    /\ running /\ console = "idle" /\ asked < MaxStatus /\ mutex > 0
    /\ mutex' = mutex - 1
    /\ console' = "locked"
    /\ UNCHANGED <<toScheduler, toCoordinator, main, asked, shown, coordinator>>

StatusSend ==
    /\ running /\ console = "locked"
    /\ Reply("KEY_STATUS", Status)
    /\ mutex' = mutex + 1
    /\ asked' = asked + 1
    /\ console' = "idle"
    /\ UNCHANGED <<toScheduler, main, shown, coordinator>>

-----------------------------------------------------------------------------

Sentence(t) ==
    \/ SendKey(t) \/ Wake(t) \/ ReadState(t) \/ ReadOwner(t)
    \/ BlockKey(t) \/ UnblockKey(t) \/ Acknowledged(t)
Reader == ReaderWait \/ ReaderRecv \/ SendStatus
Main == Receive \/ Lock \/ Body

Next ==
    \/ \E t \in Thread : Ask(t) \/ Sentence(t)
    \/ Reader \/ Main
    \/ StatusLock \/ StatusSend

Spec == Init /\ [][Next]_vars

FairSpec ==
    /\ Spec
    /\ WF_vars(Reader) /\ WF_vars(Main) /\ WF_vars(StatusSend)
    /\ \A t \in Thread : WF_vars(Sentence(t))

-----------------------------------------------------------------------------
(* Properties *)

AnswerTo(pc) ==
    CASE pc = "asked"    -> {"KEY_IS_BLOCKED", "KEY_IS_NOT_BLOCKED"}
      [] pc = "blocking" -> {"KEY_BLOCKED_SUCCESFULLY"}
      [] pc = "unlocked" -> {"KEY_UNLOCKED_SUCCESFULLY"}

\* Only the thread that waits for an answer can take it from the slot.
AnswerReachesAsker ==
    pendingSem > 0 =>
        \A t \in Thread : thread[t].pc \in Waiting /\ ~thread[t].woken => pending.of = t

\* The slot is not overwritten between the wake-up of a thread and its reading, and
\* what is in it answers the question of that thread: scheduler_exit() is not reached.
SlotIsKept ==
    \A t \in Thread : thread[t].woken =>
        /\ pending.of = t
        /\ pending.kind \in AnswerTo(thread[t].pc)
        /\ pendingSem = 0

\* protocol_recv_sem is a token: whoever has it, in one form or another, is the only
\* one that may read the socket or that an answer is on its way to.
OneToken ==
    recvSem + pendingSem
      + (IF reader = "wait" THEN 0 ELSE 1)
      + Cardinality({t \in Thread : thread[t].woken})
      + Cardinality({t \in Thread : thread[t].pc = "direct"}) = 1

\* A thread that reads the socket itself finds the answer to its own question: the
\* semaphore that the first question left taken keeps the console's request out.
OwnerAnswered ==
    \A t \in Thread : thread[t].pc = "direct" /\ toCoordinator # <<>> =>
        Head(toCoordinator).of = t /\ Head(toCoordinator).kind \in OwnerAnswer

\* As long as the console has not asked for a status, the scheduler reads an opcode
\* where one was written, and its argument after it.
InStep == asked = 0 => main.pc # "lost"

\* Every sentence gets through its questions, unless the console asks for a status.
SentenceEnds ==
    \A t \in Thread : thread[t].pc # "idle" ~> thread[t].pc = "idle" \/ asked > 0

\* consola.h:34: the scheduler receives the state of the key it asked for and shows it.
StatusShown == \A n \in 1..MaxStatus : asked >= n ~> shown >= n
=============================================================================
