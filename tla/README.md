# TLA+ specifications of the Re-Distinto key-value store (TP-SO-1C-2018)

The repository implements a distributed key-value store in four C programs: a
scheduler (**Planificador**), a **Coordinador**, storage nodes (**Instancias**) and
script runners (**ESIs**). These modules model the part of it where the order of
events matters, TLC checks them on small instances, and TLAPS proves what is said
in "What is proved" for every value of the constants.

## The system

| Component | State | Operations | Talks to |
|---|---|---|---|
| Planificador, `planificador/planificador.c` | five queues of ESIs, table of locked keys, list of waiting ESIs, burst information, flags, `executing_esi`, `last_key_inquired`, `key_to_unlock` | one `select()` loop: new ESIs, questions of the coordinator, results of the executing ESI; between them it serves its flags and picks the next ESI | ESIs, Coordinador, console |
| Console, `planificador/consola.c` | three lists and three flags shared with the main thread, no lock | pausar, continuar, bloquear, desbloquear, kill, listar, status, deadlock | Planificador (shared memory), Coordinador (status) |
| ESI, `esi/esi.c` | position in its script | wait for an order, send a sentence, report the result | Planificador, Coordinador |
| Coordinador, `coordinador/` | list of instances with a request queue each, key table, pending message of the scheduler, semaphores | one thread per connection: ESI sentences, instance requests, scheduler messages | all |
| Instancia, `instancia/` | storage, entry table, key status table, replacement cursor | SET, STORE, value request, compaction, dump thread, recovery | Coordinador |
| Protocol and libraries, `protocolo/`, `libs/` | none | handshakes, packing, chunking, logs, configuration | all |

An ESI executes one sentence per order of the scheduler. It sends the sentence to
the coordinator, whose thread for that ESI asks the scheduler whether the key is
blocked, and by whom, and tells it to block or unblock it; SET and STORE are queued
for an instance, whose thread performs them and answers the ESI. The ESI reports to
the scheduler, which then serves whatever its flags ask for and authorizes the next
ESI. The console changes the flags at any time.

### What is hard

* The main thread and the console share lists and flags without a lock.
* A GET takes two messages (is it blocked? block it), and the coordinator's answer,
  the scheduler's tables and the ESI's death can interleave with them.
* `last_key_inquired`, `key_to_unlock`, `executing_esi` and the head of the execution
  queue are single variables that several handlers set and others rely on.
* Death is noticed late: an ESI's end of file is read only while it executes, a
  socket number is reused, and a sentence outlives the ESI that sent it.
* One waiter is woken per released key, and wakes others only by running.
* One function that fails (authorize) calls the function that called it (reschedule).
* An instance that dies is noticed by the thread that sends it a request. It may be back by
  then, with a thread of its own, and both take requests from one queue.
* The number of a closed socket is kept in the instance list and given to the next
  connection.

### What makes each part correct

* Planificador: an ESI is in one queue; one ESI executes; a key has one owner; the
  waiting list and the blocked queue agree; a waiter is woken when its key is
  released; the keys of an ESI go with it; nothing dereferences what is gone; scripts
  end; FIFO does not starve.
* Console: a command that was accepted is carried out.
* Coordinador: each ESI gets the answer to its own sentence, one answer per sentence;
  a request is not stranded when an instance leaves; a thread never waits for a
  message another one took; reconnection finds the instance it left.
* Instancia: an entry is never in two values; the table and the storage agree;
  replacement frees only atomic entries and stops; compaction keeps every value; the
  dump sees whole values.
* Deadlock detection: it ends, and reports exactly the cycles.

`PROJECT.json` lists the hazards line by line with the properties meant to catch them.

## Modules

| Module | What it is |
|---|---|
| `KeyLocks` | abstract: a key is free or has one owner, and is taken only while free |
| `Planificador` | the scheduler, its console, and the ESIs and coordinator messages it reacts to; implements `KeyLocks` |
| `SchedulerLink` | the words on the socket between coordinator and scheduler, and the semaphores on both sides |
| `Coordinador` | the coordinator's threads, instance list, request queues, key table and distribution, and instances that come and go |
| `Instancia` | a storage node: entry table, replacement algorithms, storage, compaction, dump, recovery |
| `DeadlockDetection` | the console's command deadlock: its walk, and what a deadlock is |
| `MCPlanificador`, `MCSchedulerLink`, `MCCoordinador`, `MCInstancia`, `MCDeadlockDetection` | constants and symmetry for TLC |
| `ListFacts` | lemmas about the list operators of the community modules |
| `Planificador_proofs`, `PlanificadorQueues_proofs`, `SchedulerLink_proofs`, `Coordinador_proofs`, `CoordinadorRequests_proofs`, `Instancia_proofs`, `DeadlockDetection_proofs` | the theorems about these modules |

The modules meet in what one assumes of the other. `Planificador` decides who owns a
key and that one sentence is in flight at a time; `SchedulerLink` and `Coordinador` assume
that. `SchedulerLink` shows that the answers the coordinator acts on are those to its own
questions. `Coordinador` takes of an instance that it has a set of keys and loses some
of them; `Instancia` shows which. `DeadlockDetection` fills the same two tables as
`Planificador`, without the steps in between.

### Planificador

An ESI is identified by its socket number (`Fd`), as in the code, and a socket may be
reused after `remove_fd`. The variables are the globals of `planificador.c`: `queue`
holds the four queues that are read (`finished` is only written), `locked` is
`g_locked_keys`, `expecting` is `g_esis_sexpecting_keys`, `info` counts the entries of an
ESI in `g_esi_bursts`, `flag` holds the int flags, `lastKey` is `last_key_inquired`
(`Freed` once it is freed), `req` is the three lists of the console.

`main` is the place of the main thread and the locals of the code it is in. Handlers
are cut where the console can intervene and where another connection's state matters:
serving the flags is a chain of steps in the order of `main()` (burn, release or update,
unlock, news, block, preempt, dispatch, authorize); a message of the coordinator or the
result of an ESI is one step, since nothing else reads or writes what it touches.
`release_resources` is one step per key held, over the list filtered at its start
(`main.snap`), because each key can wake an ESI and a flag set in between is lost.

The two contexts of that chain, after a result (`ctx = "result"`) and when nothing
executes (`ctx = "idle"`), differ where the two copies of the code differ. A NULL
dereference, a use after free of a key pointer, or `sem_wait` on the semaphore that only
the waiting thread would post is `Crash`; nothing happens after it.

An ESI process is `esi[e]`: the stage of its sentence, the operation and key, how
many orders it has not used, how many lines it executed. A sentence in flight goes
through the stages of `handle_esi_operation`: asking, locking, working (queued for an
instance), unlocking. When the ESI is gone but its sentence is in flight, the
coordinator's side continues as `Ghost`.

The estimates of SJF and HRRN are abstracted: `Eligible` lets every algorithm but FIFO
choose any ESI in ready. That covers every order the estimates can produce.

What may go wrong outside the scheduler is chosen by `Failures`: `"law"` (illegal
sentences, lines that do not parse, no instance), `"cut"` (an ESI process dies at any
moment, so that a sentence outlives it), `"handshake"` (a connection whose handshake
fails). `Commands` are the console commands used.

### SchedulerLink

The socket between the coordinator and the scheduler, at the level of single sends. A
`Thread` is a coordinator thread that has a sentence; its place in
`scheduler_recv_key_state`, `scheduler_block_key` or `scheduler_unblock_key` is `thread[t]`.
`reader` is `handle_scheduler_connection`, `pending` with `pendingSem` the slot through which
it hands an answer over, `recvSem` is `protocol_recv_sem`. `main` is the scheduler's main
thread inside one case of its switch over the coordinator's opcodes, `mutex` is
`mutex_coordinador`, `console` the status command. A word carries whom it is about, which
the programs do not know and the properties use. What the scheduler answers is open here:
`Planificador` decides it there.

`MaxInFlight` is 1: the scheduler orders a sentence only after the result of the one
before (`Alternate`, proved when no ESI process is cut). With two in flight
`AnswerReachesAsker` fails: both wait for the same semaphore.

### Instancia

One storage node, and of the coordinator what it believes of its keys (`known`: initialised
in its key table). `node` is a record of the globals: `table` is `entry_table`, a
function of keys because the list is sorted by entry number and the numbers differ;
`left` is `entries_left`; `status` is `entry_table_status_global`; `pointer` is
`algorithm_circular_pointer`; `data` is the storage; `fd`, `opened` and `disk` are the
dictionary of the dumper, what the process's descriptors refer to, and the files. `Fd` is
descriptor 0 and the numbers free at the start.

The operators take a node and return one, as the functions of the code change the
globals, so that `SetInRoom(Replace(n, c), k, value)` reads in the order of
`instance_set`. An action is one hold of `instance_mutex`: a request, the compaction
and second attempt that follow the answer COMPACT, one round of the dump thread.
`Restart` is `instance_init` with the recovery. The loops of the algorithms are folds over
the lines; `list_sort` leaves lines that compare equal in any order, so that LRU
and BSU return a set of choices. A loop of the code that ends when its counter
reaches 0 goes on when it is negative, and so do the folds.

A value is the key it was sent for and its size. The entries hold its parts, which is
what `ValuesIntact` needs. `last_referenced` is kept only under LRU, which alone reads it.
`strcmp` and `strcasecmp` are alike: no two keys differ only in case. The
coordinator stays connected.

### Coordinador

A connection of an instance is its socket number. `thread[s]` is the place of the thread in
`handle_instance_connection` with the request it serves; it has returned, and the number is
free, when `thread[s] = None`. `list` is `instance_list->elements`, `fd[n]` and `requests[n]`
are the fields of the node of instance n, `table` is the key table. `process[p]` is a
process that may be started under a name: its socket, whether it has its configuration, and
the keys in its memory; `disk[n]` is its mount point. `esi[e]` is the thread of an ESI inside
a SET or STORE, between `dispatch` and the answer.

The threads are cut at each lock they take and each point where something is sent or
received, because there an instance may die, reconnect or be spoken to by another
thread. What is between two such points is one step: popping a request and comparing
`fd`; a request and its answer, which hold `instance->lock`; `key_table_remove` and adding the
instance to those excluded; `dispatch`; pushing the request; the comparison before
`instance_list_remove`. `instance_list->lock` is held over several steps only by a thread that
waits for the answer to IS_ALIVE (`"test"`), `instance->lock` also by one that waits for the
answer to a request (`"wait"`); an answer that arrives at once is part of the step.

What is sent to a process before it has read its configuration is read as a part of that
(`config = "garbled"`), and the process answers no more. A second configuration is read
as a request, and ends the process. `Failures` chooses what else may go wrong: an instance
replaces keys (`"replace"`), compacts (`"compact"`), ends for lack of space (`"space"`), or
dies before its confirmation so that it cannot be sent (`"confirm"`); processes are killed
up to `MaxKills` times. Sizes of values, and the order of LSU with them, are abstracted:
LSU may choose any connected instance.

Left out: an ESI that is cut while its sentence is in flight, whose socket number could be
reused before the answer; the value of a key asked for by status; the scheduler's own
connection. `Letter` gives keys that start with a letter.

### DeadlockDetection

The tables of the scheduler, `g_locked_keys` (`owner`) and `g_esis_sexpecting_keys` (`expecting`
with the order `ahead`), are filled by what fills them in the code, one action for
each: GET, STORE, bloquear, desbloquear, the end of an ESI. Then `CheckDeadlock` starts the
command and the walk is one action per step from an ESI to the owner of the key it waits
for. The tables stand still meanwhile, which is an assumption: nothing in the code keeps
main() from changing them, but it has nothing to change once the operator has paused the
scheduler and the sentence in flight is over. The list of the
current chain is kept as its first member, its last and the set of all, which is
all that the walk reads; so a walk that never ends is a cycle of states, not an
infinite path.

`WaitsFor` defines waiting as the transitive closure, by the sets closed under the owner of
the key asked for, without recursion; `InDeadlock(e)` is `WaitsFor(e, e)`. The command does
what it should where it ends; it has two ways not to. It dereferences NULL if a chain
reaches a key without an owner (consola.c:303) or the system (consola.c:351), and it walks
for ever if an ESI that holds a key waits for a deadlock it is not in (consola.c:335),
while consola.h:22 says "Se encarga de detectar todos los deadlocks que hay en el momento
y los muestra". `CrashesOnlyOnNoEsi` and `EndsIfHarmless` say that there are no others.

## Runs

The runs of the first table use the module `MCPlanificador`. The bounds are `MaxArrivals` connections,
`MaxCommands` console commands and `MaxLines` sentences of a script; deadlock checking is
off because the system stops when the scripts are over and the operator is silent.

| Run | Instance | Shows |
|---|---|---|
| console | FIFO, 3 ESIs, 1 key locked by the configuration; desbloquear, pausar, illegal sentences | `OneQueue`, `BlockedIffExpecting`, `NoLostWakeup`, `Alternate`, `OneOwner`, refinement of `KeyLocks` |
| scripts | SJFCD, 2 ESIs, 1 key, scripts of up to 4 sentences, pausar, fair | `OneExecuting`, `StoreReleases`, `NeverCrashes`, `EveryScriptEnds` |
| failures | FIFO, 2 sockets and 3 connections; kill, bloquear; every failure | `InControl`, `OwnersAlive` |
| twice | SJFCD, 2 ESIs | `OneQueue` is violated, see "Findings" |

Two ESIs and one key suffice for the races between an owner, its successor and the
console; the third ESI of `console` is the second waiter, without which nobody can be
forgotten. Three connections on two sockets make a socket number come back. One
console command is enough to interleave with every step of every handler.

Each passing run states the conditions under which its properties hold; outside them
the properties fail, and the theorems on the queues, below, say what is needed for any instance. `NeverCrashes`
holds without kill, bloquear, failures of sockets and illegal sentences: with them main() looks up ESIs it has
forgotten. `OneQueue` and `BlockedIffExpecting` hold under FIFO without bloquear; `OneQueue` fails under SJFCD (run
twice). `StoreReleases` holds without kill: release_resources resets the flag of a STORE not yet served
(planificador.c:847). `OwnersAlive` holds with one console command and fails with two of bloquear and a process
that is cut: an ESI blocked on a key it holds is woken by its own death (planificador.c:893-909).
`NoLostWakeup` holds without kill: killing the ESI that was woken for a key leaves the others waiting for a
free key (planificador.c:777-848).

The runs of `MCSchedulerLink`:

| Run | Instance | Shows |
|---|---|---|
| slot | 2 threads, 4 sentences one at a time, 2 status commands, fair | `TypeOK`, `AnswerReachesAsker`, `SlotIsKept`, `OneToken`, `OwnerAnswered`, `InStep`, `SentenceEnds` |
| status | one sentence, one status, fair | `StatusShown` is violated |

Four sentences let both threads follow themselves and each other, so that a token or an
answer left over by one is met by the next; two status commands find the semaphore taken
and free. Beyond the first word out of step the scheduler's behaviour is not modelled
(`main.pc = "lost"`), so the invariants of slot say nothing after it. `InStep` and
`SentenceEnds` speak of behaviours in which no status was asked for; the run status shows
what becomes of the others.

The runs of `MCInstancia`, all with four entries of two bytes:

| Run | Instance | Shows |
|---|---|---|
| tables | 3 keys of one, two or three entries each, each algorithm, files, 5 requests, 1 kill | `TypeOK`, `EntriesDisjoint`, `EntriesCounted`, `ValuesIntact`, `CompactionPacks`, `EnoughForCompacted` |
| replacement | 4 keys that keep to one, two or three entries, each algorithm, no files, 8 requests, 1 kill | `StatusAgrees`, `OnlyAtomicReplaced`, `AcknowledgedUnlessBsu` |
| lostset | 3 keys of one, two or three entries each, each algorithm, no files, 4 requests | `AcknowledgedSet` is violated |
| files | 3 keys of 1 or 3 bytes, files, 5 requests | `FilesOwn` is violated |

Four entries are enough for keys of one and of two entries side by side, for two holes of
one with a key of two between them, so that only a compaction makes room, and for a value
that grows into its neighbour or needs a replacement first. Three requests fill the table, two more replace, resize or compact; random
walks of `tables` with 15 requests and 2 kills found nothing else. The runs without files
turn deadlock checking off, because a coordinator may stop sending requests.

`replacement` fixes how many entries each key needs because `StatusAgrees` and
`OnlyAtomicReplaced` fail for keys that outgrow an entry: entry_table_insert leaves their old line in
the status table (entry_table.c:64-72), and a later replacement deletes the key, which
is no longer atomic. It has no files because a recovery may give a key another key's
size (finding files).

`AcknowledgedUnlessBsu` needs the same of the keys, as `lostset` shows, and excludes BSU. What always holds is
weaker: a value answered OK stays (`AcknowledgedOk`, a theorem), and one answered COMPACT
is set if its entries were free (`EnoughForCompacted`, which `tables` checks).

The run of `MCCoordinador`:

| Run | Instance | Shows |
|---|---|---|
| instances | 2 names, 3 processes (two of one name), 1 key, 1 ESI, 3 sockets, LSU, 1 kill, every failure, fair | `TypeOK`, `InOnePlace`, `TriedOnce`, `FilesAreRecovered`, `NotDisplaced`, `LostByConfirmation`, `SentenceAnswered` |

Two names are what a second attempt needs, and a second process of one name is what can be
refused or take a place that is not free. Three sockets let a stale thread, the new one and
that of the other instance be there at once, and one kill makes a number come back. LSU,
whose order is open, may choose any connected instance, so that every choice of EL and KE
is one of its own. One sentence is in flight at a time, so that a second ESI or key would
only wait. The safety properties were also run with two kills and one kind of failure
at a time. Deadlock checking is off because a coordinator that waits for a process without a
configuration, with the lock of the list, stops (`Garbled`).

The run of `MCDeadlockDetection`:

| Run | Instance | Shows |
|---|---|---|
| shown | 3 ESIs, 3 keys, bloquear, desbloquear, fair | `TypeOK`, `ShowsTheDeadlocks`, `OneNumberEach`, `CrashesOnlyOnNoEsi`, `EndsIfHarmless` |

Three ESIs form a deadlock of three, one of two with an ESI that waits for it, and one
of an ESI with itself beside one of two, so that two deadlocks are numbered. Deadlock
checking is off because the dereference of NULL ends the scheduler.

### Fairness

`FairSpec` gives weak fairness to the main thread's steps between two selects, to
`GoIdle` (select has a timeout of one second, so the idle part runs repeatedly), to the
ESI's result and each ESI's sentence, to the coordinator's next message about each
sentence (it runs one thread per ESI and the instance answers), to the console's second
step and to continuar after pausar (the operator who pauses resumes one day). Arrivals, console commands and failures have none.
Weak fairness is enough: all these actions stay enabled until taken.

In `SchedulerLink` every thread runs on and what was sent arrives; a semaphore is waited
for by one thread at a time in the runs that need fairness, so weak fairness is enough. The
operator types when she likes.

In `Coordinador` every thread runs on and every answer arrives, or the connection breaks;
a process that is down is started again, and one whose connection the coordinator has
closed ends. The restart is needed: a request pushed to an instance whose death nobody has
noticed waits until it is back (instance-connection.c:95), and the code counts on the operator
to start it. Kills and what the ESIs send have no fairness. `SentenceAnswered` exempts
`Garbled`, where a thread waits with the list's lock for an answer that does not come, and a
socket number lost by a failed confirmation.

In `DeadlockDetection` the console's thread runs on inside its command.

### Findings

* **twice**: under SJFCD the executing ESI that has just blocked is also put in ready
  (planificador.c:386).
* **status**: the answer to a status command between the two questions of a sentence stops
  the scheduler on its own semaphore; between the sends of one question it is read as part
  of it (scheduler-connection.c:82 and :134, planificador.c:288).
* **lostset**: when a value grows, the room is judged by what it grows by, but the algorithms judge it by the
  whole value and replace nothing, which is taken for success; the old value is deleted, the SET has been
  answered as done, and both are lost (algorithms.c:249 and :254, instancia.c:165 and :412). With
  BSU alone TLC finds a second way: BSU replaces nothing when several atomic keys have one size and the free
  entries cover what is missing (algorithms.c:225).
* **files**: replacing a key that was never dumped closes descriptor 0; number 0 is then
  given to a file, closed again under it, and two keys write to one file
  (dumper.c:79).

## What is proved

The theorems are checked by TLAPS for any finite or infinite sets of ESIs, keys, instances and
processes (the keys of an instance are finitely many), any algorithm, any configuration and unbounded numbers of commands.

`Planificador_proofs`:

* `TypeCorrect`: `Spec => []InControl`, that is `TypeOK /\ Control`. `TypeOK` alone is not inductive: `Preempt`
  and `EsiFinished` append `executing_esi`, which may be -1, to a queue of sockets, and
  `ReleaseEnd` decreases the count of entries of an ESI. `Control` adds what main() knows at
  each of its lines: where it works on a result `executing_esi` is a socket, where it
  releases resources the ESI still has an entry, where it authorizes the execution
  queue is not empty. The proof has one lemma per group of actions.
* `OneOwnerCorrect`: if `"cut" \notin Failures` then `Spec => [](Alternate /\ OneOwner)`.
  `NextLocks` shows that a step leaves `locked` alone, takes one entry out, or appends a key
  nobody has; only BLOCK_KEY needs an argument, because it does not check. `Alternate` is
  the argument: at most one ESI is between its order and its result, main() serves its
  flags only when there is none, and between "not blocked" and BLOCK_KEY nobody takes the
  key. With a process cut in its sentence the alternation is lost, which is why the
  theorem excludes it.
* `LocksImplemented`: under the same assumption `Spec => ImplementsKeyLocks`, with the owner of a key
  in `locked` as the abstract owner. `OneOwner` makes that a function, and `NextLocks` makes each
  step a step of `KeyLocks` or a stutter.

`PlanificadorQueues_proofs` states the other invariants of `Planificador`, for any number of ESIs,
keys, sockets and commands. The program breaks each of them in some circumstances, so each theorem has
a condition; a condition names failures of sockets and scripts, commands of the console or an
algorithm, and bounds nothing. The invariants build on each other:

| Theorem | States | Condition | Invariant it adds |
|---|---|---|---|
| `OneExecutingCorrect` | `OneExecuting` | `Unbroken`: no failed handshake; not both SJFCD and kill | `ExecInv` |
| `QueuesCorrect` | `OneQueue`, `BlockedIffExpecting` | `Orderly`: no failed handshake, not SJFCD, no bloquear | `Talks`, `QueueInv` |
| `OwnersAliveCorrect` | `OwnersAlive` | `Undisturbed`: `Unbroken`, no process cut, no bloquear | `Owners` |
| `StoreReleasesCorrect` | `StoreReleases` | `Calm`: `Undisturbed`, no kill | `Stores` |
| `NoLostWakeupCorrect` | `NoLostWakeup` | `Calm` and `Orderly` | `Waking` |
| `NeverCrashesCorrect` | `NeverCrashes` | `Faultless`: `Calm`, `Orderly`, `Failures = {}` | `Surviving` |

* `ExecInv`. That the queue has one element does not say whose: the authorization that puts an ESI in the
  queue sets `executing_esi` only when it returns (`Turn`), and an ESI stays in the queue while
  `release_resources` buries it. `Rescheduling` is the argument: while somebody executes, the
  reschedule flag is up only between a new ESI, or a finished script, and the line of main() that
  empties the queue.
* `Talks` and `QueueInv`. Only the executing ESI has a sentence, so a message of the coordinator is
  about the head of the queue. An ESI is in one queue (`Apart`), all who are connected are in some
  queue when main() waits (`Present`), and the list of who waits is the blocked queue, except between
  the two lines that change one and then the other (`Waiting`).
* `Owners`. The keys of an ESI outlive it while release_resources works on its copy of the list: a key
  that is still with the ESI being buried is still in that copy.
* `Stores`. UNLOCK_KEY leaves a key in one variable with one flag; `Stores` follows it from the
  coordinator's message through the flag, the update, and the leftover of an ESI that finishes.
* `Waking`. Of those who wait for a key one is woken, so for each waiter the key is taken, or an ESI in
  ready or execution has still to ask for it (`Awake`). That needs three things: a waiter is an
  ESI that will send the same sentence again (`Retries`), the key the coordinator asked about is that of
  the sentence in flight until PROTOCOL_EP_I_AM_BLOCKED has used it (`Inquiry`), and whoever leaves has
  nothing in flight (`Leaving`).
* `Surviving`. Each pointer that main() follows is there: only who finished is buried, and is
  connected until then (`Finishing`); an announced key is allocated, and is a key of the executing ESI,
  until its flag is lowered (`Announced`); no script breaks the law (`Lawful`).

TLC shows on instances of two or three ESIs what the conditions leave out:

* `OneExecuting` fails after a failed handshake, and with SJFCD and kill together: `burn_esi_corpses`
  raises the reschedule flag when main() is past the line that takes the executing ESI back.
* `OneQueue` fails after a failed handshake, with bloquear, and with SJFCD (the run twice).
* `StoreReleases` fails with bloquear, which gives the key back to its ESI; when a process is
  cut, since its STORE is announced over that of the next ESI; and with kill, since burying an ESI
  lowers the flag (planificador.c:847).
* `NoLostWakeup` fails when the ESI that was woken is killed or cut before it asks again
  (planificador.c:797), with bloquear and with SJFCD. The others sleep on a free key until somebody
  takes it and releases it again.
* `NeverCrashes` fails with each of the conditions dropped and all others kept: law, cut,
  handshake, kill, bloquear, and SJFCD with three ESIs. The run scripts, which checks SJFCD, has
  two.
* `OwnersAlive` fails with two commands bloquear and a process that is cut. With one command the run
  failures finds no counterexample, nor has TLC found one for `BlockedIffExpecting` with bloquear, or for
  `StoreReleases` and `NoLostWakeup` with a failed handshake: there it is the invariant that needs
  the condition.

`SchedulerLink_proofs`:

* `TokenIsOne`: `Spec => []OneToken`, for any number of sentences in flight. Each step hands the token
  from one of its five places to the next; what has to be known besides is that a woken thread
  is waiting (`ThreadTyped`) and that the two sets of threads are finite.
* `LinkTypeCorrect`, `AnswersReachTheirThread`, `SlotKept`, `OwnersAnswered`, `StaysInStep` and `NeverExits`:
  if `MaxInFlight <= 1` then `Spec => []P`, for `TypeOK`, `AnswerReachesAsker`, `SlotIsKept`,
  `OwnerAnswered`, `InStep` and `running`. All come from one invariant, `LinkInv`, which adds to the
  token where the one sentence is (`Conversation`): its question is on its way to the scheduler, or
  half read there, or answered on the socket, or answered in the slot, and the queues have no other
  word of a thread. The words of the console may stand anywhere between them, so the lemmas on
  queues (`QueueGrows`, `QueueShrinks`) speak of the words that are not the console's. The part
  about `mutex_coordinador` (`MutexTaken`) is what makes reading the socket without the
  reader right: from the sending of KEY_IS_BLOCKED to the second question nobody can write. That there
  is one sentence at a time is `Alternate` of `Planificador`, proved when no ESI process is
  cut (`OneOwnerCorrect`). Without it `AnswerReachesAsker` and `SlotIsKept` do not hold.

`DeadlockDetection_proofs`:

* `DetectorCorrect`: `Spec => [](TypeOK /\ ShowsTheDeadlocks /\ OneNumberEach /\
  CrashesOnlyOnNoEsi)`. The invariant says that the owners of keys are in the system
  (`OwnersKnown`), that the chain leads from its first ESI through all its members to its last
  (`Chain`), that what has been decided of an ESI is right (`Decided`), that equal numbers mean
  waiting for each other (`Numbered`), and that the table is shown when everybody has been
  decided (`AllAnalyzed`). The first part of the proof is about waiting itself: it is
  transitive, the first step decides it since an ESI waits for one key, and inside a
  deadlock it can be turned round. So a chain that comes back to its first ESI has
  only ESIs of that deadlock, all of them, and a chain that ends has none of any.

`Coordinador_proofs`, from one invariant, `Typed /\ Connected`:

* `CoordinatorTypes`: `Spec => []TypeOK`. It needs `RequestsAtHand`: a thread that serves has the
  request it serves and, when it pushes it on, an instance to push it to.
* `ConnectionsKept`: `Spec => NotDisplaced`. `Connected` is the argument: a thread that failed has been
  connected, and if the instance still has its socket, nobody is at the other end.
  Only `Add`, `TestFails` and `Check` change a socket number; the first two look whether the
  process is there.
* `OnlyByConfirmation`: `Spec => LostByConfirmation`, and `NumbersAreOwn`: if `"confirm" \notin Failures`
  then `Spec => []OwnSocket`. A step carries each thread on, or connects, gives an instance a
  socket, or returns (`StepsSplit`); of those that return `Refuse` was not connected, `Pop` was
  replaced, `Check` gives the number up, and `ConfirmFails` is the hole.

`CoordinadorRequests_proofs`, from `Typed`, `Connected` and two more parts, `Alone /\ LooksElsewhere`:

* `RequestsInOnePlace`: `Spec => []InOnePlace`. `Alone` strengthens it by what one sentence at a
  time amounts to: there is no request (`Nowhere`), or one queue has one and nobody
  serves (`InQueue`), or one thread has it and every queue is empty (`WithThread`). `InOnePlace` by
  itself does not say that the queue a failed SET is pushed to is empty, nor that a
  request with a thread is never that of an ESI that does not wait.
* `NeverTriedTwice`: `Spec => []TriedOnce`. `LooksElsewhere` adds that the key of a failed SET is
  out of the table until another instance is found, since `dispatch` answers the one in the table
  without looking at those excluded. That nobody puts it back meanwhile is again `Alone`.
* `RestartsRecover`: `Spec => []FilesAreRecovered`, from three parts more. `Routed`: a request that is
  served, queued or about to be pushed is with the instance that the table has for its key, or on its
  way to it; it is inductive only with `Alone`, for a second request could move the key meanwhile.
  `Placed`: a row without an instance has no value. `Recovered` speaks of processes instead of
  instances: one that has its configuration is addressed by the number of some instance, and if only
  that of its own name addresses it (`OnlyItsOwn`), it has every key that it is expected to have
  (`Informed`). `FilesAreRecovered` is not inductive for two reasons: the row of a key whose instance
  compacts is initialised only after the file is there (so `Expected` counts it from the moment it is
  set), and `OwnSocket` may fail and hold again later, with a process that was configured under the
  name of another instance in between. `OnlyItsOwn` survives that: numbers of a process that runs are
  not given up (`LiveBefore`, from the argument of `ConnectionsKept`), so that one that has
  been addressed by two instances never again is addressed only by its own.

`Instancia_proofs`, for any finite number of keys, any number of entries and any sizes:

* `InstanciaTypes`, `EntriesAreDisjoint`, `EntriesAreCounted`, `ValuesAreIntact`, `OkIsKept`:
  `Spec => []P` for `TypeOK`, `EntriesDisjoint`, `EntriesCounted`, `ValuesIntact` and
  `AcknowledgedOk`, under each algorithm, with files, kills and recoveries and without a condition. All come
  from `NodeInv`, whose core is that the node is in order (`Sound`). Besides the four properties that says that a
  line ATOMIC names a key, so that a replacement deletes keys (`AtomicNamed`), and that a
  descriptor in use is stdin's or a key's, so that open() finds a number (`DescriptorsOwned`).
  `Waiting` adds that the key that waits for a compaction is not in the table. The operators take a node
  to a node, and so do the lemmas: `InRoomSound`, `ReplaceSound`, `SetSound`, `CompactPacking`,
  `StoreKeyValueSound`, `RecoverSound` say of each function that it leaves a node in order, whatever
  the status table says and whatever it answers. The centre is `NextEntryFree`: where
  entry_table_next_entry puts a value, in place or in a hole, the entries are free or its own.
* `CompactionIsPacking`: `Spec => CompactionPacks`. After each round the keys moved so far fill the
  entries from 0 to where the last of them ends, and the others are behind (`RoundPacks`).
* `SecondAttemptSucceeds`: `Spec => EnoughForCompacted`, since after a compaction what is free is one
  hole.
* `TablesAgree`, and from it `StatusFollowsTable` and `ReplacedAreAtomic`: if each key has only values that fit
  in one entry or only values that do not (`KindsApart`), and nothing is persisted, then
  `Spec => []StatusAgrees` and `Spec => OnlyAtomicReplaced`. Neither property is inductive.
  entry_table_status_delete_kv blanks the first lines that name the key, so what has to be known is that
  no line before its own names an atomic key: old lines of a key that moved are behind it, because a
  hole is taken from the front (`HoleBefore`). A line that was given up says USED until somebody
  writes over it, so its entry has to be free; and the list of keys replaced by the first attempt, which the
  second deletes again, must not name a key that is back (`AgreeInv`).
* `AnsweredIsKept`: if the values of a key need one number of entries (`SameEntries`, which implies
  `KindsApart`) and nothing is persisted, then `Spec => []AcknowledgedUnlessBsu`. Circular and LRU give up as many
  lines as entries are missing, or all there are (`Balanced`, `Exhausted`): LRU comes to every line, and the
  cursor comes round to those before it. There are at least as many lines ATOMIC as atomic keys
  (`AtomicLines`), which is what new_value_fits counts, so the deletion of their keys makes
  the room (`ReplaceMakesRoom`); COMPACT then leaves it free (`WaitingFits`), and
  `SecondAttemptSucceeds` does the rest.

What the conditions leave out: without `KindsApart` a value that outgrew its entry is replaced (TLC finds
it with sizes 1 and 3 for each key). Without `SameEntries`, and under BSU, `AcknowledgedSet` is violated (finding
lostset). With files a key may be recovered with the value of another (the run files), whose
size it need not have; on instances like that of `replacement` with files and 6 requests TLC finds
no counterexample, so there it is the invariant that needs the condition.

The lists are the sequences of the community modules; `ListFacts` proves what
`SelectInSeq`, `RemoveFirstMatch` and `RemoveFirst` return, starting from the existence of a
least index, which rests on the well-foundedness of `<` on the naturals. Its last part reads a list as
the set of its elements: what is in it after an append, a removal by index or by value, a concatenation
or the loss of its first elements, and when no element is in it twice. A fold of the community modules is
a function of subsets that is chosen by its recursive definition: `FoldHasOutcome` and `LoopHasOutcome` show that
there is one, and `UpTo` is the induction over its rounds, for a set instead of an operator.

Only model-checked:

* the invariants of `Planificador` where the conditions above do not hold: `OneExecuting`,
  `StoreReleases` and `NeverCrashes` are checked with SJFCD in the run scripts;
* `EveryScriptEnds`, `SentenceEnds`, `SentenceAnswered` and `EndsIfHarmless`, since liveness under
  fairness is out of TLAPS's reach.


## Not modelled

* Estimates and waiting times, except that they may order ready in any way.
* kaboom_baby: the scheduler ends when the coordinator's connection breaks.
* Torn reads and writes of the lists the console shares: an append and an iteration are
  atomic.
* A kill in the middle of a dump, and what the dump thread does while the process ends.
* Byte packing, sockets' partial sends, logging, configuration parsing.
* In `Coordinador`: an ESI cut in its sentence, the value shown by status
  (scheduler-connection.c:192 calls strlen on the NULL of a key that was replaced), keys that
  do not start with a letter, partial sends.
* In `DeadlockDetection`: tables that change while the command walks over them.

## Plan

Every component that holds state is modelled, the protocol and the libraries are not. What would
add most now:

1. A composition of `Coordinador` with an ESI that is cut in its sentence, where the answer goes to
   whoever has its socket number by then.
2. Weaker conditions: `Instancia` with files, as long as none holds the value of another key;
   `OwnersAlive` when a process is cut or the operator uses bloquear; and the queues under SJFCD, where an ESI may
   be in blocked and in ready at once.
