-------------------------- MODULE DeadlockDetection --------------------------
(***************************************************************************)
(* The command "deadlock" of the scheduler's console: the walk of          *)
(* detect_and_show_all_deadlocks from an ESI to the owner of the key it    *)
(* waits for, and the two tables it walks over, as the handlers of         *)
(* planificador.c fill them.  The tables do not change during a walk: the  *)
(* operator has paused the scheduler.                                      *)
(*                                                                         *)
(* An ESI is its number of arrival, which orders g_esi_bursts.  The list   *)
(* current_esi_cycle is its first ESI, its last one and the set of all of  *)
(* them, so that a walk that never ends comes back to the same state.      *)
(***************************************************************************)
EXTENDS Integers

CONSTANTS
    MaxEsi,      \* ESIs that connect
    Key,         \* the keys of their scripts
    ConfigKeys,  \* setup.blocked_keys
    None,        \* the owner of a free key, the request of an ESI that waits for none
    Commands     \* what the operator types besides "deadlock"

ASSUME MaxEsiAssumption == MaxEsi \in Nat \ {0}
ASSUME KeyAssumption == ConfigKeys \subseteq Key
ASSUME NoneAssumption == None \notin Int \cup Key
ASSUME CommandsAssumption == Commands \subseteq {"bloquear", "desbloquear"}

VARIABLES
    owner,      \* g_locked_keys
    expecting,  \* g_esis_sexpecting_keys: the key that each ESI waits for,
    ahead,      \* and its order: who of those that wait for one key is ahead of whom
    esis,       \* g_esi_bursts
    pc,         \* the console: at its prompt, or inside the command
    state,      \* esi_state of all_esis_in_system
    first, last, cycle,  \* current_esi_cycle, esi_id
    number      \* deadlock_number

tables == <<owner, expecting, ahead, esis>>
walk == <<state, first, last, cycle, number>>
vars == <<tables, pc, walk>>

Esi == 1 .. MaxEsi
System == -1
Party == Esi \cup {System}

TypeOK ==
    /\ owner \in [Key -> Party \cup {None}]
    /\ expecting \in [Esi -> Key \cup {None}]
    /\ ahead \subseteq Esi \X Esi
    /\ esis \subseteq Esi
    /\ pc \in {"prompt", "pick", "follow", "shown", "crash"}
    /\ state \in [Esi -> {-1} \cup Nat]
    /\ first \in Esi /\ last \in Party /\ cycle \subseteq Party
    /\ number \in Nat

Init ==
    /\ owner = [k \in Key |-> IF k \in ConfigKeys THEN System ELSE None]
    /\ expecting = [e \in Esi |-> None]
    /\ ahead = {}
    /\ esis = Esi
    /\ pc = "prompt"
    /\ state = [e \in Esi |-> 0]
    /\ first = 1 /\ last = 1 /\ cycle = {}
    /\ number = 0

-----------------------------------------------------------------------------
(* The tables.  An ESI that waits for nothing is in ready or executes. *)

Asks(e) == e \in Esi /\ expecting[e] # None

Request(e) == expecting[e]

Holds(e) == \E k \in Key : owner[k] = e

\* the ESIs that unlock_esi wakes, at most one for each key
Woken(K) ==
    {e \in Esi : expecting[e] \in K
                    /\ \A f \in Esi : <<f, e>> \in ahead => expecting[f] # expecting[e]}

Forget(S) ==
    /\ expecting' = [e \in Esi |-> IF e \in S THEN None ELSE expecting[e]]
    /\ ahead' = {p \in ahead : p[1] \notin S /\ p[2] \notin S}

\* a free key is taken, another one is waited for
TakeOrWait(e, k) ==
    IF owner[k] = None
    THEN owner' = [owner EXCEPT ![k] = e] /\ UNCHANGED <<expecting, ahead>>
    ELSE /\ expecting' = [expecting EXCEPT ![e] = k]
         /\ ahead' = ahead \cup {<<f, e>> : f \in {g \in Esi : expecting[g] = k}}
         /\ UNCHANGED owner

Get(e, k) ==
    /\ pc = "prompt"
    /\ e \in esis /\ ~Asks(e) /\ owner[k] # e
    /\ TakeOrWait(e, k)
    /\ UNCHANGED <<esis, pc, walk>>

\* bloquear of an ESI in ready or executing, which may be the owner of the key
Bloquear(e, k) ==
    /\ pc = "prompt" /\ "bloquear" \in Commands
    /\ e \in esis /\ ~Asks(e)
    /\ TakeOrWait(e, k)
    /\ UNCHANGED <<esis, pc, walk>>

\* bloquear of an ESI that does not exist: a free key goes to the system
BloquearNobody(k) ==
    /\ pc = "prompt" /\ "bloquear" \in Commands
    /\ owner[k] = None
    /\ owner' = [owner EXCEPT ![k] = System]
    /\ UNCHANGED <<expecting, ahead, esis, pc, walk>>

\* a STORE frees the key, and its first waiter is to ask again
Store(e, k) ==
    /\ pc = "prompt"
    /\ e \in esis /\ ~Asks(e) /\ owner[k] = e
    /\ owner' = [owner EXCEPT ![k] = None]
    /\ Forget(Woken({k}))
    /\ UNCHANGED <<esis, pc, walk>>

\* desbloquear: a key with a waiter stays locked
Desbloquear(k) ==
    /\ pc = "prompt" /\ "desbloquear" \in Commands
    /\ owner' = [owner EXCEPT ![k] = IF Woken({k}) = {} THEN None ELSE @]
    /\ Forget(Woken({k}))
    /\ UNCHANGED <<esis, pc, walk>>

\* an ESI ends, dies or is killed
ReleaseResources(e) ==
    /\ pc = "prompt"
    /\ e \in esis
    /\ owner' = [k \in Key |-> IF owner[k] = e THEN None ELSE owner[k]]
    /\ Forget(Woken({k \in Key : owner[k] = e}) \cup {e})
    /\ esis' = esis \ {e}
    /\ UNCHANGED <<pc, walk>>

-----------------------------------------------------------------------------
(* detect_and_show_all_deadlocks *)

\* mutant: the ESIs that hold nothing are walked from, too
CheckDeadlockFromAll ==
    /\ pc = "prompt"
    /\ pc' = "pick"
    /\ state' = [e \in Esi |-> IF e \in esis THEN -1 ELSE 0]
    /\ UNCHANGED <<tables, first, last, cycle, number>>
CheckDeadlock ==
    /\ pc = "prompt"
    /\ pc' = "pick"
    /\ state' = [e \in Esi |-> IF e \in esis /\ Holds(e) THEN -1 ELSE 0]
    /\ UNCHANGED <<tables, first, last, cycle, number>>

NotAnalyzed == {e \in esis : state[e] = -1}

\* mutant: the owner of a key that is not locked is nobody
FollowAnyway(e, before) ==
    /\ pc' = "follow"
    /\ last' = owner[Request(e)]
    /\ cycle' = before \cup {last'}
\* the owner of the key e asks for is the next of the chain; obtain_key_owner
\* dereferences NULL if the key is not locked
Follow(e, before) ==
    IF owner[Request(e)] = None
    THEN pc' = "crash" /\ UNCHANGED <<last, cycle>>
    ELSE /\ pc' = "follow"
         /\ last' = owner[Request(e)]
         /\ cycle' = before \cup {last'}

Pick ==
    /\ pc = "pick"
    /\ \E e \in NotAnalyzed :
       /\ \A f \in NotAnalyzed : e <= f
       /\ IF Asks(e)
          THEN /\ first' = e
               /\ Follow(e, {e})
               /\ UNCHANGED state
          ELSE /\ state' = [state EXCEPT ![e] = 0]
               /\ UNCHANGED <<pc, first, last, cycle>>
    /\ UNCHANGED <<tables, number>>

\* mutant: it is enough that the request is for a key of somebody in the chain
AsksForSomeKeyInChain(e) == owner[Request(e)] \in cycle
AsksForKeyOfFirst(e) == owner[Request(e)] = first

Walk ==
    /\ pc = "follow"
    /\ Asks(last) /\ ~AsksForKeyOfFirst(last)
    /\ Follow(last, cycle)
    /\ UNCHANGED <<tables, first, state, number>>

Marked(n) == [e \in Esi |-> IF e \in cycle THEN n ELSE state[e]]

\* the chain ends in a party that waits for nothing; the system is not among the
\* ESIs, and its state is written through NULL
NoDeadlock ==
    /\ pc = "follow"
    /\ ~Asks(last)
    /\ IF cycle \subseteq esis
       THEN pc' = "pick" /\ state' = Marked(0)
       ELSE pc' = "crash" /\ UNCHANGED state
    /\ UNCHANGED <<tables, first, last, cycle, number>>

\* mutant: every deadlock gets the same number
DeadlockSameNumber ==
    /\ pc = "follow"
    /\ Asks(last) /\ AsksForKeyOfFirst(last)
    /\ number' = 1
    /\ state' = Marked(number')
    /\ pc' = "pick"
    /\ UNCHANGED <<tables, first, last, cycle>>
Deadlock ==
    /\ pc = "follow"
    /\ Asks(last) /\ AsksForKeyOfFirst(last)
    /\ number' = number + 1
    /\ state' = Marked(number')
    /\ pc' = "pick"
    /\ UNCHANGED <<tables, first, last, cycle>>

Show ==
    /\ pc = "pick" /\ NotAnalyzed = {}
    /\ pc' = "shown"
    /\ UNCHANGED <<tables, walk>>

\* the lists of the walk are destroyed
Return ==
    /\ pc = "shown"
    /\ pc' = "prompt"
    /\ state' = [e \in Esi |-> 0]
    /\ first' = 1 /\ last' = 1 /\ cycle' = {}
    /\ number' = 0
    /\ UNCHANGED tables

Detect == Pick \/ Walk \/ NoDeadlock \/ Deadlock \/ Show \/ Return

Next ==
    \/ \E e \in Esi, k \in Key : Get(e, k) \/ Bloquear(e, k) \/ Store(e, k)
    \/ \E k \in Key : BloquearNobody(k) \/ Desbloquear(k)
    \/ \E e \in Esi : ReleaseResources(e)
    \/ CheckDeadlock
    \/ Detect

Spec == Init /\ [][Next]_vars
FairSpec == Spec /\ WF_vars(Detect)

-----------------------------------------------------------------------------
(* What a deadlock is: an ESI that waits for itself in the end. *)

Closed(S) == \A e \in S : Asks(e) => owner[Request(e)] \in S

\* f is among those e waits for, those they wait for, and so on
WaitsFor(e, f) ==
    /\ Asks(e)
    /\ \A S \in SUBSET (Party \cup {None}) :
           Closed(S) /\ owner[Request(e)] \in S => f \in S

InDeadlock(e) == WaitsFor(e, e)

\* e waits, in the end, for a key of the system or of nobody
WaitsForNoEsi(e) == WaitsFor(e, System) \/ WaitsFor(e, None)

\* e waits for ESIs in a deadlock and is not in it
WaitsForDeadlock(e) == ~InDeadlock(e) /\ \E f \in Esi : WaitsFor(e, f) /\ InDeadlock(f)

-----------------------------------------------------------------------------
(* Properties *)

\* What the command shows is right: the ESIs with a number are those that wait for
\* themselves (consola.c:266-376).
ShowsTheDeadlocks ==
    pc = "shown" => \A e \in esis : state[e] > 0 <=> InDeadlock(e)

\* Two ESIs are shown under one number if and only if each waits for the other
\* (consola.c:359-372).
OneNumberEach ==
    pc = "shown" => \A e, f \in esis :
        InDeadlock(e) /\ InDeadlock(f) => (state[e] = state[f] <=> WaitsFor(e, f))

\* The scheduler ends inside the command only if an ESI that holds a key waits, in
\* the end, for a key of the system or for one that was released and not yet asked
\* for again (consola.c:302-303 and 351-352).
CrashesOnlyOnNoEsi ==
    pc = "crash" => \E e \in esis : Holds(e) /\ WaitsForNoEsi(e)

\* The command ends if no ESI that holds a key waits for a deadlock it is not in, nor
\* for a key without an ESI (consola.c:335-340).
EndsIfHarmless ==
    (pc = "pick" /\ \A e \in esis : Holds(e) => ~WaitsForDeadlock(e) /\ ~WaitsForNoEsi(e))
        ~> pc = "shown"

-----------------------------------------------------------------------------
(* Inductive invariants, for the proofs *)

\* Keys belong to ESIs that are in the system.
OwnersKnown == \A k \in Key : owner[k] \in esis \cup {System, None}

\* The chain c leads from f, which holds a key, through all of its members to l.
ChainOf(f, l, c) ==
    /\ f \in esis /\ Holds(f) /\ Asks(f)
    /\ f \in c /\ l \in c
    /\ \A x \in c :
        /\ x = f \/ WaitsFor(f, x)
        /\ x = l \/ (WaitsFor(x, l) /\ owner[Request(x)] \in c)

Chain == pc = "follow" => ChainOf(first, last, cycle)

\* What has been decided of an ESI is right, and those still to be looked at hold a key.
Decided ==
    pc \in {"pick", "follow", "shown"} =>
        \A e \in esis : /\ state[e] > 0 => InDeadlock(e)
                        /\ state[e] = 0 => ~InDeadlock(e)
                        /\ state[e] = -1 => Holds(e)

\* ESIs numbered alike wait for each other, and the others do not.
Numbered ==
    pc \in {"pick", "follow", "shown"} =>
        \A e, f \in esis :
            /\ state[e] <= number
            /\ state[e] > 0 /\ state[f] > 0 => (state[e] = state[f] <=> WaitsFor(e, f))

\* The table is shown when every ESI has been looked at.
AllAnalyzed == pc = "shown" => NotAnalyzed = {}
=============================================================================
