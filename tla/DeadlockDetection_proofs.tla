---------------------- MODULE DeadlockDetection_proofs ----------------------
(***************************************************************************)
(* Proofs about the command "deadlock", for any number of ESIs and keys.   *)
(*                                                                         *)
(*   DetectorCorrect   Spec => [](TypeOK /\ ShowsTheDeadlocks              *)
(*                                /\ OneNumberEach /\ CrashesOnlyOnNoEsi)  *)
(*                                                                         *)
(* The first part is about waiting: it is transitive, it is decided by the *)
(* first step, and it can be turned round in a deadlock.  The second shows *)
(* that a chain that comes back to its first ESI is a deadlock, all of it, *)
(* and that a chain that ends has nobody of a deadlock in it.              *)
(***************************************************************************)
EXTENDS DeadlockDetection, TLAPS

-----------------------------------------------------------------------------
(* Waiting *)

Node == Party \cup {None}

\* The owner of a key that is asked for is a party, or nobody.
LEMMA NextIsNode ==
  ASSUME TypeOK, NEW e, Asks(e)
  PROVE  owner[Request(e)] \in Node /\ e \in Node /\ e \in Esi
BY DEF TypeOK, Asks, Request, Node, Party

\* Whoever asks for a key waits for its owner.
LEMMA WaitsForNext ==
  ASSUME NEW e, Asks(e)
  PROVE  WaitsFor(e, owner[Request(e)])
BY DEF WaitsFor

\* Nobody who is waited for lies outside the nodes.
LEMMA WaitedIsNode ==
  ASSUME TypeOK, NEW e, NEW f, WaitsFor(e, f)
  PROVE  f \in Node
<1>1. Closed(Node)
  BY NextIsNode DEF Closed
<1>2. owner[Request(e)] \in Node
  BY NextIsNode DEF WaitsFor
<1> QED BY <1>1, <1>2 DEF WaitsFor, Node

\* Waiting is transitive.
LEMMA WaitsTransitive ==
  ASSUME NEW e, NEW f, NEW g, WaitsFor(e, f), WaitsFor(f, g)
  PROVE  WaitsFor(e, g)
<1>1. ASSUME NEW S \in SUBSET (Party \cup {None}), Closed(S), owner[Request(e)] \in S
      PROVE  g \in S
  <2>1. f \in S
    BY <1>1 DEF WaitsFor
  <2>2. owner[Request(f)] \in S
    BY <1>1, <2>1 DEF WaitsFor, Closed
  <2> QED BY <1>1, <2>2 DEF WaitsFor
<1> QED BY <1>1 DEF WaitsFor

\* One waits for the owner of the key and for those whom that owner waits for.
LEMMA WaitsByNext ==
  ASSUME TypeOK, NEW e, NEW g, WaitsFor(e, g), g # owner[Request(e)]
  PROVE  WaitsFor(owner[Request(e)], g)
<1> DEFINE n == owner[Request(e)]
           S == {x \in Node : x = n \/ WaitsFor(n, x)}
<1>1. n \in S
  BY NextIsNode DEF WaitsFor
<1>2. Closed(S)
  <2> SUFFICES ASSUME NEW x \in S, Asks(x) PROVE owner[Request(x)] \in S
    BY DEF Closed
  <2>1. owner[Request(x)] \in Node /\ WaitsFor(x, owner[Request(x)])
    BY NextIsNode, WaitsForNext
  <2>2. WaitsFor(n, owner[Request(x)])
    BY <2>1, WaitsTransitive
  <2> QED BY <2>1, <2>2
<1>3. g \in S
  BY <1>1, <1>2 DEF WaitsFor, Node
<1> QED BY <1>3

\* Those whom an ESI in a deadlock waits for wait for it.
LEMMA WaitsBack ==
  ASSUME TypeOK, NEW e, NEW f, WaitsFor(e, e), WaitsFor(e, f)
  PROVE  WaitsFor(f, e)
<1> DEFINE S == {x \in Node : WaitsFor(x, e)}
<1>1. ASSUME NEW x, WaitsFor(x, e)
      PROVE  owner[Request(x)] \in S
  <2>1. owner[Request(x)] \in Node
    BY <1>1, NextIsNode DEF WaitsFor
  <2>2. CASE owner[Request(x)] = e
    BY <2>1, <2>2
  <2>3. CASE owner[Request(x)] # e
    BY <1>1, <2>1, <2>3, WaitsByNext
  <2> QED BY <2>2, <2>3
<1>2. Closed(S)
  BY <1>1 DEF Closed
<1>3. owner[Request(e)] \in S
  BY <1>1
<1>4. f \in S
  BY <1>2, <1>3 DEF WaitsFor, Node
<1> QED BY <1>4

\* A set of parties that is closed under the owners of their requests holds whomever
\* they wait for.
LEMMA WaitsInside ==
  ASSUME NEW S \in SUBSET (Party \cup {None}), Closed(S), NEW e \in S, NEW f, WaitsFor(e, f)
  PROVE  f \in S
BY DEF WaitsFor, Closed

\* Whoever is waited for owns a key, unless it is nobody.
LEMMA WaitedHolds ==
  ASSUME TypeOK, NEW e, NEW f, WaitsFor(e, f)
  PROVE  f = None \/ Holds(f)
<1> DEFINE S == {x \in Node : \E k \in Key : owner[k] = x}
<1>1. ASSUME NEW x, Asks(x) PROVE owner[Request(x)] \in S
  <2>1. Request(x) \in Key
    BY <1>1 DEF Asks, Request, TypeOK
  <2> QED BY <1>1, <2>1, NextIsNode
<1>2. Closed(S) /\ owner[Request(e)] \in S
  BY <1>1 DEF Closed, WaitsFor
<1>3. f \in S
  BY <1>2 DEF WaitsFor, Node
<1> QED BY <1>3 DEF Holds

\* A party that is waited for is in the system, is the system, or is nobody.
LEMMA WaitedKnown ==
  ASSUME TypeOK, OwnersKnown, NEW e, NEW f, WaitsFor(e, f)
  PROVE  f \in esis \cup {System, None}
BY WaitedHolds DEF Holds, OwnersKnown

\* During the command nobody's waiting changes.
LEMMA WaitsUnchanged ==
  ASSUME UNCHANGED tables
  PROVE  /\ \A e, f : WaitsFor(e, f)' <=> WaitsFor(e, f)
         /\ \A e : InDeadlock(e)' <=> InDeadlock(e)
         /\ \A e : Holds(e)' <=> Holds(e)
         /\ \A e : Asks(e)' <=> Asks(e)
         /\ \A e : Request(e)' = Request(e)
BY DEF tables, WaitsFor, InDeadlock, Closed, Asks, Request, Holds

-----------------------------------------------------------------------------
(* Types *)

LEMMA TypeInit == Init => TypeOK /\ OwnersKnown
BY MaxEsiAssumption, KeyAssumption, NoneAssumption
   DEF Init, TypeOK, OwnersKnown, Esi, Party, System

\* The actions that fill and empty the tables keep their types, and do not leave a
\* key with an ESI that is gone.
LEMMA TablesType ==
  ASSUME TypeOK, OwnersKnown,
         \/ \E e \in Esi, k \in Key : Get(e, k) \/ Bloquear(e, k) \/ Store(e, k)
         \/ \E k \in Key : BloquearNobody(k) \/ Desbloquear(k)
         \/ \E e \in Esi : ReleaseResources(e)
  PROVE  TypeOK' /\ OwnersKnown' /\ pc' = "prompt"
<1> USE DEF TypeOK, OwnersKnown, Party, walk
<1>1. ASSUME NEW e \in Esi, NEW k \in Key, Get(e, k) \/ Bloquear(e, k)
      PROVE  TypeOK' /\ OwnersKnown' /\ pc' = "prompt"
  <2>1. CASE owner[k] = None
    BY <1>1, <2>1 DEF Get, Bloquear, TakeOrWait
  <2>2. CASE owner[k] # None
    BY <1>1, <2>2 DEF Get, Bloquear, TakeOrWait
  <2> QED BY <2>1, <2>2
<1>2. ASSUME NEW e \in Esi, NEW k \in Key, Store(e, k)
      PROVE  TypeOK' /\ OwnersKnown' /\ pc' = "prompt"
  BY <1>2 DEF Store, Forget
<1>3. ASSUME NEW k \in Key, BloquearNobody(k)
      PROVE  TypeOK' /\ OwnersKnown' /\ pc' = "prompt"
  BY <1>3 DEF BloquearNobody
<1>4. ASSUME NEW k \in Key, Desbloquear(k)
      PROVE  TypeOK' /\ OwnersKnown' /\ pc' = "prompt"
  BY <1>4 DEF Desbloquear, Forget
<1>5. ASSUME NEW e \in Esi, ReleaseResources(e)
      PROVE  TypeOK' /\ OwnersKnown' /\ pc' = "prompt"
  BY <1>5 DEF ReleaseResources, Forget
<1> QED BY <1>1, <1>2, <1>3, <1>4, <1>5

\* The command keeps the types.
LEMMA CommandType ==
  ASSUME TypeOK, OwnersKnown, CheckDeadlock \/ Detect
  PROVE  TypeOK' /\ OwnersKnown'
<1>1. OwnersKnown' /\ UNCHANGED tables
  BY DEF OwnersKnown, CheckDeadlock, Detect, Pick, Walk, NoDeadlock, Deadlock, Show,
         Return, tables
<1>2. ASSUME NEW e \in Esi, Asks(e), NEW before \in SUBSET Party, Follow(e, before)
      PROVE  pc' \in {"follow", "crash"} /\ last' \in Party /\ cycle' \subseteq Party
  BY <1>2, NextIsNode DEF Follow, Node, TypeOK
<1> USE DEF TypeOK, tables
<1>3. CASE CheckDeadlock
  BY <1>1, <1>3 DEF CheckDeadlock
<1>4. CASE Pick
  <2>1. PICK e \in NotAnalyzed :
          IF Asks(e)
          THEN first' = e /\ Follow(e, {e}) /\ UNCHANGED state
          ELSE state' = [state EXCEPT ![e] = 0] /\ UNCHANGED <<pc, first, last, cycle>>
    BY <1>4 DEF Pick
  <2>2. e \in Esi /\ {e} \subseteq Party
    BY DEF NotAnalyzed, Party
  <2>3. UNCHANGED number
    BY <1>4 DEF Pick
  <2>4. CASE Asks(e)
    BY <1>1, <1>2, <2>1, <2>2, <2>3, <2>4
  <2>5. CASE ~Asks(e)
    BY <1>1, <1>4, <2>1, <2>2, <2>3, <2>5
  <2> QED BY <2>4, <2>5
<1>5. CASE Walk
  <2>1. last \in Esi
    BY <1>5 DEF Walk, Asks
  <2> QED BY <1>1, <1>2, <1>5, <2>1 DEF Walk
<1>6. CASE NoDeadlock
  BY <1>1, <1>6 DEF NoDeadlock, Marked
<1>7. CASE Deadlock
  BY <1>1, <1>7 DEF Deadlock, Marked
<1>8. CASE Show
  BY <1>1, <1>8 DEF Show, walk
<1>9. CASE Return
  <2>1. 1 \in Esi /\ 1 \in Party
    BY MaxEsiAssumption DEF Esi, Party
  <2> QED BY <1>1, <1>9, <2>1 DEF Return
<1> QED BY <1>3, <1>4, <1>5, <1>6, <1>7, <1>8, <1>9 DEF Detect

-----------------------------------------------------------------------------
(* The walk *)

IInv ==
    /\ TypeOK /\ OwnersKnown
    /\ Chain /\ Decided /\ Numbered /\ AllAnalyzed
    /\ CrashesOnlyOnNoEsi

\* A member more at the end of a chain.
LEMMA ChainGrows ==
  ASSUME NEW f, f \in esis, Holds(f), Asks(f),
         NEW e, Asks(e), e = f \/ WaitsFor(f, e),
         NEW before, f \in before, e \in before,
         \A x \in before :
             /\ x = f \/ WaitsFor(f, x)
             /\ x = e \/ (WaitsFor(x, e) /\ owner[Request(x)] \in before)
  PROVE  /\ WaitsFor(f, owner[Request(e)])
         /\ ChainOf(f, owner[Request(e)], before \cup {owner[Request(e)]})
<1> DEFINE n == owner[Request(e)]
           c == before \cup {n}
<1>1. WaitsFor(e, n)
  BY WaitsForNext
<1>2. WaitsFor(f, n)
  BY <1>1, WaitsTransitive
<1>3. n = owner[Request(e)]
  OBVIOUS
<1> HIDE DEF n
<1>4. ASSUME NEW x \in c
      PROVE  /\ x = f \/ WaitsFor(f, x)
             /\ x = n \/ (WaitsFor(x, n) /\ owner[Request(x)] \in c)
  <2>1. CASE x = n
    BY <1>2, <2>1
  <2>2. CASE x = e
    BY <1>1, <1>3, <2>2
  <2>3. CASE x \in before /\ x # e
    <3>1. WaitsFor(x, e) /\ owner[Request(x)] \in before
      BY <2>3
    <3>2. WaitsFor(x, n)
      BY <1>1, <3>1, WaitsTransitive
    <3> QED BY <2>3, <3>1, <3>2
  <2> QED BY <1>4, <2>1, <2>2, <2>3
<1>5. ChainOf(f, n, c)
  BY <1>4 DEF ChainOf
<1> QED BY <1>2, <1>3, <1>5

\* The tables do not change during the walk, so that a chain stays one.
LEMMA ChainStays ==
  ASSUME UNCHANGED tables, NEW f, NEW l, NEW c, ChainOf(f, l, c),
         first' = f, last' = l, cycle' = c
  PROVE  Chain'
BY DEF tables, Chain, ChainOf, WaitsFor, Closed, Asks, Request, Holds

\* All of a chain that comes back to its first ESI wait for each other, and for
\* nobody else.
LEMMA ChainIsDeadlock ==
  ASSUME TypeOK, NEW f, NEW l, NEW c \in SUBSET Party, ChainOf(f, l, c),
         Asks(l), owner[Request(l)] = f
  PROVE  /\ \A x, y \in c : WaitsFor(x, y)
         /\ \A x \in c : \A y : WaitsFor(x, y) => y \in c
<1>1. WaitsFor(l, f)
  BY WaitsForNext
<1>2. ASSUME NEW x \in c PROVE WaitsFor(x, f) /\ WaitsFor(f, x)
  <2>1. WaitsFor(x, f)
    BY <1>1, WaitsTransitive DEF ChainOf
  <2>2. WaitsFor(f, x)
    <3>1. CASE x = f
      BY <2>1, <3>1
    <3>2. CASE x # f
      BY <3>2 DEF ChainOf
    <3> QED BY <3>1, <3>2
  <2> QED BY <2>1, <2>2
<1>3. Closed(c)
  BY DEF Closed, ChainOf
<1>4. c \in SUBSET (Party \cup {None})
  OBVIOUS
<1>5. \A x, y \in c : WaitsFor(x, y)
  BY <1>2, WaitsTransitive
<1>6. \A x \in c : \A y : WaitsFor(x, y) => y \in c
  BY <1>3, <1>4, WaitsInside
<1> QED BY <1>5, <1>6

\* Nobody of a chain that ends in a party that waits for nothing is in a deadlock.
LEMMA ChainEnds ==
  ASSUME TypeOK, NEW f, NEW l, NEW c, ChainOf(f, l, c), ~Asks(l)
  PROVE  \A x \in c : ~InDeadlock(x)
<1> SUFFICES ASSUME NEW x \in c, InDeadlock(x) PROVE FALSE
  OBVIOUS
<1>1. WaitsFor(x, x) /\ ~ \E y : WaitsFor(l, y)
  BY DEF InDeadlock, WaitsFor
<1>2. WaitsFor(x, l)
  BY <1>1 DEF ChainOf
<1> QED BY <1>1, <1>2, WaitsBack

-----------------------------------------------------------------------------
(* The steps of the command *)

Walking == {"pick", "follow", "shown"}

\* What is decided of the ESIs stays right, as the tables do not change.
LEMMA DecidedStays ==
  ASSUME UNCHANGED tables,
         \A e \in esis : /\ state'[e] > 0 => InDeadlock(e)
                         /\ state'[e] = 0 => ~InDeadlock(e)
                         /\ state'[e] = -1 => Holds(e),
         \A e, f \in esis :
            /\ state'[e] <= number'
            /\ state'[e] > 0 /\ state'[f] > 0 => (state'[e] = state'[f] <=> WaitsFor(e, f))
  PROVE  Decided' /\ Numbered'
<1>1. esis' = esis
  BY DEF tables
<1>2. Decided'
  BY <1>1 DEF Decided, tables, InDeadlock, WaitsFor, Closed, Asks, Request, Holds
<1>3. Numbered'
  BY <1>1 DEF Numbered, tables, WaitsFor, Closed, Asks, Request
<1> QED BY <1>2, <1>3

\* A step outside of the walk has nothing to show.
LEMMA OutsideWalk ==
  ASSUME pc' = "prompt"
  PROVE  Chain' /\ Decided' /\ Numbered' /\ AllAnalyzed' /\ CrashesOnlyOnNoEsi'
BY DEF Chain, Decided, Numbered, AllAnalyzed, CrashesOnlyOnNoEsi

\* A crash is justified by an ESI that holds a key and waits for nobody's.
LEMMA Crash ==
  ASSUME UNCHANGED tables, NEW e \in esis, Holds(e), WaitsForNoEsi(e), pc' = "crash"
  PROVE  Chain' /\ Decided' /\ Numbered' /\ AllAnalyzed' /\ CrashesOnlyOnNoEsi'
<1>1. Chain' /\ Decided' /\ Numbered' /\ AllAnalyzed'
  BY DEF Chain, Decided, Numbered, AllAnalyzed
<1>2. CrashesOnlyOnNoEsi'
  BY DEF CrashesOnlyOnNoEsi, tables, WaitsForNoEsi, WaitsFor, Closed, Asks, Request, Holds
<1> QED BY <1>1, <1>2

\* The command starts: an ESI that holds nothing is in no deadlock.
LEMMA CheckStep ==
  ASSUME IInv, CheckDeadlock
  PROVE  IInv'
<1>1. TypeOK' /\ OwnersKnown'
  BY CommandType DEF IInv
<1>2. UNCHANGED tables /\ pc' = "pick" /\ number' \in Nat
  BY DEF CheckDeadlock, IInv, TypeOK
<1>3. \A e \in esis : \/ state'[e] = -1 /\ Holds(e)
                      \/ state'[e] = 0 /\ ~Holds(e)
  BY DEF CheckDeadlock, IInv, TypeOK
<1>4. \A e \in esis : e # None
  BY NoneAssumption DEF IInv, TypeOK, Esi
<1>5. \A e \in esis : ~Holds(e) => ~InDeadlock(e)
  BY <1>4, WaitedHolds DEF InDeadlock, IInv
<1>6. Decided' /\ Numbered'
  <2>1. \A e \in esis : state'[e] <= number' /\ ~(state'[e] > 0)
    BY <1>2, <1>3
  <2> QED BY <1>2, <1>3, <1>5, <2>1, DecidedStays
<1>7. Chain' /\ AllAnalyzed' /\ CrashesOnlyOnNoEsi'
  BY <1>2 DEF Chain, AllAnalyzed, CrashesOnlyOnNoEsi
<1> QED BY <1>1, <1>6, <1>7 DEF IInv

\* The owner of the requested key joins the chain, or the key has none.
LEMMA FollowStep ==
  ASSUME IInv, pc \in Walking, UNCHANGED <<tables, state, number>>,
         NEW f \in esis, Holds(f), Asks(f), first' = f,
         NEW e, Asks(e), e = f \/ WaitsFor(f, e),
         NEW before, f \in before, e \in before,
         \A x \in before :
             /\ x = f \/ WaitsFor(f, x)
             /\ x = e \/ (WaitsFor(x, e) /\ owner[Request(x)] \in before),
         Follow(e, before)
  PROVE  Chain' /\ Decided' /\ Numbered' /\ AllAnalyzed' /\ CrashesOnlyOnNoEsi'
<1>1. UNCHANGED tables
  OBVIOUS
<1>2. /\ WaitsFor(f, owner[Request(e)])
      /\ ChainOf(f, owner[Request(e)], before \cup {owner[Request(e)]})
  BY ChainGrows
<1>3. CASE owner[Request(e)] = None
  <2>1. WaitsForNoEsi(f) /\ pc' = "crash"
    BY <1>2, <1>3 DEF WaitsForNoEsi, Follow
  <2> QED BY <1>1, <2>1, Crash
<1>4. CASE owner[Request(e)] # None
  <2>1. /\ pc' = "follow"
        /\ last' = owner[Request(e)]
        /\ cycle' = before \cup {owner[Request(e)]}
    BY <1>4 DEF Follow
  <2>2. Chain'
    BY <1>1, <1>2, <2>1, ChainStays
  <2>3. Decided' /\ Numbered'
    <3>1. state' = state /\ number' = number
      OBVIOUS
    <3> QED BY <1>1, <3>1, DecidedStays DEF IInv, Decided, Numbered, Walking
  <2>4. AllAnalyzed' /\ CrashesOnlyOnNoEsi'
    BY <2>1 DEF AllAnalyzed, CrashesOnlyOnNoEsi
  <2> QED BY <2>2, <2>3, <2>4
<1> QED BY <1>3, <1>4

\* The first ESI of a chain: it holds a key.
LEMMA PickStep ==
  ASSUME IInv, Pick
  PROVE  IInv'
<1>1. TypeOK' /\ OwnersKnown'
  BY CommandType DEF IInv, Detect
<1>2. pc = "pick" /\ UNCHANGED tables /\ number' = number
  BY DEF Pick, tables
<1>3. PICK e \in NotAnalyzed :
        IF Asks(e)
        THEN first' = e /\ Follow(e, {e}) /\ UNCHANGED state
        ELSE state' = [state EXCEPT ![e] = 0] /\ UNCHANGED <<pc, first, last, cycle>>
  BY DEF Pick
<1>4. e \in esis /\ Holds(e)
  BY <1>2 DEF NotAnalyzed, IInv, Decided
<1>5. CASE Asks(e)
  <2>1. UNCHANGED <<tables, state, number>> /\ first' = e /\ Follow(e, {e}) /\ pc \in Walking
    BY <1>2, <1>3, <1>5 DEF Walking
  <2>2. Chain' /\ Decided' /\ Numbered' /\ AllAnalyzed' /\ CrashesOnlyOnNoEsi'
    BY <1>4, <1>5, <2>1, FollowStep
  <2> QED BY <1>1, <2>2 DEF IInv
<1>6. CASE ~Asks(e)
  <2>1. pc' = "pick" /\ state' = [state EXCEPT ![e] = 0]
    BY <1>2, <1>3, <1>6
  <2>2. ~InDeadlock(e)
    BY <1>6 DEF InDeadlock, WaitsFor
  <2>3. \A f \in esis : state'[f] = IF f = e THEN 0 ELSE state[f]
    BY <2>1 DEF IInv, TypeOK
  <2>4. state'[e] = 0 /\ number \in Nat
    BY <1>4, <2>3 DEF IInv, TypeOK
  <2>5. Decided' /\ Numbered'
    <3>1. \A f \in esis : /\ state'[f] > 0 => InDeadlock(f)
                          /\ state'[f] = 0 => ~InDeadlock(f)
                          /\ state'[f] = -1 => Holds(f)
      BY <1>2, <2>2, <2>3 DEF IInv, Decided
    <3>2. \A f, g \in esis :
            /\ state'[f] <= number'
            /\ state'[f] > 0 /\ state'[g] > 0 => (state'[f] = state'[g] <=> WaitsFor(f, g))
      BY <1>2, <2>3, <2>4 DEF IInv, Numbered
    <3> QED BY <1>2, <3>1, <3>2, DecidedStays
  <2>6. Chain' /\ AllAnalyzed' /\ CrashesOnlyOnNoEsi'
    BY <2>1 DEF Chain, AllAnalyzed, CrashesOnlyOnNoEsi
  <2> QED BY <1>1, <2>5, <2>6 DEF IInv
<1> QED BY <1>5, <1>6

\* The chain goes on.
LEMMA WalkStep ==
  ASSUME IInv, Walk
  PROVE  IInv'
<1>1. TypeOK' /\ OwnersKnown'
  BY CommandType DEF IInv, Detect
<1>2. /\ pc \in Walking /\ UNCHANGED <<tables, state, number>> /\ first' = first
      /\ Asks(last) /\ Follow(last, cycle)
  BY DEF Walk, Walking, tables
<1>3. ChainOf(first, last, cycle)
  BY DEF IInv, Chain, Walk
<1>4. /\ first \in esis /\ Holds(first) /\ Asks(first)
      /\ last = first \/ WaitsFor(first, last)
      /\ first \in cycle /\ last \in cycle
      /\ \A x \in cycle :
            /\ x = first \/ WaitsFor(first, x)
            /\ x = last \/ (WaitsFor(x, last) /\ owner[Request(x)] \in cycle)
  BY <1>3 DEF ChainOf
<1>5. Chain' /\ Decided' /\ Numbered' /\ AllAnalyzed' /\ CrashesOnlyOnNoEsi'
  BY <1>2, <1>4, FollowStep
<1> QED BY <1>1, <1>5 DEF IInv

\* The chain ends: nobody in it is in a deadlock, or it ends in the system.
LEMMA NoDeadlockStep ==
  ASSUME IInv, NoDeadlock
  PROVE  IInv'
<1>1. TypeOK' /\ OwnersKnown'
  BY CommandType DEF IInv, Detect
<1>2. pc = "follow" /\ UNCHANGED tables /\ number' = number /\ ~Asks(last)
  BY DEF NoDeadlock, tables
<1>3. ChainOf(first, last, cycle)
  BY <1>2 DEF IInv, Chain
<1>4. first \in esis /\ Holds(first)
  BY <1>3 DEF ChainOf
<1>5. CASE cycle \subseteq esis
  <2>1. pc' = "pick" /\ state' = Marked(0)
    BY <1>5 DEF NoDeadlock
  <2>2. \A x \in cycle : ~InDeadlock(x)
    BY <1>2, <1>3, ChainEnds DEF IInv
  <2>3. \A x \in esis : state'[x] = IF x \in cycle THEN 0 ELSE state[x]
    BY <2>1 DEF Marked, IInv, TypeOK
  <2>4. number \in Nat
    BY DEF IInv, TypeOK
  <2>5. \A f \in esis : /\ state'[f] > 0 => InDeadlock(f)
                        /\ state'[f] = 0 => ~InDeadlock(f)
                        /\ state'[f] = -1 => Holds(f)
    BY <1>2, <2>2, <2>3 DEF IInv, Decided
  <2>6. \A f, g \in esis :
          /\ state'[f] <= number'
          /\ state'[f] > 0 /\ state'[g] > 0 => (state'[f] = state'[g] <=> WaitsFor(f, g))
    BY <1>2, <2>3, <2>4 DEF IInv, Numbered
  <2>7. Decided' /\ Numbered'
    BY <1>2, <2>5, <2>6, DecidedStays
  <2>8. Chain' /\ AllAnalyzed' /\ CrashesOnlyOnNoEsi'
    BY <2>1 DEF Chain, AllAnalyzed, CrashesOnlyOnNoEsi
  <2> QED BY <1>1, <2>7, <2>8 DEF IInv
<1>6. CASE ~(cycle \subseteq esis)
  <2>1. pc' = "crash"
    BY <1>6 DEF NoDeadlock
  <2>2. PICK x \in cycle : x \notin esis
    BY <1>6
  <2>3. WaitsFor(first, x)
    BY <1>3, <1>4, <2>2 DEF ChainOf
  <2>4. x \in {System, None}
    BY <2>2, <2>3, WaitedKnown DEF IInv
  <2>5. WaitsForNoEsi(first)
    BY <2>3, <2>4 DEF WaitsForNoEsi
  <2>6. Chain' /\ Decided' /\ Numbered' /\ AllAnalyzed' /\ CrashesOnlyOnNoEsi'
    BY <1>2, <1>4, <2>1, <2>5, Crash
  <2> QED BY <1>1, <2>6 DEF IInv
<1> QED BY <1>5, <1>6

\* The chain comes back to its first ESI: all of it is one deadlock, with a number of
\* its own.
LEMMA DeadlockStep ==
  ASSUME IInv, Deadlock
  PROVE  IInv'
<1>1. TypeOK' /\ OwnersKnown'
  BY CommandType DEF IInv, Detect
<1>2. /\ pc = "follow" /\ UNCHANGED tables /\ number' = number + 1 /\ pc' = "pick"
      /\ state' = Marked(number + 1)
  BY DEF Deadlock, tables
<1>3. ChainOf(first, last, cycle) /\ Asks(last) /\ owner[Request(last)] = first
  BY DEF IInv, Chain, Deadlock, AsksForKeyOfFirst
<1>4. TypeOK /\ number \in Nat /\ cycle \in SUBSET Party
  BY DEF IInv, TypeOK
<1>5. /\ \A x, y \in cycle : WaitsFor(x, y)
      /\ \A x \in cycle : \A y : WaitsFor(x, y) => y \in cycle
  BY <1>3, <1>4, ChainIsDeadlock
<1>6. \A x \in esis : state'[x] = IF x \in cycle THEN number + 1 ELSE state[x]
  BY <1>2, <1>4 DEF Marked, TypeOK
<1>7. \A x \in esis : state[x] <= number /\ state[x] \in Int
  BY <1>2, <1>4 DEF IInv, Numbered, TypeOK
<1>8. \A x \in esis : /\ state'[x] > 0 => InDeadlock(x)
                      /\ state'[x] = 0 => ~InDeadlock(x)
                      /\ state'[x] = -1 => Holds(x)
  BY <1>2, <1>4, <1>5, <1>6 DEF IInv, Decided, InDeadlock
<1>9. ASSUME NEW x \in esis, NEW y \in esis,  x \in cycle, y \notin cycle, state[y] > 0
      PROVE  ~WaitsFor(x, y) /\ ~WaitsFor(y, x)
  <2>1. WaitsFor(y, y)
    BY <1>2, <1>9 DEF IInv, Decided, InDeadlock
  <2>2. ~WaitsFor(x, y)
    BY <1>5, <1>9
  <2> QED BY <1>4, <2>1, <2>2, WaitsBack
<1>10. \A x, y \in esis :
          state'[x] > 0 /\ state'[y] > 0 => (state'[x] = state'[y] <=> WaitsFor(x, y))
  <2> SUFFICES ASSUME NEW x \in esis, NEW y \in esis, state'[x] > 0, state'[y] > 0
               PROVE  state'[x] = state'[y] <=> WaitsFor(x, y)
    OBVIOUS
  <2>1. CASE x \in cycle /\ y \in cycle
    BY <1>5, <1>6, <2>1
  <2>2. CASE x \in cycle /\ y \notin cycle
    BY <1>4, <1>6, <1>7, <1>9, <2>2
  <2>3. CASE x \notin cycle /\ y \in cycle
    BY <1>4, <1>6, <1>7, <1>9, <2>3
  <2>4. CASE x \notin cycle /\ y \notin cycle
    BY <1>2, <1>6, <2>4 DEF IInv, Numbered
  <2> QED BY <2>1, <2>2, <2>3, <2>4
<1>11. \A x \in esis : state'[x] <= number'
  BY <1>2, <1>4, <1>6, <1>7
<1>12. Decided' /\ Numbered'
  BY <1>2, <1>8, <1>10, <1>11, DecidedStays
<1>13. Chain' /\ AllAnalyzed' /\ CrashesOnlyOnNoEsi'
  BY <1>2 DEF Chain, AllAnalyzed, CrashesOnlyOnNoEsi
<1> QED BY <1>1, <1>12, <1>13 DEF IInv

\* The table is shown.
LEMMA ShowStep ==
  ASSUME IInv, Show
  PROVE  IInv'
<1>1. TypeOK' /\ OwnersKnown'
  BY CommandType DEF IInv, Detect
<1>2. /\ pc = "pick" /\ pc' = "shown" /\ UNCHANGED tables
      /\ state' = state /\ number' = number /\ NotAnalyzed = {}
  BY DEF Show, walk, tables
<1>3. Decided' /\ Numbered'
  BY <1>2, DecidedStays DEF IInv, Decided, Numbered
<1>4. AllAnalyzed'
  BY <1>2 DEF AllAnalyzed, NotAnalyzed, tables
<1>5. Chain' /\ CrashesOnlyOnNoEsi'
  BY <1>2 DEF Chain, CrashesOnlyOnNoEsi
<1> QED BY <1>1, <1>3, <1>4, <1>5 DEF IInv

\* A step that changes nothing.
LEMMA Stutter ==
  ASSUME IInv, UNCHANGED vars
  PROVE  IInv'
<1>1. UNCHANGED tables /\ UNCHANGED <<pc, state, first, last, cycle, number>>
  BY DEF vars, walk
<1>2. TypeOK' /\ OwnersKnown'
  BY <1>1 DEF IInv, TypeOK, OwnersKnown, tables
<1>3. Chain'
  BY <1>1 DEF IInv, Chain, ChainOf, tables, WaitsFor, Closed, Asks, Request, Holds
<1>4. Decided' /\ Numbered'
  BY <1>1 DEF IInv, Decided, Numbered, tables, InDeadlock, WaitsFor, Closed, Asks,
              Request, Holds
<1>5. AllAnalyzed'
  BY <1>1 DEF IInv, AllAnalyzed, NotAnalyzed, tables
<1>6. CrashesOnlyOnNoEsi'
  BY <1>1 DEF IInv, CrashesOnlyOnNoEsi, tables, WaitsForNoEsi, WaitsFor, Closed, Asks,
              Request, Holds
<1> QED BY <1>2, <1>3, <1>4, <1>5, <1>6 DEF IInv

-----------------------------------------------------------------------------
(* The theorem *)

LEMMA InitIInv == Init => IInv
BY TypeInit DEF Init, IInv, Chain, Decided, Numbered, AllAnalyzed, CrashesOnlyOnNoEsi

LEMMA StepIInv == IInv /\ [Next]_vars => IInv'
<1> SUFFICES ASSUME IInv, [Next]_vars PROVE IInv'
  OBVIOUS
<1>1. CASE \/ \E e \in Esi, k \in Key : Get(e, k) \/ Bloquear(e, k) \/ Store(e, k)
           \/ \E k \in Key : BloquearNobody(k) \/ Desbloquear(k)
           \/ \E e \in Esi : ReleaseResources(e)
  BY <1>1, TablesType, OutsideWalk DEF IInv
<1>2. CASE CheckDeadlock
  BY <1>2, CheckStep
<1>3. CASE Detect
  <2>1. CASE Return
    <3>1. pc' = "prompt"
      BY <2>1 DEF Return
    <3> QED BY <1>3, <3>1, OutsideWalk, CommandType DEF IInv
  <2> QED BY <1>3, <2>1, PickStep, WalkStep, NoDeadlockStep, DeadlockStep, ShowStep
          DEF Detect
<1>4. CASE UNCHANGED vars
  BY <1>4, Stutter
<1> QED BY <1>1, <1>2, <1>3, <1>4 DEF Next

\* The command "deadlock" shows those that wait for themselves and nobody else, the
\* deadlocks apart, and ends the scheduler only on a request for a key without an ESI.
THEOREM DetectorCorrect ==
  Spec => [](TypeOK /\ ShowsTheDeadlocks /\ OneNumberEach /\ CrashesOnlyOnNoEsi)
<1>1. IInv => TypeOK /\ ShowsTheDeadlocks /\ OneNumberEach /\ CrashesOnlyOnNoEsi
  <2> SUFFICES ASSUME IInv, pc = "shown" PROVE ShowsTheDeadlocks /\ OneNumberEach
    BY DEF IInv, ShowsTheDeadlocks, OneNumberEach
  <2>1. \A e \in esis : state[e] \in Nat
    BY DEF IInv, TypeOK, AllAnalyzed, NotAnalyzed
  <2>2. \A e \in esis : state[e] > 0 <=> InDeadlock(e)
    BY <2>1 DEF IInv, Decided
  <2>3. OneNumberEach
    BY <2>2 DEF IInv, Numbered, OneNumberEach
  <2> QED BY <2>2, <2>3 DEF ShowsTheDeadlocks
<1>2. Spec => []IInv
  BY InitIInv, StepIInv, PTL DEF Spec
<1> QED BY <1>1, <1>2, PTL

=============================================================================
