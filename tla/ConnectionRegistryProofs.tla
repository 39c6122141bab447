---------------------- MODULE ConnectionRegistryProofs ----------------------
(***************************************************************************)
(* The connection manager implements the register of Registry: for every    *)
(* set of connections, finite set of threads and limit of the list.         *)
(***************************************************************************)
EXTENDS ConnectionRegistry, ConnectionManagerProofs

\* The list has no fewer entries than it has members.
LEMMA MembersBounded ==
  ASSUME NEW S, NEW s \in Seq(S)
  PROVE  Cardinality(Elements(s)) \in Nat /\ Cardinality(Elements(s)) <= Len(s)
<1>1. s \in Surjection(1..Len(s), Elements(s)) /\ Len(s) \in Nat
  BY DEF Elements, Surjection
<1>2. IsFiniteSet(1..Len(s))
  BY <1>1, FS_Interval
<1>3. IsFiniteSet(Elements(s))
  BY <1>1, <1>2, FS_Surjection
<1>4. ExistsSurjection(1..Len(s), Elements(s))
  BY <1>1 DEF ExistsSurjection
<1>5. QED
  BY <1>1, <1>3, <1>4, FS_SurjCardinalityBound, FS_CardinalityType

\* After a step: what is in the list, or in the hands of a thread, is alive.
LEMMA ReachableIsAlive ==
  ASSUME IInv', NEW c \in Connection,
         c \in Registered' \/ \E t \in Thread : c \in held'[t]
  PROVE  count'[c] > 0
<1> DEFINE n == Cardinality(HoldersOf(c)')
<1>1. IsFiniteSet(HoldersOf(c)')
  BY ConstantsAssumption, FS_Subset DEF HoldersOf
<1>2. n \in Nat
  BY <1>1, FS_CardinalityType
<1>3. ASSUME NEW t \in Thread, c \in held'[t] PROVE n > 0
  <2>1. t \in HoldersOf(c)'
    BY <1>3 DEF HoldersOf
  <2>2. QED
    BY <1>1, <2>1, HoldersRemove
<1>4. count'[c] = Ref(operation'[c]) + Ref(OpenReference(c)')
                + Ref(c \in Registered') + n
  BY DEF IInv, ReferencesExact, Ref
<1> HIDE DEF n
<1>5. QED
  BY <1>2, <1>3, <1>4 DEF Ref

\* An object whose counter does not start from or drop to zero keeps its stage.
LEMMA SameStage ==
  ASSUME NEW c \in Connection,
         opener'[c] = "new" <=> opener[c] = "new",
         count'[c] > 0 <=> count[c] > 0
  PROVE  stageOf(c)' = stageOf(c)
BY DEF stageOf

\* A step that changes no counter, list entry or reference of a thread and
\* creates nothing is no step of the register.
LEMMA Stutter ==
  ASSUME UNCHANGED <<count, connections_, held>>,
         \A c \in Connection : opener'[c] = "new" <=> opener[c] = "new"
  PROVE  UNCHANGED R!regVars
<1>1. \A c \in Connection : stageOf(c)' = stageOf(c)
  BY SameStage
<1>2. [c \in Connection |-> stageOf(c)]' = [c \in Connection |-> stageOf(c)]
  BY <1>1
<1>3. Registered' = Registered
  BY DEF Registered, Elements
<1>4. QED
  BY <1>2, <1>3 DEF R!regVars

\* Releasing a reference reclaims the object only if no one can reach it.
LEMMA LetGo ==
  ASSUME IInv, IInv', NEW c \in Connection,
         decrease(c), count[c] > 0,
         \A d \in Connection : opener'[d] = "new" <=> opener[d] = "new",
         opener[c] # "new"
  PROVE  R!MayReclaim(c)
<1> DEFINE stage == [d \in Connection |-> stageOf(d)]
<1>1. count \in [Connection -> Nat] /\ count' \in [Connection -> Nat]
      /\ count' = [count EXCEPT ![c] = @ - 1]
  BY DEF IInv, TypeOK, decrease
<1>2. \A d \in Connection \ {c} : stageOf(d)' = stageOf(d)
  BY <1>1, SameStage
<1>3. stage[c] = "live"
  BY DEF stageOf
<1>4. CASE count'[c] > 0
  <2>1. stageOf(c)' = stageOf(c)
    BY <1>4, SameStage
  <2>2. stage' = stage
    BY <1>2, <2>1
  <2>3. QED
    BY <2>2 DEF R!MayReclaim
<1>5. CASE ~(count'[c] > 0)
  <2>1. stageOf(c)' = "reclaimed"
    BY <1>5 DEF stageOf
  <2>2. stage' = [stage EXCEPT ![c] = "reclaimed"]
    BY <1>2, <2>1
  <2>3. R!Unreachable(c)
    BY <1>5, ReachableIsAlive DEF R!Unreachable
  <2>4. QED
    BY <1>3, <2>2, <2>3 DEF R!MayReclaim
<1>6. QED
  BY <1>4, <1>5
-----------------------------------------------------------------------------
(* The steps.                                                               *)

LEMMA Init_Registry ==
  ASSUME Init
  PROVE  R!Init
<1>1. \A c \in Connection : stageOf(c) = "new"
  BY DEF Init, stageOf
<1>2. Registered = {}
  BY DEF Init, Registered, Elements
<1>3. QED
  BY <1>1, <1>2 DEF Init, R!Init

\* A new handler is created alive.
LEMMA make_Create ==
  ASSUME IInv, NEW c \in Connection, make(c)
  PROVE  R!Create(c)
<1> DEFINE stage == [d \in Connection |-> stageOf(d)]
<1>1. DOMAIN count = Connection /\ DOMAIN opener = Connection /\ opener[c] = "new"
  BY DEF IInv, TypeOK, OpeningInv, make
<1>2. /\ count' = [count EXCEPT ![c] = 2] /\ opener' = [opener EXCEPT ![c] = "opening"]
      /\ UNCHANGED <<connections_, held>>
  BY DEF make, managerVars, threadVars
<1>3. \A d \in Connection \ {c} : stageOf(d)' = stageOf(d)
  <2>1. \A d \in Connection \ {c} : count'[d] = count[d] /\ opener'[d] = opener[d]
    BY <1>1, <1>2
  <2>2. QED
    BY <2>1, SameStage
<1>4. stageOf(c) = "new" /\ stageOf(c)' = "live"
  <2>1. opener'[c] = "opening" /\ count'[c] = 2 /\ 2 > 0
    BY <1>1, <1>2
  <2>2. stageOf(c) = "new"
    BY <1>1 DEF stageOf
  <2>3. stageOf(c)' = "live"
    BY <2>1 DEF stageOf
  <2>4. QED
    BY <2>2, <2>3
<1>5. stage' = [stage EXCEPT ![c] = "live"]
  BY <1>3, <1>4
<1>6. Registered' = Registered
  BY <1>2 DEF Registered, Elements
<1>7. QED
  BY <1>2, <1>4, <1>5, <1>6 DEF R!Create

\* register_() of a connection that open() still holds enters it, if the list
\* has room.
LEMMA register_Enter ==
  ASSUME IInv, NEW c \in Connection, register_(c)
  PROVE  R!Enter(c) \/ UNCHANGED R!regVars
<1>1. UNCHANGED <<opener, held>>
  BY DEF register_, connVars, threadVars
<1>2. CASE UNCHANGED <<connections_, count>>
  BY <1>1, <1>2, Stutter
<1>3. CASE /\ Len(connections_) < Maximum
           /\ connections_' = Append(connections_, c) /\ increase(c)
  <2>1. opener[c] = "opening" /\ c \notin Registered
    BY DEF IInv, OpeningInv, register_
  <2>2. count[c] > 0
    BY <2>1, OwnedIsAlive DEF OpenReference
  <2>3. /\ count \in [Connection -> Nat] /\ connections_ \in Seq(Connection)
        /\ Distinct(connections_)
    BY DEF IInv, TypeOK, ListBounded, Distinct
  <2>4. Registered' = Registered \cup {c}
    BY <1>3, <2>1, <2>3, AppendElements DEF Registered
  <2>5. \A d \in Connection : stageOf(d)' = stageOf(d)
    BY <1>1, <1>3, <2>2, <2>3, SameStage DEF increase
  <2>6. [d \in Connection |-> stageOf(d)]' = [d \in Connection |-> stageOf(d)]
    BY <2>5
  <2>7. Cardinality(Registered) < Maximum
    <3>1. /\ Cardinality(Registered) \in Nat
          /\ Cardinality(Registered) <= Len(connections_)
      BY <2>3, MembersBounded DEF Registered
    <3>2. QED
      BY <1>3, <2>3, <3>1, ConstantsAssumption
  <2>8. [d \in Connection |-> stageOf(d)][c] = "live"
    <3>1. stageOf(c) = "live"
      BY <2>1, <2>2 DEF stageOf
    <3>2. QED
      BY <3>1
  <2>9. R!Enter(c)
    <3>1. R!Cardinality(Registered) < Maximum
      BY <2>7 DEF R!Cardinality, Cardinality
    <3>2. QED
      BY <1>1, <2>1, <2>4, <2>6, <3>1, <2>8 DEF R!Enter
  <2>10. QED
    BY <2>9
<1>4. QED
  BY <1>2, <1>3 DEF register_

\* Releasing open()'s reference, or the initial one, may reclaim the object.
LEMMA Retired ==
  ASSUME IInv, IInv', NEW c \in Connection,
         decrease(c), count[c] > 0,
         \A d \in Connection : opener'[d] = "new" <=> opener[d] = "new",
         opener[c] # "new", UNCHANGED <<connections_, held>>
  PROVE  R!Retire(c)
<1>1. Registered' = Registered
  BY DEF Registered, Elements
<1>2. QED
  BY <1>1, LetGo DEF R!Retire

LEMMA open_Retire ==
  ASSUME IInv, IInv', NEW c \in Connection, open_return(c) \/ open_error(c)
  PROVE  R!Retire(c) \/ UNCHANGED R!regVars
<1>1. DOMAIN opener = Connection
  BY DEF IInv, TypeOK
<1>2. opener[c] \in {"opened", "opening"}
  BY DEF IInv, OpeningInv, open_return, open_error, FailPc
<1>3. count[c] > 0
  BY <1>2, OwnedIsAlive DEF OpenReference
<1>4. \A d \in Connection : opener'[d] = "new" <=> opener[d] = "new"
  BY <1>1, <1>2 DEF open_return, open_error
<1>5. UNCHANGED <<connections_, held>> /\ (decrease(c) \/ UNCHANGED count)
  BY DEF open_return, open_error, managerVars, threadVars
<1>6. QED
  BY <1>2, <1>3, <1>4, <1>5, Retired, Stutter

\* deregister() takes the connection out of the list, wherever it is called.
LEMMA deregister_Leave ==
  ASSUME IInv, IInv', NEW a \in Actor, pc[a] \in ClosePc \cup FailPc,
         NEW here, NEW next, deregister(a, here, next)
  PROVE  (\E c \in Connection : R!Leave(c)) \/ UNCHANGED R!regVars
<1> DEFINE c == Current(a)
<1>1. c \in Connection
  BY CurrentConnection
<1>2. UNCHANGED <<opener, held>>
  BY DEF deregister, connVars, threadVars
<1>3. CASE c \notin Registered
  BY <1>2, <1>3, Stutter DEF deregister
<1>4. CASE c \in Registered
  <2>1. decrease(c) /\ connections_' = Without(connections_, c)
    BY <1>4 DEF deregister
  <2>2. count[c] > 0
    BY <1>1, <1>4, OwnedIsAlive
  <2>3. opener[c] # "new"
    BY <1>1, <1>4 DEF IInv, OpeningInv
  <2>4. connections_ \in Seq(Connection) /\ Distinct(connections_)
    BY DEF IInv, TypeOK, ListBounded, Distinct
  <2>5. Registered' = Registered \ {c}
    BY <1>4, <2>1, <2>4, WithoutElements DEF Registered
  <2>6. R!MayReclaim(c)
    BY <1>1, <1>2, <2>1, <2>2, <2>3, LetGo
  <2>7. R!Leave(c)
    BY <1>2, <1>4, <2>5, <2>6 DEF R!Leave
  <2>8. QED
    BY <1>1, <2>7
<1>5. QED
  BY <1>3, <1>4

\* The steps of handle_close(), by the dispatcher or by an aborting thread.
LEMMA handle_close_Registry ==
  ASSUME IInv, IInv', NEW a \in Actor, handle_close(a)
  PROVE  \/ \E c \in Connection : R!Leave(c) \/ R!Retire(c)
         \/ UNCHANGED R!regVars
<1>1. CASE \/ close_state(a) \/ close_flag(a) \/ close_count(a)
           \/ deregister_test(a, "close_test", "close_clear", "close_release")
           \/ deregister_clear(a, "close_clear", "close_deregister")
  <2>1. UNCHANGED <<count, connections_, held, opener>>
    BY <1>1 DEF close_state, close_flag, close_count, deregister_test,
       deregister_clear, managerVars, connVars, threadVars
  <2>2. QED
    BY <2>1, Stutter
<1>2. CASE deregister(a, "close_deregister", "close_release")
  <2>1. pc[a] \in ClosePc
    BY <1>2 DEF deregister, ClosePc
  <2>2. QED
    BY <1>2, <2>1, deregister_Leave
<1>3. CASE close_release(a)
  <2> DEFINE c == Current(a)
  <2>1. UNCHANGED <<opener, connections_, held>>
    BY <1>3 DEF close_release, managerVars, threadVars
  <2>2. CASE ~decrease_b[a]
    BY <1>3, <2>1, <2>2, Stutter DEF close_release
  <2>3. CASE decrease_b[a]
    <3>1. c \in Connection /\ pc[a] \in ClosePc
      BY <1>3, CurrentConnection DEF close_release, ClosePc
    <3>2. operation[c]
      BY <2>3 DEF IInv, ClosingInv
    <3>3. count[c] > 0
      BY <3>1, <3>2, OwnedIsAlive
    <3>4. opener[c] # "new"
      BY <3>1, <3>2 DEF IInv, OpeningInv
    <3>5. decrease(c)
      BY <1>3, <2>3 DEF close_release
    <3>6. R!Retire(c)
      BY <2>1, <3>1, <3>3, <3>4, <3>5, Retired
    <3>7. QED
      BY <3>1, <3>6
  <2>4. QED
    BY <2>2, <2>3
<1>4. QED
  BY <1>1, <1>2, <1>3 DEF handle_close

\* The steps of open() and of the dispatcher.
LEMMA Connection_Registry ==
  ASSUME IInv, IInv', NEW c \in Connection,
         make(c) \/ dispatch_close(c) \/ ConnectionStep(c)
  PROVE  [R!Next]_(R!regVars)
<1>1. CASE make(c)
  BY <1>1, make_Create DEF R!Next
<1>2. CASE register_(c)
  BY <1>2, register_Enter DEF R!Next
<1>3. CASE open_return(c) \/ open_error(c)
  BY <1>3, open_Retire DEF R!Next
<1>4. CASE handle_close(c)
  BY <1>4, Actors, handle_close_Registry DEF R!Next
<1>5. CASE deregister(c, "fail_deregister", "fail_release")
  <2>1. c \in Actor /\ pc[c] \in FailPc
    BY <1>5, Actors DEF deregister, FailPc
  <2>2. QED
    BY <1>5, <2>1, deregister_Leave DEF R!Next
<1>6. CASE opened(c)
  <2>1. opener[c] = "opening" /\ DOMAIN opener = Connection
    BY <1>6 DEF opened, IInv, OpeningInv, TypeOK
  <2>2. UNCHANGED <<count, connections_, held>>
    BY <1>6 DEF opened, managerVars, threadVars
  <2>3. \A d \in Connection : opener'[d] = "new" <=> opener[d] = "new"
    BY <1>6, <2>1 DEF opened
  <2>4. QED
    BY <2>2, <2>3, Stutter
<1>7. CASE \/ dispatch_close(c)
           \/ deregister_test(c, "fail_test", "fail_clear", "fail_release")
           \/ deregister_clear(c, "fail_clear", "fail_deregister")
  <2>1. UNCHANGED <<count, connections_, held, opener>>
    BY <1>7 DEF dispatch_close, deregister_test, deregister_clear, managerVars,
       connVars, threadVars
  <2>2. QED
    BY <2>1, Stutter
<1>8. QED
  BY <1>1, <1>2, <1>3, <1>4, <1>5, <1>6, <1>7 DEF ConnectionStep, open_fail

\* A lookup lends members of the list only.
LEMMA take_Borrow ==
  ASSUME IInv, NEW t \in Thread, held[t] = {},
         NEW S \in SUBSET Registered, S # {}, NEW next, take(t, S, next)
  PROVE  R!Next
<1>1. /\ UNCHANGED <<opener, connections_>> /\ held' = [held EXCEPT ![t] = S]
      /\ increaseAll(S)
  BY DEF take, managerVars, connVars
<1>2. Registered' = Registered /\ Registered \subseteq Connection
  BY <1>1 DEF Registered, Elements, IInv, TypeOK
<1>3. \A d \in Connection : count'[d] > 0 <=> count[d] > 0
  <2>1. \A d \in S : count[d] > 0
    BY <1>2, OwnedIsAlive
  <2>2. count \in [Connection -> Nat]
    BY DEF IInv, TypeOK
  <2>3. QED
    BY <1>1, <2>1, <2>2 DEF increaseAll
<1>4. \A d \in Connection : stageOf(d)' = stageOf(d)
  BY <1>1, <1>3, SameStage
<1>5. [d \in Connection |-> stageOf(d)]' = [d \in Connection |-> stageOf(d)]
  BY <1>4
<1>6. R!Borrow(t, S)
  BY <1>1, <1>2, <1>5 DEF R!Borrow
<1>7. QED
  BY <1>6 DEF R!Next

\* Giving a reference back may reclaim the object, if it was the last one.
LEMMA release_GiveBack ==
  ASSUME IInv, IInv', NEW t \in Thread, NEW c \in held[t], decrease(c),
         held' = [held EXCEPT ![t] = @ \ {c}], UNCHANGED <<opener, connections_>>
  PROVE  R!Next
<1>1. c \in Connection
  BY DEF IInv, TypeOK
<1>2. count[c] > 0
  BY <1>1, OwnedIsAlive
<1>3. opener[c] # "new"
  BY <1>1 DEF IInv, OpeningInv, HoldersOf
<1>4. Registered' = Registered
  BY DEF Registered, Elements
<1>5. R!MayReclaim(c)
  BY <1>1, <1>2, <1>3, LetGo
<1>6. R!GiveBack(t, c)
  BY <1>4, <1>5 DEF R!GiveBack
<1>7. QED
  BY <1>1, <1>6 DEF R!Next

\* The manager's interface.
LEMMA Thread_Registry ==
  ASSUME IInv, IInv', NEW t \in Thread, Call(t) \/ ThreadStep(t)
  PROVE  [R!Next]_(R!regVars)
<1>1. /\ pc[t] \in {"idle", "gather"} => held[t] = {}
      /\ connections_ \in Seq(Connection)
  BY DEF IInv, ThreadInv, TypeOK
<1>2. ASSUME UNCHANGED <<count, connections_, held, opener>>
      PROVE  [R!Next]_(R!regVars)
  BY <1>2, Stutter
<1>3. ASSUME NEW i \in DOMAIN connections_, NEW next,
             take(t, {connections_[i]}, next), pc[t] = "idle"
      PROVE  [R!Next]_(R!regVars)
  <2>1. {connections_[i]} \in SUBSET Registered /\ {connections_[i]} # {}
    BY DEF Registered, Elements
  <2>2. QED
    BY <1>1, <1>3, <2>1, take_Borrow
<1>4. \A b : start(t) \/ stop(t, b) \/ wait(t, b) \/ abort_all(t, b)
              => [R!Next]_(R!regVars)
  BY <1>2 DEF start, stop, wait, abort_all, managerVars, connVars, threadVars
<1>5. ASSUME NEW i \in {1, Len(connections_)}, abortStrategy(t, i)
      PROVE  [R!Next]_(R!regVars)
  <2>1. i \in DOMAIN connections_
    BY <1>1, <1>5 DEF abortStrategy
  <2>2. QED
    BY <1>3, <1>5, <2>1 DEF abortStrategy
<1>6. ASSUME NEW address, abort_address(t, address) PROVE [R!Next]_(R!regVars)
  BY <1>1, <1>6, take_Borrow DEF abort_address
<1>7. ASSUME NEW c, get_handle(t, c) PROVE [R!Next]_(R!regVars)
  BY <1>1, <1>7, take_Borrow DEF get_handle
<1>8. ASSUME NEW address, get_address(t, address) PROVE [R!Next]_(R!regVars)
  BY <1>3, <1>8 DEF get_address
<1>9. ASSUME NEW index \in 0..Maximum, get_index(t, index)
      PROVE  [R!Next]_(R!regVars)
  <2> DEFINE i == IF index < Len(connections_) THEN index + 1
                                              ELSE Len(connections_)
  <2>1. i \in DOMAIN connections_ /\ take(t, {connections_[i]}, "holding")
    BY <1>1, <1>9, ConstantsAssumption DEF get_index
  <2> HIDE DEF i
  <2>2. QED
    BY <1>3, <1>9, <2>1 DEF get_index
<1>10. CASE gather(t)
  <2>1. CASE connections_ = <<>>
    BY <1>2, <1>10, <2>1 DEF gather, managerVars, connVars
  <2>2. CASE connections_ # <<>>
    <3>1. Registered # {}
      BY <1>1, <2>2 DEF Registered, Elements
    <3>2. QED
      BY <1>1, <1>10, <2>2, <3>1, take_Borrow DEF gather
  <2>3. QED
    BY <2>1, <2>2
<1>11. CASE release(t)
  <2>1. cur[t] \in held[t]
    BY <1>11 DEF release, IInv, ThreadInv
  <2>2. /\ decrease(cur[t]) /\ held' = [held EXCEPT ![t] = @ \ {cur[t]}]
        /\ UNCHANGED <<opener, connections_>>
    BY <1>11 DEF release, managerVars, connVars
  <2>3. PICK c \in held[t] : c = cur[t]
    BY <2>1
  <2>4. QED
    BY <2>2, <2>3, release_GiveBack
<1>12. CASE put(t)
  <2>1. PICK c \in held[t] : decrease(c)
    BY <1>12 DEF put
  <2>2. held[t] = {c}
    BY <1>12 DEF put, IInv, ThreadInv
  <2>3. held' = [held EXCEPT ![t] = @ \ {c}] /\ UNCHANGED <<opener, connections_>>
    BY <1>12, <2>2 DEF put, managerVars, connVars
  <2>4. QED
    BY <2>1, <2>3, release_GiveBack
<1>13. ASSUME wait_test(t) \/ \E c \in held[t] : abort(t, c)
       PROVE  [R!Next]_(R!regVars)
  BY <1>2, <1>13 DEF wait_test, abort, managerVars, connVars
<1>14. CASE handle_close(t)
  BY <1>14, Actors, handle_close_Registry DEF R!Next
<1>15. CASE Call(t)
  BY <1>4, <1>5, <1>6, <1>7, <1>8, <1>9, <1>15 DEF Call
<1>16. CASE ThreadStep(t)
  BY <1>10, <1>11, <1>12, <1>13, <1>14, <1>16 DEF ThreadStep
<1>17. QED
  BY <1>15, <1>16

LEMMA Next_Registry == IInv /\ IInv' /\ [Next]_vars => [R!Next]_(R!regVars)
<1> SUFFICES ASSUME IInv, IInv', [Next]_vars PROVE [R!Next]_(R!regVars)
  OBVIOUS
<1>1. CASE UNCHANGED vars
  BY <1>1, Stutter DEF vars
<1>2. QED
  BY <1>1, Connection_Registry, Thread_Registry DEF Next
-----------------------------------------------------------------------------
\* Every behaviour of the connection manager, its connections and their callers
\* is one of the bounded register: only live objects are found, none is
\* reclaimed while the list or a thread still has it, none is reclaimed twice.
THEOREM Refinement == Spec => ImplementsRegistry
<1>1. Init => R!Init
  BY Init_Registry
<1>2. QED
  BY <1>1, Next_Registry, Invariance, PTL DEF Spec, ImplementsRegistry, R!Spec
=============================================================================
