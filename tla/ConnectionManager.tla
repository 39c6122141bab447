------------------------- MODULE ConnectionManager -------------------------
(***************************************************************************)
(* The connection manager (net_connection_manager.inl), the registration   *)
(* half of a connection (net_connection_base.inl) and the reference-       *)
(* counted part of a reactor connection's life (open(), close(),           *)
(* handle_close() and abort() of net_streamconnection_base.inl).           *)
(*                                                                         *)
(* Every method of the manager runs its list accesses under the recursive  *)
(* connectionsLock_, so each such critical section is one step.  What a    *)
(* thread does between two critical sections is a step of its own, and so  *)
(* is every unprotected access to the connection's isRegistered_ flag.     *)
(*                                                                         *)
(* Actors are the threads that call the manager's interface and, for each  *)
(* connection, the thread that opens it and later dispatches its events.   *)
(* A connection's memory is reclaimed when its reference count reaches 0.  *)
(***************************************************************************)
EXTENDS Integers, Sequences, FiniteSets

CONSTANTS Connection,  \* the connection objects that may be created
          Thread,      \* threads calling the manager
          WriteOnly,   \* (UDP) write-only connections: no event dispatch
          Address,     \* peer addresses
          AddressOf,   \* the peer address of a connection
          Maximum,     \* maximumNumberOfConnections_
          None         \* no connection (NULL)

ASSUME ConstantsAssumption ==
  /\ IsFiniteSet(Thread)
  /\ Thread \cap Connection = {}
  /\ WriteOnly \subseteq Connection
  /\ AddressOf \in [Connection -> Address]
  /\ Maximum \in Nat
  /\ None \notin Connection

Actor == Thread \cup Connection

VARIABLES
  isActive_,      \* manager: accepting new connections
  connections_,   \* manager: registered connections, oldest first
  count,          \* reference counter of each connection; 0: (not yet) alive
  isRegistered_,  \* connection: the unprotected "registered" flag
  closed,         \* connection: state_.closed
  down,           \* connection: abort() has shut down and closed the socket
  opener,         \* connection: progress of the thread inside open()
  operation,      \* history: the initial reference has not been released
  pc,             \* control state of each actor
  decrease_b,     \* handle_close(): the actor's local of that name
  deregister_b,   \* handle_close(): the actor's local 'deregister'
  held,           \* thread: connections it holds a reference to
  cur,            \* thread: the connection it is abort()ing
  again,          \* thread: abort(true): gather again when done
  waitFor         \* thread: wait_2() argument, None for wait()

managerVars == <<isActive_, connections_>>
connVars    == <<isRegistered_, closed, down, opener, operation>>
localVars   == <<decrease_b, deregister_b>>
threadVars  == <<held, cur, again, waitFor>>
vars == <<isActive_, connections_, count, isRegistered_, closed, down, opener,
          operation, pc, decrease_b, deregister_b, held, cur, again, waitFor>>

ClosePc  == {"close", "close_flag", "close_count", "close_test",
             "close_clear", "close_deregister", "close_release"}
FailPc   == {"fail_test", "fail_clear", "fail_deregister", "fail_release"}
ThreadPc == {"idle", "gather", "abort", "release", "holding",
             "test", "asleep"} \cup ClosePc
ConnPc   == {"none", "register", "flag", "running", "done"}
              \cup FailPc \cup ClosePc

Elements(s) == {s[i] : i \in DOMAIN s}

\* The list after iterator.remove() has unlinked connection c.
Without(s, c) ==
  LET i == CHOOSE j \in DOMAIN s : s[j] = c
  IN  [j \in 1..(Len(s) - 1) |-> IF j < i THEN s[j] ELSE s[j + 1]]

Registered == Elements(connections_)

\* The connection an actor is working on.
Current(a) == IF a \in Connection THEN a ELSE cur[a]

\* Common_ReferenceCounter_T (an external library); the object is deleted when
\* its counter reaches zero.
increase(c) == count' = [count EXCEPT ![c] = @ + 1]
decrease(c) == count' = [count EXCEPT ![c] = @ - 1]
increaseAll(S) == count' = [c \in Connection |-> IF c \in S THEN count[c] + 1
                                                            ELSE count[c]]
Goto(a, p) == pc' = [pc EXCEPT ![a] = p]

\* close(): called by the connector/acceptor after open() has failed; ends up
\* in handle_close().
close(c) == Goto(c, "close")

\* Net_ConnectionBase_T::register_() assigns the manager's answer to the flag
\* after the manager has released its lock.
setRegistered(c) == isRegistered_' = [isRegistered_ EXCEPT ![c] = TRUE]
-----------------------------------------------------------------------------
(* Opening a connection.                                                   *)

\* The connector/acceptor creates the handler (reference count 1) and calls
\* open(), which first takes a reference of its own.
make(c) ==
  /\ pc[c] = "none"
  /\ count' = [count EXCEPT ![c] = 2]
  /\ operation' = [operation EXCEPT ![c] = TRUE]
  /\ opener' = [opener EXCEPT ![c] = "opening"]
  /\ Goto(c, "register")
  /\ UNCHANGED <<managerVars, isRegistered_, closed, down, localVars,
                 threadVars>>

\* (mutant) register_() that lets one connection too many in
register_full(c) ==
  /\ pc[c] = "register"
  /\ isActive_
  /\ Len(connections_) <= Maximum
  /\ connections_' = Append(connections_, c)
  /\ increase(c)
  /\ Goto(c, "flag")
  /\ UNCHANGED <<isActive_, connVars, localVars, threadVars>>

\* Net_Connection_Manager_T::register_(), or open() failing before it.
register_(c) ==
  /\ pc[c] = "register"
  /\ \/ /\ isActive_
        /\ Len(connections_) < Maximum
        /\ connections_' = Append(connections_, c)
        /\ increase(c)
        /\ Goto(c, "flag")
     \/ /\ Goto(c, "fail_release")
        /\ UNCHANGED <<connections_, count>>
  /\ UNCHANGED <<isActive_, connVars, localVars, threadVars>>

\* open() goes on: the registered flag is set, then the stream is initialized
\* and the handler registered with the reactor (unless write-only); either may
\* fail.
opened(c) ==
  /\ pc[c] = "flag"
  /\ setRegistered(c)
  /\ \/ /\ Goto(c, IF c \in WriteOnly THEN "done" ELSE "running")
        /\ opener' = [opener EXCEPT ![c] = "opened"]
     \/ /\ Goto(c, "fail_test")
        /\ UNCHANGED opener
  /\ UNCHANGED <<managerVars, count, closed, down, operation, localVars,
                 threadVars>>

\* open() returns 0, releasing its reference; the reactor may already be
\* dispatching events of this connection.
open_return(c) ==
  /\ opener[c] = "opened"
  /\ decrease(c)
  /\ opener' = [opener EXCEPT ![c] = "returned"]
  /\ UNCHANGED <<managerVars, isRegistered_, closed, down, operation, pc,
                 localVars, threadVars>>

\* open() fails: its reference is released if it is not the only one; the
\* connector then calls close(), which runs handle_close().
open_error(c) ==
  /\ pc[c] = "fail_release"
  /\ IF count[c] > 1
     THEN /\ decrease(c)
          /\ opener' = [opener EXCEPT ![c] = "failed"]
     ELSE /\ opener' = [opener EXCEPT ![c] = "leaked"]
          /\ UNCHANGED count
  /\ close(c)
  /\ UNCHANGED <<managerVars, isRegistered_, closed, down, operation,
                 localVars, threadVars>>
-----------------------------------------------------------------------------
(* Net_ConnectionBase_T::deregister(), called from handle_close() and from  *)
(* the error path of open().                                                *)

deregister_test(a, here, yes, no) ==
  /\ pc[a] = here
  /\ Goto(a, IF isRegistered_[Current(a)] THEN yes ELSE no)
  /\ UNCHANGED <<managerVars, count, connVars, localVars, threadVars>>

deregister_clear(a, here, next) ==
  /\ pc[a] = here
  /\ isRegistered_' = [isRegistered_ EXCEPT ![Current(a)] = FALSE]
  /\ Goto(a, next)
  /\ UNCHANGED <<managerVars, count, closed, down, opener, operation,
                 localVars, threadVars>>

\* (mutant) deregister() that forgets to wake the waiting threads
broadcast_none(p) == p

\* Threads blocked on connectionsCondition_ that a broadcast releases; they
\* test their loop condition again.
broadcast(p) == [a \in Actor |-> IF p[a] = "asleep" THEN "test" ELSE p[a]]

\* (mutant) deregister() that leaves the list's reference behind
deregister_leak(a, here, next) ==
  LET c == Current(a)
  IN  /\ pc[a] = here
      /\ IF c \in Registered
         THEN /\ connections_' = Without(connections_, c)
              /\ pc' = [broadcast(pc) EXCEPT ![a] = next]
         ELSE Goto(a, next) /\ UNCHANGED connections_
      /\ UNCHANGED <<isActive_, count, connVars, localVars, threadVars>>

\* (mutant) deregister() that gives its reference up but does not unlink
deregister_linked(a, here, next) ==
  /\ pc[a] = here
  /\ IF Current(a) \in Registered THEN decrease(Current(a)) ELSE UNCHANGED count
  /\ Goto(a, next)
  /\ UNCHANGED <<managerVars, connVars, localVars, threadVars>>

\* Net_Connection_Manager_T::deregister()
deregister(a, here, next) ==
  LET c == Current(a)
  IN  /\ pc[a] = here
      /\ IF c \in Registered
         THEN /\ connections_' = Without(connections_, c)
              /\ decrease(c)
              /\ pc' = [broadcast(pc) EXCEPT ![a] = next]
         ELSE /\ Goto(a, next)
              /\ UNCHANGED <<connections_, count>>
      /\ UNCHANGED <<isActive_, connVars, localVars, threadVars>>
-----------------------------------------------------------------------------
(* Net_StreamConnectionBase_T::handle_close()                               *)

\* The reactor dispatches handle_close(): the peer closed the connection, a
\* read failed, or abort() closed the socket.
dispatch_close(c) ==
  /\ pc[c] = "running"
  /\ Goto(c, "close")
  /\ UNCHANGED <<managerVars, count, connVars, localVars, threadVars>>

\* (mutant) every handle_close() takes itself for the first one
close_state_again(a) ==
  /\ pc[a] = "close"
  /\ decrease_b' = [decrease_b EXCEPT ![a] = TRUE]
  /\ closed' = [closed EXCEPT ![Current(a)] = TRUE]
  /\ Goto(a, "close_flag")
  /\ UNCHANGED <<managerVars, count, isRegistered_, down, opener, operation,
                 deregister_b, threadVars>>

close_state(a) ==
  /\ pc[a] = "close"
  /\ decrease_b' = [decrease_b EXCEPT ![a] = ~closed[Current(a)]]
  /\ closed' = [closed EXCEPT ![Current(a)] = TRUE]
  /\ Goto(a, "close_flag")
  /\ UNCHANGED <<managerVars, count, isRegistered_, down, opener, operation,
                 deregister_b, threadVars>>

close_flag(a) ==
  /\ pc[a] = "close_flag"
  /\ deregister_b' = [deregister_b EXCEPT ![a] = isRegistered_[Current(a)]]
  /\ Goto(a, "close_count")
  /\ UNCHANGED <<managerVars, count, connVars, decrease_b, threadVars>>

\* (mutant) an off-by-one in the test for the last reference
close_count_two(a) ==
  /\ pc[a] = "close_count"
  /\ decrease_b' = [decrease_b EXCEPT ![a] = @ /\ count[Current(a)] > 2]
  /\ Goto(a, IF deregister_b[a] THEN "close_test" ELSE "close_release")
  /\ UNCHANGED <<managerVars, count, connVars, deregister_b, threadVars>>

close_count(a) ==
  /\ pc[a] = "close_count"
  /\ decrease_b' = [decrease_b EXCEPT ![a] = @ /\ count[Current(a)] > 1]
  /\ Goto(a, IF deregister_b[a] THEN "close_test" ELSE "close_release")
  /\ UNCHANGED <<managerVars, count, connVars, deregister_b, threadVars>>

close_release(a) ==
  LET c == Current(a)
  IN  /\ pc[a] = "close_release"
      /\ IF decrease_b[a]
         THEN /\ decrease(c)
              /\ operation' = [operation EXCEPT ![c] = FALSE]
         ELSE UNCHANGED <<count, operation>>
      /\ decrease_b' = [decrease_b EXCEPT ![a] = FALSE]
      /\ deregister_b' = [deregister_b EXCEPT ![a] = FALSE]
      /\ Goto(a, IF a \in Connection THEN "done" ELSE "release")
      /\ UNCHANGED <<managerVars, isRegistered_, closed, down, opener,
                     threadVars>>

handle_close(a) ==
  \/ close_state(a)
  \/ close_flag(a)
  \/ close_count(a)
  \/ deregister_test(a, "close_test", "close_clear", "close_release")
  \/ deregister_clear(a, "close_clear", "close_deregister")
  \/ deregister(a, "close_deregister", "close_release")
  \/ close_release(a)

open_fail(c) ==
  \/ deregister_test(c, "fail_test", "fail_clear", "fail_release")
  \/ deregister_clear(c, "fail_clear", "fail_deregister")
  \/ deregister(c, "fail_deregister", "fail_release")
  \/ open_error(c)
-----------------------------------------------------------------------------
(* The manager's interface, called by thread t.                             *)

\* start(), once the visitor timer is scheduled
start(t) ==
  /\ pc[t] = "idle"
  /\ isActive_' = TRUE
  /\ UNCHANGED <<connections_, count, connVars, pc, localVars, threadVars>>

\* stop(), optionally followed by wait()
stop(t, waitForCompletion) ==
  /\ pc[t] = "idle"
  /\ isActive_' = FALSE
  /\ Goto(t, IF waitForCompletion THEN "test" ELSE "idle")
  /\ UNCHANGED <<connections_, count, connVars, localVars, threadVars>>

\* wait() (c = None) and wait_2(c)
wait(t, c) ==
  /\ pc[t] = "idle"
  /\ waitFor' = [waitFor EXCEPT ![t] = c]
  /\ Goto(t, "test")
  /\ UNCHANGED <<managerVars, count, connVars, localVars, held, cur, again>>

MustWait(t) == IF waitFor[t] = None THEN connections_ # <<>>
                                    ELSE waitFor[t] \in Registered

\* The loop test, and the atomic release of the lock by the condition.
wait_test(t) ==
  /\ pc[t] = "test"
  /\ \/ /\ MustWait(t)
        /\ Goto(t, "asleep")
        /\ UNCHANGED waitFor
     \/ /\ ~MustWait(t)
        /\ Goto(t, "idle")
        /\ waitFor' = [waitFor EXCEPT ![t] = None]
  /\ UNCHANGED <<managerVars, count, connVars, localVars, held, cur, again>>

\* (mutant) a lookup that does not count the reference it returns
take_uncounted(t, S, next) ==
  /\ held' = [held EXCEPT ![t] = S]
  /\ Goto(t, next)
  /\ UNCHANGED <<managerVars, count, connVars, localVars, cur, waitFor>>

\* Take references to the connections in S under the lock.
take(t, S, next) ==
  /\ increaseAll(S)
  /\ held' = [held EXCEPT ![t] = S]
  /\ Goto(t, next)
  /\ UNCHANGED <<managerVars, connVars, localVars, cur, waitFor>>

\* The head of the list is the least recent connection, the tail the most
\* recent one.
abortStrategy(t, i) ==
  /\ pc[t] = "idle"
  /\ connections_ # <<>>
  /\ i \in {1, Len(connections_)}
  /\ take(t, {connections_[i]}, "abort")
  /\ UNCHANGED again

abort_address(t, address) ==
  LET matching == {c \in Registered : AddressOf[c] = address}
  IN  /\ pc[t] = "idle"
      /\ matching # {}
      /\ take(t, matching, "abort")
      /\ UNCHANGED again

abort_all(t, waitForCompletion) ==
  /\ pc[t] = "idle"
  /\ again' = [again EXCEPT ![t] = waitForCompletion]
  /\ Goto(t, "gather")
  /\ UNCHANGED <<managerVars, count, connVars, localVars, held, cur, waitFor>>

\* step1 of abort(bool)
gather(t) ==
  /\ pc[t] = "gather"
  /\ IF connections_ = <<>>
     THEN /\ again' = [again EXCEPT ![t] = FALSE]
          /\ Goto(t, "idle")
          /\ UNCHANGED <<managerVars, count, connVars, localVars, held, cur,
                         waitFor>>
     ELSE /\ take(t, Registered, "abort")
          /\ UNCHANGED again

\* (mutant) abort() that leaves the socket open
abort_open(t, c) ==
  /\ pc[t] = "abort"
  /\ c \in held[t]
  /\ cur' = [cur EXCEPT ![t] = c]
  /\ Goto(t, IF c \in WriteOnly THEN "close" ELSE "release")
  /\ UNCHANGED <<managerVars, count, connVars, localVars, held, again, waitFor>>

\* Net_StreamConnectionBase_T::abort() on one of the gathered connections:
\* shut the socket down and close it; a write-only connection has no reader
\* that would notice, so the caller runs handle_close() itself.
abort(t, c) ==
  /\ pc[t] = "abort"
  /\ c \in held[t]
  /\ cur' = [cur EXCEPT ![t] = c]
  /\ down' = [down EXCEPT ![c] = TRUE]
  /\ Goto(t, IF c \in WriteOnly THEN "close" ELSE "release")
  /\ UNCHANGED <<managerVars, count, isRegistered_, closed, opener, operation,
                 localVars, held, again, waitFor>>

\* decrease() after abort(); then the next connection, another round, or done
release(t) ==
  LET rest == held[t] \ {cur[t]}
  IN  /\ pc[t] = "release"
      /\ decrease(cur[t])
      /\ held' = [held EXCEPT ![t] = rest]
      /\ cur' = [cur EXCEPT ![t] = None]
      /\ Goto(t, IF rest # {} THEN "abort"
                 ELSE IF again[t] THEN "gather" ELSE "idle")
      /\ UNCHANGED <<managerVars, connVars, localVars, again, waitFor>>

\* get(handle)
get_handle(t, c) ==
  /\ pc[t] = "idle"
  /\ c \in Registered
  /\ take(t, {c}, "holding")
  /\ UNCHANGED again

\* get(address): the first match
get_address(t, address) ==
  /\ pc[t] = "idle"
  /\ \E i \in DOMAIN connections_ :
       /\ AddressOf[connections_[i]] = address
       /\ \A j \in 1..(i - 1) : AddressOf[connections_[j]] # address
       /\ take(t, {connections_[i]}, "holding")
  /\ UNCHANGED again

\* operator[](index): ACE's iterator leaves the pointer alone at the end of
\* the list, so an index past the end yields the last connection.
get_index(t, index) ==
  /\ pc[t] = "idle"
  /\ connections_ # <<>>
  /\ take(t, {connections_[IF index < Len(connections_)
                           THEN index + 1 ELSE Len(connections_)]}, "holding")
  /\ UNCHANGED again

\* The caller is done with the connection it got.
put(t) ==
  /\ pc[t] = "holding"
  /\ \E c \in held[t] : decrease(c)
  /\ held' = [held EXCEPT ![t] = {}]
  /\ Goto(t, "idle")
  /\ UNCHANGED <<managerVars, connVars, localVars, cur, again, waitFor>>
-----------------------------------------------------------------------------
Init ==
  /\ isActive_ = TRUE
  /\ connections_ = <<>>
  /\ count = [c \in Connection |-> 0]
  /\ isRegistered_ = [c \in Connection |-> FALSE]
  /\ closed = [c \in Connection |-> FALSE]
  /\ down = [c \in Connection |-> FALSE]
  /\ opener = [c \in Connection |-> "new"]
  /\ operation = [c \in Connection |-> FALSE]
  /\ pc = [a \in Actor |-> IF a \in Connection THEN "none" ELSE "idle"]
  /\ decrease_b = [a \in Actor |-> FALSE]
  /\ deregister_b = [a \in Actor |-> FALSE]
  /\ held = [t \in Thread |-> {}]
  /\ cur = [t \in Thread |-> None]
  /\ again = [t \in Thread |-> FALSE]
  /\ waitFor = [t \in Thread |-> None]

\* The steps a thread takes once it is inside open() or handle_close().
ConnectionStep(c) ==
  \/ register_(c)
  \/ opened(c)
  \/ open_return(c)
  \/ open_fail(c)
  \/ handle_close(c)

\* The steps a caller takes until the call returns.
ThreadStep(t) ==
  \/ wait_test(t)
  \/ gather(t)
  \/ \E c \in held[t] : abort(t, c)
  \/ handle_close(t)
  \/ release(t)
  \/ put(t)

\* The calls a thread may make.
Call(t) ==
  \/ start(t)
  \/ \E b \in BOOLEAN : stop(t, b)
  \/ \E c \in Connection \cup {None} : wait(t, c)
  \/ \E i \in {1, Len(connections_)} : abortStrategy(t, i)
  \/ \E address \in Address : abort_address(t, address)
  \/ \E b \in BOOLEAN : abort_all(t, b)
  \/ \E c \in Connection : get_handle(t, c)
  \/ \E address \in Address : get_address(t, address)
  \/ \E index \in 0..Maximum : get_index(t, index)

Next ==
  \/ \E c \in Connection : make(c) \/ dispatch_close(c) \/ ConnectionStep(c)
  \/ \E t \in Thread : Call(t) \/ ThreadStep(t)

Spec == Init /\ [][Next]_vars

\* Threads make progress inside the code: an opener or dispatcher inside
\* open()/handle_close() and a caller inside a manager method are scheduled
\* again, and the reactor dispatches a handler whose socket was closed.
\* Nothing forces a peer to close, a thread to make a call, or a blocked
\* thread to be woken other than by a broadcast.
Fairness ==
  /\ \A c \in Connection : WF_vars(ConnectionStep(c))
  /\ \A c \in Connection : WF_vars(down[c] /\ dispatch_close(c))
  /\ \A t \in Thread : WF_vars(ThreadStep(t))

FairSpec == Spec /\ Fairness
-----------------------------------------------------------------------------
(* Properties                                                              *)

\* Counters, lists and control states have their types; no reference count
\* drops below 0, that is, nobody releases a reference nobody owns.
TypeOK ==
  /\ isActive_ \in BOOLEAN
  /\ connections_ \in Seq(Connection)
  /\ count \in [Connection -> Nat]
  /\ isRegistered_ \in [Connection -> BOOLEAN]
  /\ closed \in [Connection -> BOOLEAN]
  /\ down \in [Connection -> BOOLEAN]
  /\ opener \in [Connection -> {"new", "opening", "opened", "returned",
                                "failed", "leaked"}]
  /\ operation \in [Connection -> BOOLEAN]
  /\ pc \in [Actor -> ThreadPc \cup ConnPc]
  /\ \A c \in Connection : pc[c] \in ConnPc
  /\ \A t \in Thread : pc[t] \in ThreadPc
  /\ decrease_b \in [Actor -> BOOLEAN]
  /\ deregister_b \in [Actor -> BOOLEAN]
  /\ held \in [Thread -> SUBSET Connection]
  /\ cur \in [Thread -> Connection \cup {None}]
  /\ again \in [Thread -> BOOLEAN]
  /\ waitFor \in [Thread -> Connection \cup {None}]

\* One if b, else zero.
Ref(b) == IF b THEN 1 ELSE 0

\* Threads that own a reference to c.
HoldersOf(c) == {t \in Thread : c \in held[t]}

\* The reference held by open() until it returns (or forever, if its error
\* path found it to be the last one).
OpenReference(c) == opener[c] \in {"opening", "opened", "leaked"}

\* Reference counting is exact: the counter of every connection equals the
\* number of references that are owned: the initial one (released by the first
\* handle_close()), open()'s, the manager's (while the connection is in the
\* list) and one per thread that obtained the connection from the manager.
ReferencesExact ==
  \A c \in Connection :
    count[c] = Ref(operation[c]) + Ref(OpenReference(c))
             + Ref(c \in Registered) + Cardinality(HoldersOf(c))

\* An actor that is still going to touch connection c: the thread inside
\* open() or handle_close(), the dispatcher, and every thread that obtained c
\* from the manager.
Uses(a, c) ==
  \/ a = c /\ pc[a] \in {"register", "flag", "running"} \cup FailPc \cup ClosePc
  \/ a \in Thread /\ c \in held[a]

\* A connection in the manager's list is alive, and a connection is reclaimed
\* under an actor that still works on it in one case only: open() of a
\* write-only connection has failed, another thread's abort() has run
\* handle_close() and released the initial reference in the meantime, and the
\* connector is inside the close() it calls after the failure.  In every other
\* order of open(), abort(), handle_close(), deregister() and the releases the
\* object outlives its last use.
UseAfterFreeConfined ==
  /\ \A c \in Registered : count[c] > 0
  /\ \A a \in Actor, c \in Connection :
       Uses(a, c) /\ count[c] = 0 =>
         /\ a = c /\ c \in WriteOnly /\ pc[c] \in ClosePc
         /\ opener[c] = "failed" /\ closed[c] /\ ~operation[c]

\* No connection is in the list twice, nor are there more than the maximum.
ListBounded ==
  /\ Len(connections_) <= Maximum
  /\ \A i, j \in DOMAIN connections_ :
       connections_[i] = connections_[j] => i = j

\* No lost wake-up: a thread blocked in wait() or wait_2() is blocked for a
\* reason that still holds, i.e. every change of the list that could end its
\* loop has been followed by a broadcast under the same lock.
NoLostWakeup ==
  \A t \in Thread : pc[t] = "asleep" => MustWait(t)

\* A reclaimed connection stays reclaimed: no lookup hands out a connection
\* whose counter has dropped to zero, no late registration revives it.
NoResurrection ==
  [][\A c \in Connection :
       (opener[c] # "new" /\ count[c] = 0) => count'[c] = 0]_vars

\* abort(bool) terminates; in particular the loop of abort(true) ends although
\* each round only closes the sockets and leaves the rest to the reactor.
AbortCompletes ==
  \A t \in Thread : pc[t] = "gather" ~> pc[t] = "idle"

\* Once the manager has been stopped and its list is empty every wait() and
\* wait_2() returns, unless the manager is started again.
WaitCompletes ==
  \A t \in Thread :
    pc[t] \in {"test", "asleep"} /\ connections_ = <<>> /\ ~isActive_
      ~> pc[t] = "idle" \/ isActive_

\* A connection with a reader that was opened and has been closed by either
\* side is eventually deregistered and its memory reclaimed, whatever threads
\* got hold of it in the meantime (doc/test_cases.txt, 1.1.1.3.2).
ClosedIsReclaimed ==
  \A c \in Connection \ WriteOnly :
    (opener[c] \in {"opened", "returned"} /\ (down[c] \/ closed[c]))
      ~> count[c] = 0
-----------------------------------------------------------------------------
(* The inductive invariant behind the safety properties.                    *)

\* What open() has done so far determines who can know the connection.
OpeningInv ==
  \A c \in Connection :
    /\ pc[c] = "none" <=> opener[c] = "new"
    /\ pc[c] \in {"register", "flag"} \cup FailPc <=> opener[c] = "opening"
    /\ pc[c] = "none" => /\ HoldersOf(c) = {}
                         /\ ~operation[c]
                         /\ ~closed[c]
    /\ pc[c] \in {"none", "register"} => c \notin Registered

\* What a thread holds at each point of the manager's methods.
ThreadInv ==
  \A t \in Thread :
    /\ pc[t] \in {"idle", "gather", "test", "asleep"} => held[t] = {}
    /\ pc[t] = "holding" => \E c \in Connection : held[t] = {c}
    /\ pc[t] \in ClosePc \cup {"release"} => cur[t] \in held[t]
    /\ pc[t] \in ClosePc => cur[t] \in WriteOnly

\* The initial reference is released once: it exists until the first
\* handle_close(), whose actor is the only one to have decrease_b set.
ClosingInv ==
  /\ \A c \in Connection : pc[c] # "none" /\ ~closed[c] => operation[c]
  /\ \A a \in Actor :
       decrease_b[a] => /\ pc[a] \in ClosePc \ {"close"}
                        /\ closed[Current(a)]
                        /\ operation[Current(a)]
  /\ \A a, b \in Actor :
       decrease_b[a] /\ decrease_b[b] /\ Current(a) = Current(b) => a = b

\* A connection with a reader is closed by its dispatcher only, and only such a
\* connection is dispatched; the thread that opened a write-only connection
\* closes it only after open() has failed.
ReaderInv ==
  /\ \A c \in Connection \ WriteOnly :
       /\ pc[c] \notin {"none", "done"} => operation[c]
       /\ pc[c] \notin ClosePc \cup {"done"} => ~closed[c]
  /\ \A c \in Connection : pc[c] = "running" => c \notin WriteOnly
  /\ \A c \in Connection :
       pc[c] \in ClosePc /\ c \in WriteOnly => opener[c] \in {"failed", "leaked"}

IInv ==
  /\ TypeOK
  /\ ListBounded
  /\ OpeningInv
  /\ ThreadInv
  /\ ClosingInv
  /\ ReaderInv
  /\ ReferencesExact
  /\ NoLostWakeup
-----------------------------------------------------------------------------
(* What comments and documents of the repository say, and the code does not *)
(* do (see the runs that expect a violation).                               *)

\* net_streamconnection_base.inl:369: after a failed open() "the connector
\* invokes close(NORMAL_CLOSE_OPERATION) --> release the final reference
\* there", i.e. when that close() is done the initial reference is gone.
FailedOpenIsReleased ==
  \A c \in Connection :
    pc[c] = "done" /\ opener[c] = "failed" => ~operation[c]

\* The same comment: the final reference of a connection whose open() failed is
\* released in close(), i.e. not before it.
FinalReferenceIsClosed ==
  \A c \in Connection : pc[c] \in ClosePc => count[c] > 0

\* doc/test_cases.txt, 1.2.1.3.2: on shutdown of a (write-only) connection the
\* manager's reference is released and the memory reclaimed at the end of the
\* final handle_close().
WriteOnlyIsReclaimed ==
  \A c \in WriteOnly :
    (opener[c] \in {"opened", "returned"} /\ closed[c]) ~> count[c] = 0
=============================================================================
