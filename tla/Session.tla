------------------------------- MODULE Session -------------------------------
(***************************************************************************)
(* Net_SessionBase_T (net_session_base.inl): a session, the connections it *)
(* opens, and the configurations it allocates for them.                    *)
(*                                                                         *)
(* A connection is reduced to what the session depends on: its stream runs *)
(* from its registration with the manager on and tells the session of its  *)
(* beginning and its end (BitTorrent_PeerStreamHandler_T::start()/end());  *)
(* abort() closes its socket, which makes its id available again, and      *)
(* handle_close() stops the stream, closes the socket, once more if it was *)
(* aborted, and makes the manager forget it.  The session uses the reactor *)
(* or the proactor, whose handle_close()s do it in different orders.       *)
(***************************************************************************)
EXTENDS FiniteSets, Naturals

CONSTANTS Opener,      \* threads that connect and disconnect
          Closer,      \* threads that close the session or wait for it
          Connection,  \* connections that may be opened; each at most once
          MaxHandle,   \* limit on the number of descriptors
          WriteOnly,   \* the (UDP) write-only ones: abort() closes these itself
          None         \* no connection, no id, no thread

ASSUME SessionAssumption ==
  /\ WriteOnly \subseteq Connection
  /\ MaxHandle \in Nat
  /\ None \notin Opener \cup Closer \cup Connection \cup Nat

User == Opener \cup Closer

\* Connection ids are socket handles.
Id == 1..MaxHandle

VARIABLES
  isAsynch_,    \* the session uses the proactor
  phase,        \* of a connection: "none", then "begin", "in" once the session
                \* knows it, "ended", "stopped", "closed" (by the proactor's)
  id,           \* the handle a connection was given
  socket,       \* connections with an open socket
  invalid,      \* those whose handle the reactor's handle_close() has reset
  early,        \* history: those whose handle was closed before their end
  listed,       \* the connections the manager knows
  closing,      \* connections inside, or due for, handle_close()
  connections,  \* state_.connections
  conf,         \* configuration of a connection: "none", "used", or who has
                \* deleted it: "connect" or "close"
  stored,       \* configuration_->connectionConfigurations: id to connection
  lock_,        \* owner of the session's lock
  pc,           \* control state of each user
  mine,         \* connect(): the connection opened
  current,      \* the connection this thread abort()s, or closes itself
  ids,          \* close(): connection_ids_a
  todo          \* close(): ids still to be aborted

connVars  == <<phase, id, socket, invalid, early, listed, closing>>
confVars  == <<conf, stored>>
closeVars == <<current, ids, todo>>
sessVars  == <<connections, confVars, lock_, pc, mine, closeVars>>
vars == <<isAsynch_, phase, id, socket, invalid, early, listed, closing,
          connections, conf, stored, lock_, pc, mine, current, ids, todo>>

Goto(u, p) == pc' = [pc EXCEPT ![u] = p]

\* What the manager's get(id) may return.  A connection keeps its handle when the
\* socket has been closed, until the reactor's handle_close() resets it, and as
\* the list is searched in the order of registration, such a connection precedes
\* the one that has the handle now.
get(i) ==
  LET all == {k \in listed \ invalid : id[k] = i}
  IN IF all \ socket # {} THEN all \ socket ELSE all
-----------------------------------------------------------------------------
(* Connections                                                              *)

\* closesocket() closes whichever socket has the number.
closesocket(k) ==
  LET hit == {l \in socket : id[l] = id[k]}
  IN /\ socket' = socket \ hit
     /\ early' = early \cup {l \in hit : phase[l] \in {"begin", "in"}}

\* abort() closes the handle itself, unless the reactor's handle_close() has reset
\* it or the proactor's is called next, for a write-only connection.
Closes(k) == IF isAsynch_ THEN k \notin WriteOnly ELSE k \notin invalid

\* abort() first shuts the socket down, which makes a dispatcher call
\* handle_close(), except for a write-only connection.
abort(k) ==
  /\ closing' = closing \cup ({k} \ WriteOnly)
  /\ UNCHANGED <<phase, id, socket, invalid, early, listed>>

\* (mutant) abort() marks the handle invalid when it has closed it
abort_close_invalid(k) ==
  /\ closing' = closing \cup {k}
  /\ closesocket(k)
  /\ id' = [id EXCEPT ![k] = None]
  /\ UNCHANGED <<phase, invalid, listed>>

\* It then closes the number it has read, and calls handle_close() itself if the
\* connection is write-only.
abort_close(k) ==
  /\ closing' = closing \cup {k}
  /\ closesocket(k)
  /\ UNCHANGED <<phase, id, invalid, listed>>

\* Session callbacks: connect(id) at the beginning of the stream.  Should its
\* assertion fail, the model goes on, as does the program without assertions.
connect_id(k) ==
  /\ phase[k] = "begin"
  /\ lock_ = None
  /\ phase' = [phase EXCEPT ![k] = "in"]
  /\ connections' = connections \cup {id[k]}
  /\ UNCHANGED <<isAsynch_, id, socket, invalid, early, listed, closing, confVars,
                 lock_, pc, mine, closeVars>>

\* (mutant) the waiting threads are not woken
disconnect_id_silent(k) ==
  /\ phase[k] = "in" /\ k \in closing
  /\ lock_ = None
  /\ id[k] \in connections
  /\ phase' = [phase EXCEPT ![k] = "ended"]
  /\ connections' = connections \ {id[k]}
  /\ UNCHANGED <<isAsynch_, id, socket, invalid, early, listed, closing, confVars,
                 lock_, pc, mine, closeVars>>

\* (mutant) the id is erased only if other connections remain
disconnect_id_keep(k) ==
  /\ phase[k] = "in" /\ k \in closing
  /\ lock_ = None
  /\ id[k] \in connections
  /\ phase' = [phase EXCEPT ![k] = "ended"]
  /\ connections' = IF connections = {id[k]} THEN connections
                    ELSE connections \ {id[k]}
  /\ UNCHANGED <<isAsynch_, id, socket, invalid, early, listed, closing, confVars,
                 lock_, pc, mine, closeVars>>

\* And disconnect(id) at its end, which wakes the threads that wait for all.
\* Should the id be missing, the assertion ends the program, and without it the
\* behaviour is undefined: the connection goes no further.
disconnect_id(k) ==
  /\ phase[k] = "in" /\ k \in closing
  /\ lock_ = None
  /\ id[k] \in connections
  /\ phase' = [phase EXCEPT ![k] = "ended"]
  /\ connections' = connections \ {id[k]}
  /\ pc' = [u \in User |->
              IF connections' # {} THEN pc[u]
              ELSE CASE pc[u] = "asleep"       -> "test"
                     [] pc[u] = "close_asleep" -> "close_test"
                     [] OTHER                  -> pc[u]]
  /\ UNCHANGED <<isAsynch_, id, socket, invalid, early, listed, closing, confVars,
                 lock_, mine, closeVars>>

\* The peer closes the connection; nobody reads from a write-only one.
peer_close(k) ==
  /\ k \in listed \ (closing \cup WriteOnly)
  /\ closing' = closing \cup {k}
  /\ UNCHANGED <<isAsynch_, phase, id, socket, invalid, early, listed, sessVars>>

stream_stopped(k) ==
  /\ phase[k] = "ended"
  /\ phase' = [phase EXCEPT ![k] = "stopped"]
  /\ UNCHANGED <<isAsynch_, id, socket, invalid, early, listed, closing, sessVars>>

\* handle_close() closes the handle.  The reactor's has stopped the stream, unless
\* it is the second one for this connection, which does not wait for the first,
\* and resets the handle; the proactor's has deregistered the connection.
shutdown(k) ==
  /\ k \in closing
  /\ \/ /\ ~isAsynch_ /\ k \notin invalid
        /\ invalid' = invalid \cup {k}
        /\ UNCHANGED phase
     \/ /\ isAsynch_ /\ phase[k] = "stopped" /\ k \notin listed
        /\ phase' = [phase EXCEPT ![k] = "closed"]
        /\ UNCHANGED invalid
  /\ closesocket(k)
  /\ UNCHANGED <<isAsynch_, id, listed, closing, sessVars>>

deregister(k) ==
  /\ k \in closing \cap listed
  /\ IF isAsynch_ THEN phase[k] = "stopped" ELSE k \in invalid
  /\ listed' = listed \ {k}
  /\ UNCHANGED <<isAsynch_, phase, id, socket, invalid, early, closing, sessVars>>

ConnectionStep(k) ==
  connect_id(k) \/ disconnect_id(k) \/ stream_stopped(k) \/ shutdown(k)
    \/ deregister(k)
-----------------------------------------------------------------------------
(* connect(address), disconnect(address)                                    *)

\* Allocate a configuration and connect with it; the socket gets the lowest free
\* descriptor.  The call may fail although
\* the connection exists (the time to initialize is limited): the
\* configuration is deleted all the same.
connect(u) ==
  /\ u \in Opener /\ pc[u] = "idle"
  /\ \E k \in Connection, i \in Id \ {id[l] : l \in socket} :
       /\ \A j \in Id \ {id[l] : l \in socket} : i <= j
       /\ phase[k] = "none"
       /\ phase' = [phase EXCEPT ![k] = "begin"]
       /\ id' = [id EXCEPT ![k] = i]
       /\ socket' = socket \cup {k}
       /\ listed' = listed \cup {k}
       /\ \/ /\ conf' = [conf EXCEPT ![k] = "used"]
             /\ mine' = [mine EXCEPT ![u] = k]
             /\ Goto(u, "get")
          \/ /\ conf' = [conf EXCEPT ![k] = "connect"]
             /\ UNCHANGED <<mine, pc>>
  /\ UNCHANGED <<isAsynch_, invalid, early, closing, connections, stored, lock_,
                 closeVars>>

\* Look the connection up by its handle.
connect_get(u) ==
  /\ pc[u] = "get"
  /\ \/ /\ get(id[mine[u]]) # {}
        /\ Goto(u, "store")
        /\ UNCHANGED <<conf, mine>>
     \/ /\ get(id[mine[u]]) = {}
        /\ conf' = [conf EXCEPT ![mine[u]] = "connect"]
        /\ mine' = [mine EXCEPT ![u] = None]
        /\ Goto(u, "idle")
  /\ UNCHANGED <<isAsynch_, connVars, connections, stored, lock_, closeVars>>

\* Keep the configuration for close(), instead of an older one of this id.
connect_store(u) ==
  LET k == mine[u]
      old == stored[id[k]]
  IN /\ pc[u] = "store"
     /\ lock_ = None
     /\ conf' = [l \in Connection |-> IF l = old THEN "connect" ELSE conf[l]]
     /\ stored' = [stored EXCEPT ![id[k]] = k]
     /\ mine' = [mine EXCEPT ![u] = None]
     /\ Goto(u, "idle")
     /\ UNCHANGED <<isAsynch_, connVars, connections, lock_, closeVars>>

\* The connection whose handle_close() this thread runs itself when it abort()s
\* k.  A second one returns at once with the reactor; with the proactor it waits
\* for the stream as well.
Inline(k) == IF k \in WriteOnly /\ (isAsynch_ \/ k \notin closing) THEN k ELSE None

\* That handle_close() has returned.
Returned(k) ==
  /\ k \notin listed
  /\ phase[k] = IF isAsynch_ THEN "closed" ELSE "stopped"

\* abort() returns to p, or runs handle_close() at q.
abort_return(u, k, p, q) ==
  /\ current' = [current EXCEPT ![u] = Inline(k)]
  /\ Goto(u, IF Inline(k) = None THEN p ELSE q)

\* disconnect(address) aborts the connection to the peer.
disconnect(u) ==
  /\ u \in Opener /\ pc[u] = "idle"
  /\ \E k \in listed :
       \/ /\ Closes(k)
          /\ abort(k)
          /\ current' = [current EXCEPT ![u] = k]
          /\ Goto(u, "disconnect_close")
       \/ /\ ~Closes(k)
          /\ closing' = closing \cup {k}
          /\ abort_return(u, k, "idle", "disconnect")
          /\ UNCHANGED <<phase, id, socket, invalid, early, listed>>
  /\ UNCHANGED <<isAsynch_, connections, confVars, lock_, mine, ids, todo>>

disconnect_close(u) ==
  /\ pc[u] = "disconnect_close"
  /\ abort_close(current[u])
  /\ abort_return(u, current[u], "idle", "disconnect")
  /\ UNCHANGED <<isAsynch_, connections, confVars, lock_, mine, ids, todo>>

disconnect_inline(u) ==
  /\ pc[u] = "disconnect"
  /\ Returned(current[u])
  /\ current' = [current EXCEPT ![u] = None]
  /\ Goto(u, "idle")
  /\ UNCHANGED <<isAsynch_, connVars, connections, confVars, lock_, mine, ids,
                 todo>>
-----------------------------------------------------------------------------
(* close(), wait()                                                          *)

close(u) ==
  /\ u \in Closer /\ pc[u] = "idle"
  /\ lock_ = None
  /\ lock_' = u
  /\ ids' = [ids EXCEPT ![u] = connections]
  /\ todo' = [todo EXCEPT ![u] = connections]
  /\ Goto(u, "abort")
  /\ UNCHANGED <<isAsynch_, connVars, connections, confVars, mine, current>>

\* Abort the connections with the lock held; a connection the manager does not
\* know is skipped.
close_abort(u) ==
  /\ pc[u] = "abort"
  /\ \E i \in todo[u] :
       /\ todo' = [todo EXCEPT ![u] = @ \ {i}]
       /\ \/ \E k \in get(i) :
               /\ Closes(k)
               /\ abort(k)
               /\ current' = [current EXCEPT ![u] = k]
               /\ Goto(u, "abort_close")
          \/ \E k \in get(i) :
               /\ ~Closes(k)
               /\ closing' = closing \cup {k}
               /\ abort_return(u, k, "abort", "inline")
               /\ UNCHANGED <<phase, id, socket, invalid, early, listed>>
          \/ /\ get(i) = {}
             /\ UNCHANGED <<connVars, current, pc>>
  /\ UNCHANGED <<isAsynch_, connections, confVars, lock_, mine, ids>>

close_abort_close(u) ==
  /\ pc[u] = "abort_close"
  /\ abort_close(current[u])
  /\ abort_return(u, current[u], "abort", "inline")
  /\ UNCHANGED <<isAsynch_, connections, confVars, lock_, mine, ids, todo>>

close_inline(u) ==
  /\ pc[u] = "inline"
  /\ Returned(current[u])
  /\ current' = [current EXCEPT ![u] = None]
  /\ Goto(u, "abort")
  /\ UNCHANGED <<isAsynch_, connVars, connections, confVars, lock_, mine, ids,
                 todo>>

\* Return, or wait for the set to become empty, as the caller has chosen.
close_unlock(u) ==
  /\ pc[u] = "abort" /\ todo[u] = {}
  /\ lock_' = None
  /\ \/ /\ Goto(u, "idle")
        /\ ids' = [ids EXCEPT ![u] = {}]
     \/ /\ Goto(u, IF connections = {} THEN "wait_2" ELSE "close_asleep")
        /\ UNCHANGED ids
  /\ UNCHANGED <<isAsynch_, connVars, connections, confVars, mine, current, todo>>

close_test(u) ==
  /\ pc[u] = "close_test"
  /\ lock_ = None
  /\ Goto(u, IF connections = {} THEN "wait_2" ELSE "close_asleep")
  /\ UNCHANGED <<isAsynch_, connVars, connections, confVars, lock_, mine, closeVars>>

\* Wait until the manager has forgotten the ids.
close_wait_2(u) ==
  /\ pc[u] = "wait_2"
  /\ \E i \in ids[u] :
       /\ get(i) = {}
       /\ ids' = [ids EXCEPT ![u] = @ \ {i}]
  /\ UNCHANGED <<isAsynch_, connVars, connections, confVars, lock_, pc, mine, current,
                 todo>>

\* Delete all configurations, without the lock.
close_clean(u) ==
  /\ pc[u] = "wait_2" /\ ids[u] = {}
  /\ conf' = [k \in Connection |->
                IF \E i \in Id : stored[i] = k THEN "close" ELSE conf[k]]
  /\ stored' = [i \in Id |-> None]
  /\ Goto(u, "idle")
  /\ UNCHANGED <<isAsynch_, connVars, connections, lock_, mine, closeVars>>

\* wait()
wait(u) ==
  /\ u \in Closer /\ pc[u] = "idle"
  /\ lock_ = None
  /\ connections # {}
  /\ Goto(u, "asleep")
  /\ UNCHANGED <<isAsynch_, connVars, connections, confVars, lock_, mine, closeVars>>

wait_test(u) ==
  /\ pc[u] = "test"
  /\ lock_ = None
  /\ Goto(u, IF connections = {} THEN "idle" ELSE "asleep")
  /\ UNCHANGED <<isAsynch_, connVars, connections, confVars, lock_, mine, closeVars>>

CloseStep(u) ==
  close_abort(u) \/ close_abort_close(u) \/ close_inline(u) \/ close_unlock(u)
    \/ close_test(u) \/ close_wait_2(u) \/ close_clean(u)

UserStep(u) ==
  connect_get(u) \/ connect_store(u) \/ disconnect_close(u)
    \/ disconnect_inline(u) \/ wait_test(u) \/ CloseStep(u)
-----------------------------------------------------------------------------
Init ==
  /\ phase = [k \in Connection |-> "none"]
  /\ id = [k \in Connection |-> None]
  /\ isAsynch_ \in BOOLEAN
  /\ socket = {} /\ invalid = {} /\ early = {} /\ listed = {} /\ closing = {}
  /\ connections = {}
  /\ conf = [k \in Connection |-> "none"]
  /\ stored = [i \in Id |-> None]
  /\ lock_ = None
  /\ pc = [u \in User |-> "idle"]
  /\ mine = [u \in User |-> None]
  /\ current = [u \in User |-> None]
  /\ ids = [u \in User |-> {}]
  /\ todo = [u \in User |-> {}]

Next ==
  \/ \E k \in Connection : ConnectionStep(k) \/ peer_close(k)
  \/ \E u \in User : \/ connect(u) \/ disconnect(u)
                     \/ close(u) \/ wait(u)
                     \/ UserStep(u)

Spec == Init /\ [][Next]_vars

\* Streams process their messages and stop, threads go on.  The peer need not
\* close.  A lock that is free again and again is got eventually.
Fairness ==
  /\ \A k \in Connection : SF_vars(ConnectionStep(k))
  /\ \A u \in User : SF_vars(UserStep(u))

FairSpec == Spec /\ Fairness
-----------------------------------------------------------------------------
(* Properties                                                               *)

\* The ids the session knows are ids of sockets, also when connect(id) comes after
\* the socket has been closed; lock and control states have their types.
TypeOK ==
  /\ isAsynch_ \in BOOLEAN
  /\ phase \in [Connection -> {"none", "begin", "in", "ended", "stopped",
                               "closed"}]
  /\ id \in [Connection -> Id \cup {None}]
  /\ socket \subseteq Connection /\ invalid \subseteq Connection
  /\ early \subseteq Connection
  /\ listed \subseteq Connection /\ closing \subseteq Connection
  /\ connections \subseteq Id
  /\ conf \in [Connection -> {"none", "used", "connect", "close"}]
  /\ stored \in [Id -> Connection \cup {None}]
  /\ lock_ \in User \cup {None}
  /\ pc \in [User -> {"idle", "get", "store", "disconnect_close", "disconnect",
                      "abort", "abort_close", "inline", "wait_2", "asleep",
                      "test", "close_asleep", "close_test"}]
  /\ mine \in [User -> Connection \cup {None}]
  /\ current \in [User -> Connection \cup {None}]
  /\ ids \in [User -> SUBSET Id] /\ todo \in [User -> SUBSET Id]

\* Another connection has, or had, the same id, and the handle of one of the two
\* was closed before its stream had told the session of its end: by abort(), by
\* the reactor's second handle_close(), or by a connection that closed the number
\* again.
Shared(k) ==
  \E l \in Connection \ {k} : id[l] = id[k] /\ {k, l} \cap early # {}

\* The assertions of connect(id) and disconnect(id) hold although ids are used
\* again: an id is not in the set when its connection begins, and is in it until
\* that connection ends.  They fail for no other reason than a handle that was
\* closed early and handed out again.
AssertionsConfined ==
  \A k \in Connection :
    ~Shared(k) => /\ phase[k] = "begin" => id[k] \notin connections
                  /\ phase[k] = "in" => id[k] \in connections

\* close() finds what it looks for: every connection that has been opened has
\* begun, ids are unique in the manager's list, and no write-only connection is
\* closed with the lock held.
Calm ==
  /\ \A u \in User :
       /\ pc[u] # "inline"
       /\ pc[u] \in {"abort", "abort_close", "close_asleep", "close_test", "wait_2"}
            => \A k \in Connection : phase[k] # "begin"
  /\ \A k, l \in listed : id[k] = id[l] => k = l

\* close() returns, as long as things are calm from its call on, although its
\* connections end at any time and other threads wait and close as well.
CloseReturns ==
  \A u \in Closer :
    [](pc[u] = "abort" /\ todo[u] = ids[u] /\ []Calm => <>(pc[u] = "idle"))

\* A thread in wait() returns when every connection has ended and no other
\* follows it: the wake-up is not lost.
WaitReturns ==
  \A u \in Closer :
    <>[](connections = {}) => [](pc[u] = "asleep" => <>(pc[u] = "idle"))

\* Without that restriction close() need not return: a connection that begins
\* after the ids have been collected is not aborted, get(id) may find another
\* connection, and a write-only connection needs the lock in disconnect(id).
CloseCompletes ==
  \A u \in Closer : pc[u] = "abort" ~> pc[u] = "idle"
-----------------------------------------------------------------------------
(* The inductive invariant behind the safety properties.                    *)

\* Until its stream has ended a connection has its socket, or it was closed early;
\* no two open sockets have the same handle.
HandlesInv ==
  /\ \A k \in Connection :
       /\ phase[k] \in {"begin", "in"} => k \in socket \cup early
       /\ phase[k] = "none" => k \notin socket \cup listed \cup closing
       /\ phase[k] = "none" <=> id[k] = None
  /\ \A k, l \in socket : id[k] = id[l] => k = l

\* The set holds ids of connections in the session, and all that are not shared.
MembersInv ==
  /\ \A i \in connections : \E k \in Connection : phase[k] = "in" /\ id[k] = i
  /\ \A k \in Connection :
       phase[k] = "in" /\ ~Shared(k) => id[k] \in connections

\* The lock is held over the abort()s of close(), by nobody else.
LockInv ==
  \A u \in User : lock_ = u <=> pc[u] \in {"abort", "abort_close", "inline"}

\* A thread that sleeps in wait() or close() sleeps for a reason that still
\* holds: the disconnect(id) that empties the set wakes it.
SleepInv ==
  \A u \in User : pc[u] \in {"asleep", "close_asleep"} => connections # {}

\* What connect() knows of the connection it has opened.
ConnectInv ==
  \A u \in User :
    pc[u] \in {"get", "store"} => /\ mine[u] \in Connection
                                  /\ id[mine[u]] \in Id

\* What abort() knows of its connection.
CurrentInv ==
  \A u \in User :
    pc[u] \in {"disconnect_close", "abort_close"}
      => current[u] \in Connection /\ phase[current[u]] # "none"

IInv ==
  /\ TypeOK /\ HandlesInv /\ MembersInv
  /\ LockInv /\ SleepInv /\ ConnectInv /\ CurrentInv
-----------------------------------------------------------------------------
(* What the repository says and the code does not do.                       *)

\* net_session_base.inl:404, close(): "this step is needed to safely release all
\* connection/stream configurations that are still around": close() does not
\* delete the configuration of a stream that runs.
ReleasedSafely ==
  \A k \in Connection :
    conf[k] = "close" => phase[k] \in {"stopped", "closed"}

\* net_session_base.inl:182, connect(): "this memory is cleaned up when the session
\* closes": connect() does not delete the configuration of a stream that runs.
KeptUntilClose ==
  \A k \in Connection :
    conf[k] = "connect" => phase[k] \in {"stopped", "closed"}

\* net_session_base.inl:494 and 551 assert it of every connection, shared id or not.
AssertionsHold ==
  \A k \in Connection :
    /\ phase[k] = "begin" => id[k] \notin connections
    /\ phase[k] = "in" => id[k] \in connections
=============================================================================
