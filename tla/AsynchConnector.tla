--------------------------- MODULE AsynchConnector ---------------------------
(***************************************************************************)
(* Callers connect to one peer through Net_Client_Common_Tools::connect    *)
(* (net_client_common_tools.inl) and the proactor's connector              *)
(* Net_Client_AsynchConnector_T (net_client_asynchconnector.inl), which    *)
(* the callers share.  Dispatchers are the threads of the proactor.        *)
(*                                                                         *)
(* A handle is a number that the operating system hands out again once the *)
(* socket has been closed.  The connections are reduced to what connect()  *)
(* sees of them, whether the manager knows them, their status and their    *)
(* stream, and to when they close their handle: abort() and every          *)
(* handle_close() do, and the connection keeps the number.  It is a thread *)
(* of the proactor that runs open() and handle_close(); here a connection  *)
(* takes these steps by itself.                                            *)
(***************************************************************************)
EXTENDS Integers, FiniteSets

CONSTANTS Caller,      \* threads that connect
          Dispatcher,  \* threads of the proactor
          Connection,  \* connection handlers
          MaxHandle,   \* limit on the number of descriptors
          Retries,     \* retries_in of each caller
          MaxCalls,    \* bound on the number of calls
          None         \* no handle

ASSUME ConnectorAssumption ==
  /\ IsFiniteSet(Caller) /\ IsFiniteSet(Dispatcher)
  /\ MaxHandle \in Nat /\ Retries \in [Caller -> Nat] /\ MaxCalls \in Nat
  /\ None \notin Nat

Handle == 1..MaxHandle

VARIABLES
  open,         \* handles of the sockets that exist
  connecting,   \* connects the proactor has not completed
  conn,         \* where each connection is (see Life)
  chandle,      \* the handle a connection was given
  shut,         \* history: connections that have closed their handle
  stolen,       \* history: one of them has closed it again, when it was the
                \* number of another socket
  handles_,     \* results by handle: "absent", "pending", "ok" or "error"
  pc,           \* control state of each caller
  handle,       \* the handle of the caller's attempt
  retries,      \* retries the caller has left
  found,        \* the connection the caller holds
  calls,        \* number of calls so far (bounded by MaxCalls)
  dpc,          \* control state of each dispatcher
  dhandle,      \* the handle of the completion being dispatched
  success       \* result_in.success () of that completion

connVars == <<conn, chandle, shut, stolen>>
callVars == <<pc, handle, retries, found, calls>>
dispVars == <<dpc, dhandle, success>>
vars == <<open, connecting, conn, chandle, shut, stolen, handles_, pc, handle,
          retries, found, calls, dpc, dhandle, success>>

\* A connection: not yet registered with the manager; registered; its status is
\* OK; it no longer is; the stream has been stopped; the manager has forgotten
\* the connection; its handle_close() has closed the handle.
Life == {"free", "new", "initializing", "ok", "closed", "stopped",
         "deregistered", "released"}

Goto(c, p) == pc' = [pc EXCEPT ![c] = p]

\* The connect() of the connector has failed, or what followed it.
Retry(c) ==
  IF retries[c] > 0
  THEN /\ retries' = [retries EXCEPT ![c] = @ - 1]
       /\ Goto(c, "connect")
  ELSE /\ Goto(c, "idle")
       /\ UNCHANGED retries

registered ==
  {k \in Connection : conn[k] \in {"initializing", "ok", "closed", "stopped"}}
-----------------------------------------------------------------------------
(* Net_Client_Common_Tools::connect() and the connector's connect()         *)

call(c) ==
  /\ pc[c] = "idle"
  /\ calls < MaxCalls
  /\ calls' = calls + 1
  /\ retries' = [retries EXCEPT ![c] = Retries[c]]
  /\ Goto(c, "connect")
  /\ UNCHANGED <<open, connecting, connVars, handles_, handle, found, dispVars>>

\* socket() returns the lowest free descriptor, or fails at the limit.
connect_socket(c) ==
  /\ pc[c] = "connect"
  /\ \/ \E h \in Handle \ open :
          /\ \A g \in Handle \ open : h <= g
          /\ open' = open \cup {h}
          /\ handle' = [handle EXCEPT ![c] = h]
          /\ Goto(c, "options")
          /\ UNCHANGED retries
     \/ /\ open = Handle
        /\ Retry(c)
        /\ UNCHANGED <<open, handle>>
  /\ UNCHANGED <<connecting, connVars, handles_, found, calls, dispVars>>

\* Set the socket options, then insert() the handle: this keeps the result of
\* an earlier attempt with the same handle.
connect_insert(c) ==
  /\ pc[c] = "options"
  /\ \/ /\ handles_' = [handles_ EXCEPT ![handle[c]] =
                          IF @ = "absent" THEN "pending" ELSE @]
        /\ Goto(c, "start")
     \/ /\ Goto(c, "error")
        /\ UNCHANGED handles_
  /\ UNCHANGED <<open, connecting, connVars, handle, retries, found, calls,
                 dispVars>>

\* The proactor has one connect operation per handle.
connect_start(c) ==
  /\ pc[c] = "start"
  /\ \/ /\ handle[c] \notin connecting
        /\ connecting' = connecting \cup {handle[c]}
        /\ Goto(c, "wait")
     \/ /\ Goto(c, "error")
        /\ UNCHANGED connecting
  /\ UNCHANGED <<open, connVars, handles_, handle, retries, found, calls,
                 dispVars>>

\* (mutant) a connect that could not be started keeps its socket
connect_close_not(c) ==
  /\ pc[c] = "error"
  /\ Goto(c, "erase")
  /\ UNCHANGED <<open, connecting, connVars, handles_, handle, retries, found,
                 calls, dispVars>>

connect_close(c) ==
  /\ pc[c] = "error"
  /\ open' = open \ {handle[c]}
  /\ Goto(c, "erase")
  /\ UNCHANGED <<connecting, connVars, handles_, handle, retries, found,
                 calls, dispVars>>

connect_erase(c) ==
  /\ pc[c] = "erase"
  /\ handles_' = [handles_ EXCEPT ![handle[c]] = "absent"]
  /\ handle' = [handle EXCEPT ![c] = None]
  /\ Retry(c)
  /\ UNCHANGED <<open, connecting, connVars, found, calls, dispVars>>
-----------------------------------------------------------------------------
(* wait()                                                                   *)

\* wait() returns: another attempt, or on to the manager (the socket belongs to
\* the proactor or to the connection now).
Waited(c, results) ==
  /\ \/ /\ retries[c] > 0
        /\ "ok" \notin results \/ Cardinality(results) > 1
        /\ retries' = [retries EXCEPT ![c] = @ - 1]
        /\ Goto(c, "connect")
     \/ /\ retries[c] = 0 \/ "ok" \in results
        /\ Goto(c, "register")
        /\ UNCHANGED retries
  /\ handle' = [handle EXCEPT ![c] = None]
  /\ UNCHANGED <<open, connecting, connVars, handles_, found, calls, dispVars>>

\* Without an entry there is nothing to do; else sleep, once.
wait_sleep(c) ==
  /\ pc[c] = "wait"
  /\ handles_[handle[c]] # "absent"
  /\ Goto(c, "sleep")
  /\ UNCHANGED <<open, connecting, connVars, handles_, handle, retries, found,
                 calls, dispVars>>

wait_nothing(c) ==
  /\ pc[c] = "wait"
  /\ handles_[handle[c]] = "absent"
  /\ Waited(c, {"ok"})

\* The iterator is read after the sleep; if the entry has been erased in the
\* meantime, the value is undefined.
wait_woken(c) ==
  /\ pc[c] = "woken"
  /\ Waited(c, IF handles_[handle[c]] = "absent" THEN {"ok", "error"}
               ELSE {handles_[handle[c]]})

\* (mutant) wait() sleeps until there is a result
wait_timeout_pending(c) ==
  /\ pc[c] = "sleep"
  /\ handles_[handle[c]] = "pending"
  /\ Waited(c, {"timeout"})

wait_timeout(c) ==
  /\ pc[c] = "sleep"
  /\ Waited(c, {"timeout"})
-----------------------------------------------------------------------------
(* The connection is looked up by its peer address and waited for.          *)

register_get(c) ==
  /\ pc[c] = "register"
  /\ \E k \in registered : found' = [found EXCEPT ![c] = k]
  /\ Goto(c, "status")
  /\ UNCHANGED <<open, connecting, connVars, handles_, handle, retries, calls,
                 dispVars>>

\* A connection that has ended may not tell its peer any more.
register_deadline(c) ==
  /\ pc[c] = "register"
  /\ \A k \in registered : conn[k] \in {"closed", "stopped"}
  /\ Retry(c)
  /\ UNCHANGED <<open, connecting, connVars, handles_, handle, found, calls,
                 dispVars>>

\* The status is OK, or it is not before the deadline.
status(c) ==
  /\ pc[c] = "status"
  /\ \/ /\ conn[found[c]] = "ok"
        /\ Goto(c, "stream")
        /\ UNCHANGED <<retries, found>>
     \/ /\ conn[found[c]] # "ok"
        /\ found' = [found EXCEPT ![c] = None]
        /\ Retry(c)
  /\ UNCHANGED <<open, connecting, connVars, handles_, handle, calls, dispVars>>

\* Then the caller waits for the stream to run, for ever if need be: the stream
\* has been started, but may have been stopped in the meantime.
stream_wait(c) ==
  /\ pc[c] = "stream"
  /\ conn[found[c]] \in {"ok", "closed"}
  /\ found' = [found EXCEPT ![c] = None]
  /\ retries' = [retries EXCEPT ![c] = 0]
  /\ Goto(c, "idle")
  /\ UNCHANGED <<open, connecting, connVars, handles_, handle, calls, dispVars>>

CallerStep(c) ==
  \/ connect_socket(c) \/ connect_insert(c) \/ connect_start(c)
  \/ connect_close(c) \/ connect_erase(c)
  \/ wait_sleep(c) \/ wait_nothing(c) \/ wait_woken(c) \/ wait_timeout(c)
  \/ register_get(c) \/ register_deadline(c) \/ status(c) \/ stream_wait(c)
-----------------------------------------------------------------------------
(* handle_connect()                                                         *)

\* A connect completes, or abort() has cancelled it.
complete(d) ==
  /\ dpc[d] = "idle"
  /\ \E h \in connecting, s \in BOOLEAN :
       /\ connecting' = connecting \ {h}
       /\ dhandle' = [dhandle EXCEPT ![d] = h]
       /\ success' = [success EXCEPT ![d] = s]
  /\ dpc' = [dpc EXCEPT ![d] = "validate"]
  /\ UNCHANGED <<open, connVars, handles_, callVars>>

\* validate_connection() stores the result under the lock ...
validate_store(d) ==
  /\ dpc[d] = "validate"
  /\ handles_' = [handles_ EXCEPT ![dhandle[d]] =
                    CASE @ = "absent" -> "absent"
                      [] success[d]   -> "ok"
                      [] OTHER        -> "error"]
  /\ dpc' = [dpc EXCEPT ![d] = "broadcast"]
  /\ UNCHANGED <<open, connecting, connVars, dhandle, success, callVars>>

\* ... and wakes every caller without it.
validate_broadcast(d) ==
  /\ dpc[d] = "broadcast"
  /\ pc' = [c \in Caller |-> IF pc[c] = "sleep" THEN "woken" ELSE pc[c]]
  /\ dpc' = [dpc EXCEPT ![d] = "make"]
  /\ UNCHANGED <<open, connecting, connVars, handles_, handle, retries, found,
                 calls, dhandle, success>>

\* The socket goes to a new handler, or it is closed.
make_handler(d) ==
  /\ dpc[d] = "make"
  /\ \/ /\ success[d]
        /\ \E k \in Connection :
             /\ conn[k] = "free"
             /\ conn' = [conn EXCEPT ![k] = "new"]
             /\ chandle' = [chandle EXCEPT ![k] = dhandle[d]]
        /\ UNCHANGED open
     \/ /\ open' = open \ {dhandle[d]}
        /\ UNCHANGED <<conn, chandle>>
  /\ dpc' = [dpc EXCEPT ![d] = "idle"]
  /\ dhandle' = [dhandle EXCEPT ![d] = None]
  /\ success' = [success EXCEPT ![d] = FALSE]
  /\ UNCHANGED <<connecting, shut, stolen, handles_, callVars>>

handle_connect(d) ==
  validate_store(d) \/ validate_broadcast(d) \/ make_handler(d)

-----------------------------------------------------------------------------
(* The connections                                                          *)

Becomes(k, life) == conn' = [conn EXCEPT ![k] = life]

\* open(): the connection is registered with the manager, then its stream started
\* and the status set ...
connection_open(k) ==
  /\ \/ conn[k] = "new" /\ Becomes(k, "initializing")
     \/ conn[k] = "initializing" /\ Becomes(k, "ok")
  /\ UNCHANGED <<open, connecting, chandle, shut, stolen, handles_, callVars,
                 dispVars>>

\* ... or it fails, at the latest when the first read cannot be started: the
\* stream is stopped, the connection deregistered, and handle_close() called.
connection_fail(k) ==
  /\ conn[k] \in {"new", "initializing"}
  /\ Becomes(k, "deregistered")
  /\ UNCHANGED <<open, connecting, chandle, shut, stolen, handles_, callVars,
                 dispVars>>

\* Net_AsynchTCPSocketHandler_T::handle_close() closes the number the connection
\* was given, whoever it belongs to now.
closesocket(k) ==
  /\ open' = open \ {chandle[k]}
  /\ shut' = shut \cup {k}
  /\ stolen' = (stolen \/ (k \in shut /\ chandle[k] \in open))

\* Somebody who has found the connection abort()s it: that closes the handle
\* before, or after, handle_close() does.
abort(k) ==
  /\ conn[k] \notin {"free", "new"}
  /\ conn' = [conn EXCEPT ![k] = IF @ = "ok" THEN "closed" ELSE @]
  /\ closesocket(k)
  /\ UNCHANGED <<connecting, chandle, handles_, callVars, dispVars>>

\* handle_close() sets the status, ...
close_state(k) ==
  /\ conn[k] = "ok"
  /\ Becomes(k, "closed")
  /\ UNCHANGED <<open, connecting, chandle, shut, stolen, handles_, callVars,
                 dispVars>>

\* ... stops the stream, ...
close_stop(k) ==
  /\ conn[k] = "closed"
  /\ Becomes(k, "stopped")
  /\ UNCHANGED <<open, connecting, chandle, shut, stolen, handles_, callVars,
                 dispVars>>

\* ... takes the connection off the manager's list ...
close_deregister(k) ==
  /\ conn[k] = "stopped"
  /\ Becomes(k, "deregistered")
  /\ UNCHANGED <<open, connecting, chandle, shut, stolen, handles_, callVars,
                 dispVars>>

\* ... and closes the handle.  It may be called again, by the completion of a
\* write or by an open() that finds the status changed.
connection_close(k) ==
  /\ conn[k] \in {"deregistered", "released"}
  /\ Becomes(k, "released")
  /\ closesocket(k)
  /\ UNCHANGED <<connecting, chandle, handles_, callVars, dispVars>>

\* The last reference is released; a caller that has found the connection owns
\* one.
connection_delete(k) ==
  /\ conn[k] = "released"
  /\ \A c \in Caller : found[c] # k
  /\ Becomes(k, "free")
  /\ chandle' = [chandle EXCEPT ![k] = None]
  /\ shut' = shut \ {k}
  /\ UNCHANGED <<open, connecting, stolen, handles_, callVars, dispVars>>

ConnectionStep(k) ==
  \/ connection_open(k) \/ connection_fail(k) \/ abort(k)
  \/ close_state(k) \/ close_stop(k) \/ close_deregister(k)
  \/ connection_close(k) \/ connection_delete(k)
-----------------------------------------------------------------------------
Init ==
  /\ open = {} /\ connecting = {}
  /\ conn = [k \in Connection |-> "free"]
  /\ chandle = [k \in Connection |-> None]
  /\ shut = {} /\ stolen = FALSE
  /\ handles_ = [h \in Handle |-> "absent"]
  /\ pc = [c \in Caller |-> "idle"]
  /\ handle = [c \in Caller |-> None]
  /\ retries = [c \in Caller |-> 0]
  /\ found = [c \in Caller |-> None]
  /\ calls = 0
  /\ dpc = [d \in Dispatcher |-> "idle"]
  /\ dhandle = [d \in Dispatcher |-> None]
  /\ success = [d \in Dispatcher |-> FALSE]

Next ==
  \/ \E c \in Caller : call(c) \/ CallerStep(c)
  \/ \E d \in Dispatcher : complete(d) \/ handle_connect(d)
  \/ \E k \in Connection : ConnectionStep(k)

Spec == Init /\ [][Next]_vars

\* Threads go on, timeouts expire.  Nothing is assumed of the peer: a connect
\* may stay incomplete, a connection open.
Fairness ==
  /\ \A c \in Caller : WF_vars(CallerStep(c))
  /\ \A d \in Dispatcher : WF_vars(handle_connect(d))

FairSpec == Spec /\ Fairness
-----------------------------------------------------------------------------
(* Properties                                                               *)

\* Handles, results and control states have their types; no caller retries more
\* often than it was told to.
TypeOK ==
  /\ open \subseteq Handle /\ connecting \subseteq Handle
  /\ conn \in [Connection -> Life]
  /\ chandle \in [Connection -> Handle \cup {None}]
  /\ shut \subseteq Connection /\ stolen \in BOOLEAN
  /\ handles_ \in [Handle -> {"absent", "pending", "ok", "error"}]
  /\ pc \in [Caller -> {"idle", "connect", "options", "start", "error",
                        "erase", "wait", "sleep", "woken", "register",
                        "status", "stream"}]
  /\ handle \in [Caller -> Handle \cup {None}]
  /\ retries \in [Caller -> Nat]
  /\ found \in [Caller -> Connection \cup {None}]
  /\ calls \in 0..MaxCalls
  /\ dpc \in [Dispatcher -> {"idle", "validate", "broadcast", "make"}]
  /\ dhandle \in [Dispatcher -> Handle \cup {None}]
  /\ success \in [Dispatcher -> BOOLEAN]

\* The callers that prepare the socket h, the dispatchers of its completion, and
\* the connection that has it and has not closed it.
Preparing(h) ==
  {c \in Caller : handle[c] = h /\ pc[c] \in {"options", "start", "error"}}

Completing(h) == {d \in Dispatcher : dhandle[d] = h}

Having(h) == {k \in Connection \ shut : chandle[k] = h}

Owners(h) ==
  ({"caller"} \X Preparing(h)) \cup ({"proactor"} \X (connecting \cap {h}))
    \cup ({"dispatcher"} \X Completing(h)) \cup ({"connection"} \X Having(h))

\* No socket is leaked: an open one has an owner, which will close it, the caller
\* that prepares it, the proactor, the dispatcher of its completion or its
\* connection.  And nobody takes it from its owner, or has it besides, although
\* handles are used again, except a connection that closes its handle a second
\* time: abort() and handle_close() both do, and the number may be somebody
\* else's by then (stolen).
SocketOwned(h) ==
  /\ h \in open => Owners(h) # {}
  /\ ~stolen => /\ h \notin open => Owners(h) = {}
                /\ \A x, y \in Owners(h) : x = y

SocketsOwned == \A h \in Handle : SocketOwned(h)

\* connect() returns, although the wake-up of wait() may have been missed, the
\* handle's entry belong to somebody else, or the peer never answer; only the
\* end of the connection between the test of its status and the wait for its
\* stream keeps it from returning.
OnlyStreamWaitBlocks ==
  \A c \in Caller :
    pc[c] = "connect" ~>
      \/ pc[c] = "idle"
      \/ pc[c] = "stream" /\ conn[found[c]] \notin {"ok", "closed"}
-----------------------------------------------------------------------------
(* The inductive invariant behind SocketsOwned.                             *)

\* A caller inside connect() and wait(), and a dispatcher inside
\* handle_connect(), know the handle they work on; a connection has a handle
\* until it is deleted, and has closed it when handle_close() is done.
HandlesInv ==
  /\ \A c \in Caller :
       pc[c] \in {"options", "start", "error", "erase", "wait", "sleep", "woken"}
         => handle[c] \in Handle
  /\ \A d \in Dispatcher : dpc[d] = "idle" <=> dhandle[d] = None
  /\ \A k \in Connection : /\ conn[k] = "free" <=> chandle[k] = None
                           /\ conn[k] = "free" => k \notin shut
                           /\ conn[k] = "released" => k \in shut

IInv == TypeOK /\ HandlesInv /\ SocketsOwned
-----------------------------------------------------------------------------
(* What the repository says and the code does not do.                       *)

\* net_client_asynchconnector.inl:489, validate_connection(): "prevent race
\* condition in wait()": nobody sleeps for a result that is there already.
WaitSeesResult ==
  \A c \in Caller :
    /\ pc[c] = "sleep"
    /\ \A d \in Dispatcher : dpc[d] # "broadcast"
    => handles_[handle[c]] \in {"pending", "absent"}

\* net_asynch_tcpsockethandler.inl:297, handle_close(): "9: Linux: local close()":
\* the handle is closed a second time, at worst in vain.
ClosedInVain == ~stolen
=============================================================================
