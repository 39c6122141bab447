-------------------------- MODULE StreamConnection --------------------------
(***************************************************************************)
(* One reactor (TCP) connection from its registration on: the status, the  *)
(* session messages and the write path of Net_StreamConnectionBase_T       *)
(* (net_streamconnection_base.inl) and Net_TCPConnectionBase_T             *)
(* (net_tcpconnection_base.inl) over Net_TCPSocketHandler_T.               *)
(*                                                                         *)
(* The opener runs open(), from the start of the stream on.  Dispatchers   *)
(* are the threads of the reactor: they dispatch readability (one at a     *)
(* time) and the write notifications (concurrently).  Users obtained the   *)
(* connection from the manager, send on it and abort() it.                 *)
(*                                                                         *)
(* When open() fails its caller, the connector or the acceptor, calls      *)
(* close(): the opener, too, runs handle_close().  When handle_output()    *)
(* returns 1 the reactor calls it again, as its comment expects; the       *)
(* second call has no reference of its own.  A thread that works on a      *)
(* deleted object finds its members as they were.                          *)
(*                                                                         *)
(* deregister() is one step here: whatever isRegistered_ says, the manager *)
(* only removes a connection it finds in its list (see ConnectionManager). *)
(***************************************************************************)
EXTENDS Integers, Sequences, FiniteSets

CONSTANTS Opener,      \* the thread inside open()
          Dispatcher,  \* threads of the reactor
          User,        \* threads that use the connection
          MaxSends,    \* bound on the number of messages sent
          MaxParts,    \* bound on the number of partial writes
          None         \* no thread, no message

ASSUME StreamAssumption ==
  /\ IsFiniteSet(Dispatcher) /\ IsFiniteSet(User)
  /\ Dispatcher \cap User = {}
  /\ Opener \notin Dispatcher \cup User
  /\ MaxSends \in Nat /\ MaxParts \in Nat
  /\ None \notin Dispatcher \cup User \cup Nat

Thread == {Opener} \cup Dispatcher \cup User

\* Threads that may run handle_close().
Closer == {Opener} \cup Dispatcher

VARIABLES
  status,        \* state_.status
  closed,        \* state_.closed
  notify_,       \* still to notify the processing stream
  connects,      \* history: CONNECT session messages
  disconnects,   \* history: DISCONNECT session messages
  listed,        \* the manager's list holds the connection
  count,         \* the reference counter
  operation,     \* history: the initial reference has not been released
  leaked,        \* history: references nobody will release
  again,         \* history: dispatchers whose handle_output() is called again
  taken,         \* history: references used up by who did not own them
  parts,         \* number of partial writes so far (bounded by MaxParts)
  reactor,       \* read registration: "no", "yes" or "gone"
  socket,        \* "open", or "shut" once closed locally
  stream,        \* "running" or "stopped"
  queue,         \* outbound messages at the head of the stream
  notified,      \* write notifications the reactor has not dispatched
  sendLock_,     \* the thread that owns it, or None
  writeBuffer_,  \* the message being sent, or None
  wire,          \* history: messages written to the socket
  pc,            \* control state of each thread
  already_b,     \* handle_close(): already_closed_b
  decrease_b,    \* handle_close(): decrease_b
  held,          \* users that own a reference
  sends          \* number of messages sent so far (bounded by MaxSends)

stateVars == <<status, closed>>
noteVars  == <<notify_, connects, disconnects>>
refVars   == <<operation, leaked>>
partVars  == <<again, taken, parts>>
ioVars    == <<reactor, socket, stream>>
outVars   == <<queue, notified, sendLock_, writeBuffer_, wire>>
localVars == <<already_b, decrease_b>>
userVars  == <<held, sends>>
vars == <<status, closed, notify_, connects, disconnects, listed, count,
          operation, leaked, again, taken, parts, reactor, socket, stream, queue,
          notified, sendLock_, writeBuffer_, wire, pc, already_b, decrease_b,
          held, sends>>

OpenPc   == {"open", "ok", "connect", "opened"}
FailPc   == {"fail_stop", "fail_deregister", "fail_status", "fail_release"}
OutputPc == {"output", "get", "write"}
ClosePc  == {"close", "disconnect_test", "disconnect", "flush", "idle_wait",
             "stop", "shutdown", "close_count", "deregister", "close_release"}
OtherPc  == {"idle", "holding", "notify", "abort", "unlock", "unlock_again"}

Goto(t, p) == pc' = [pc EXCEPT ![t] = p]

increase == count' = count + 1
decrease == count' = count - 1
-----------------------------------------------------------------------------
(* open(), after the connection has been registered with the manager        *)

\* step 4: register with the reactor, which may fail
registerWithReactor ==
  /\ pc[Opener] = "open"
  /\ \/ reactor' = "yes" /\ Goto(Opener, "ok")
     \/ Goto(Opener, "fail_stop") /\ UNCHANGED reactor
  /\ UNCHANGED <<stateVars, noteVars, listed, count, refVars, partVars, socket,
                 stream, outVars, localVars, userVars>>

open_status ==
  /\ pc[Opener] = "ok"
  /\ status' = "ok"
  /\ Goto(Opener, "connect")
  /\ UNCHANGED <<closed, noteVars, listed, count, refVars, partVars, ioVars,
                 outVars, localVars, userVars>>

open_connect ==
  /\ pc[Opener] = "connect"
  /\ connects' = connects + 1
  /\ Goto(Opener, "opened")
  /\ UNCHANGED <<stateVars, notify_, disconnects, listed, count, refVars,
                 partVars, ioVars, outVars, localVars, userVars>>

\* open() releases the reference it has taken for itself.
open_return ==
  /\ pc[Opener] = "opened"
  /\ decrease
  /\ Goto(Opener, "idle")
  /\ UNCHANGED <<stateVars, noteVars, listed, refVars, partVars, ioVars,
                 outVars, localVars, userVars>>

\* The error path stops the stream, ...
fail_stop ==
  /\ pc[Opener] = "fail_stop"
  /\ stream' = "stopped"
  /\ Goto(Opener, "fail_deregister")
  /\ UNCHANGED <<stateVars, noteVars, listed, count, refVars, partVars,
                 reactor, socket, outVars, localVars, userVars>>

\* ... takes the connection off the manager's list, ...
fail_deregister ==
  /\ pc[Opener] = "fail_deregister"
  /\ IF listed THEN listed' = FALSE /\ decrease
               ELSE UNCHANGED <<listed, count>>
  /\ Goto(Opener, "fail_status")
  /\ UNCHANGED <<stateVars, noteVars, refVars, partVars, ioVars, outVars,
                 localVars, userVars>>

\* ... sets the status, ...
fail_status ==
  /\ pc[Opener] = "fail_status"
  /\ status' = "failed"
  /\ Goto(Opener, "fail_release")
  /\ UNCHANGED <<closed, noteVars, listed, count, refVars, partVars, ioVars,
                 outVars, localVars, userVars>>

\* ... and releases the reference open() has taken, unless it is the last one.
\* The caller of open() then closes the connection.
fail_release ==
  /\ pc[Opener] = "fail_release"
  /\ IF count > 1 THEN decrease /\ UNCHANGED leaked
                  ELSE leaked' = leaked + 1 /\ UNCHANGED count
  /\ Goto(Opener, "close")
  /\ UNCHANGED <<stateVars, noteVars, listed, operation, partVars, ioVars,
                 outVars, localVars, userVars>>
-----------------------------------------------------------------------------
(* Net_StreamConnectionBase_T::handle_close()                               *)

\* (mutant) every handle_close() takes itself for the first one
close_state_again(t) ==
  /\ pc[t] = "close"
  /\ status' = IF status \in {"failed", "closed", "peer_closed"}
               THEN status ELSE "peer_closed"
  /\ already_b' = [already_b EXCEPT ![t] = closed]
  /\ decrease_b' = [decrease_b EXCEPT ![t] = TRUE]
  /\ closed' = TRUE
  /\ Goto(t, IF status = "failed" THEN "flush" ELSE "disconnect_test")
  /\ UNCHANGED <<noteVars, listed, count, refVars, partVars, ioVars, outVars,
                 userVars>>

\* (mutant) a connection whose open() failed announces its end, too
close_state_failed(t) ==
  /\ pc[t] = "close"
  /\ status' = IF status \in {"failed", "closed", "peer_closed"}
               THEN status ELSE "peer_closed"
  /\ already_b' = [already_b EXCEPT ![t] = closed]
  /\ decrease_b' = [decrease_b EXCEPT ![t] = ~closed]
  /\ closed' = TRUE
  /\ Goto(t, "disconnect_test")
  /\ UNCHANGED <<noteVars, listed, count, refVars, partVars, ioVars, outVars,
                 userVars>>

\* A connection whose open() failed has nothing to announce.
close_state(t) ==
  /\ pc[t] = "close"
  /\ status' = IF status \in {"failed", "closed", "peer_closed"}
               THEN status ELSE "peer_closed"
  /\ already_b' = [already_b EXCEPT ![t] = closed]
  /\ decrease_b' = [decrease_b EXCEPT ![t] = ~closed]
  /\ closed' = TRUE
  /\ Goto(t, IF status = "failed" THEN "flush" ELSE "disconnect_test")
  /\ UNCHANGED <<noteVars, listed, count, refVars, partVars, ioVars, outVars,
                 userVars>>

\* notify_ is not protected by a lock.
close_notify_test(t) ==
  /\ pc[t] = "disconnect_test"
  /\ Goto(t, IF notify_ THEN "disconnect" ELSE "flush")
  /\ UNCHANGED <<stateVars, noteVars, listed, count, refVars, partVars, ioVars,
                 outVars, localVars, userVars>>

close_notify(t) ==
  /\ pc[t] = "disconnect"
  /\ notify_' = FALSE
  /\ disconnects' = disconnects + 1
  /\ Goto(t, "flush")
  /\ UNCHANGED <<stateVars, connects, listed, count, refVars, partVars, ioVars,
                 outVars, localVars, userVars>>

\* The first time around the outbound data is flushed, ...
close_flush(t) ==
  /\ pc[t] = "flush"
  /\ IF already_b[t] THEN Goto(t, "shutdown") /\ UNCHANGED queue
                     ELSE Goto(t, "idle_wait") /\ queue' = <<>>
  /\ already_b' = [already_b EXCEPT ![t] = FALSE]
  /\ UNCHANGED <<stateVars, noteVars, listed, count, refVars, partVars, ioVars,
                 notified, sendLock_, writeBuffer_, wire, decrease_b, userVars>>

\* ... which does not keep a user from sending more: the thread waits, for ever
\* if need be, until that has been written.
close_idle(t) ==
  /\ pc[t] = "idle_wait"
  /\ queue = <<>>
  /\ Goto(t, "stop")
  /\ UNCHANGED <<stateVars, noteVars, listed, count, refVars, partVars, ioVars,
                 outVars, localVars, userVars>>

\* Then the stream is stopped, with what has been sent meanwhile.
close_stop(t) ==
  /\ pc[t] = "stop"
  /\ stream' = "stopped"
  /\ Goto(t, "shutdown")
  /\ UNCHANGED <<stateVars, noteVars, listed, count, refVars, partVars,
                 reactor, socket, outVars, localVars, userVars>>

\* Net_TCPSocketHandler_T::handle_close(): remove the handler from the reactor
\* and close the socket.
close_shutdown(t) ==
  /\ pc[t] = "shutdown"
  /\ reactor' = "gone"
  /\ socket' = "shut"
  /\ Goto(t, "close_count")
  /\ UNCHANGED <<stateVars, noteVars, listed, count, refVars, partVars, stream,
                 outVars, localVars, userVars>>

close_count(t) ==
  /\ pc[t] = "close_count"
  /\ decrease_b' = [decrease_b EXCEPT ![t] = @ /\ count > 1]
  /\ Goto(t, "deregister")
  /\ UNCHANGED <<stateVars, noteVars, listed, count, refVars, partVars, ioVars,
                 outVars, already_b, userVars>>

deregister(t) ==
  /\ pc[t] = "deregister"
  /\ IF listed THEN listed' = FALSE /\ decrease
               ELSE UNCHANGED <<listed, count>>
  /\ Goto(t, "close_release")
  /\ UNCHANGED <<stateVars, noteVars, refVars, partVars, ioVars, outVars,
                 localVars, userVars>>

\* (mutant) the initial reference is released by a peer's close only
close_release_peer(t) ==
  /\ pc[t] = "close_release"
  /\ IF decrease_b[t] /\ status = "peer_closed"
     THEN decrease /\ operation' = FALSE
     ELSE UNCHANGED <<count, operation>>
  /\ decrease_b' = [decrease_b EXCEPT ![t] = FALSE]
  /\ Goto(t, "idle")
  /\ UNCHANGED <<stateVars, noteVars, listed, leaked, partVars, ioVars,
                 outVars, already_b, userVars>>

close_release(t) ==
  /\ pc[t] = "close_release"
  /\ IF decrease_b[t] THEN decrease /\ operation' = FALSE
                      ELSE UNCHANGED <<count, operation>>
  /\ decrease_b' = [decrease_b EXCEPT ![t] = FALSE]
  /\ Goto(t, "idle")
  /\ UNCHANGED <<stateVars, noteVars, listed, leaked, partVars, ioVars,
                 outVars, already_b, userVars>>

handle_close(t) ==
  \/ close_state(t)
  \/ close_notify_test(t)
  \/ close_notify(t)
  \/ close_flush(t)
  \/ close_idle(t)
  \/ close_stop(t)
  \/ close_shutdown(t)
  \/ close_count(t)
  \/ deregister(t)
  \/ close_release(t)
-----------------------------------------------------------------------------
(* Dispatch                                                                 *)

\* handle_input() fails: the peer or a local abort() has closed the socket
\* (the status says so), or the stream does not take the data.  The reactor
\* removes the handler and calls handle_close().
handle_input(d) ==
  /\ pc[d] = "idle"
  /\ reactor = "yes"
  /\ reactor' = "gone"
  /\ \/ status' = IF status = "ok" THEN "peer_closed" ELSE status
     \/ stream = "stopped" /\ UNCHANGED status
  /\ Goto(d, "close")
  /\ UNCHANGED <<closed, noteVars, listed, count, refVars, partVars, socket,
                 stream, outVars, localVars, userVars>>

\* The reactor reads a notification from its pipe and calls handle_output().
dispatch_output(d) ==
  /\ pc[d] = "idle"
  /\ notified > 0
  /\ notified' = notified - 1
  /\ Goto(d, "output")
  /\ UNCHANGED <<stateVars, noteVars, listed, count, refVars, partVars, ioVars,
                 queue, sendLock_, writeBuffer_, wire, localVars, userVars>>

output_lock(d) ==
  /\ pc[d] = "output"
  /\ sendLock_ = None
  /\ sendLock_' = d
  /\ Goto(d, "get")
  /\ UNCHANGED <<stateVars, noteVars, listed, count, refVars, partVars, ioVars,
                 queue, notified, writeBuffer_, wire, localVars, userVars>>

\* A call that the reactor has repeated uses up a reference it does not own.
Ends(d) ==
  /\ again' = again \ {d}
  /\ taken' = taken + (IF d \in again THEN 1 ELSE 0)

\* handle_output() returns -1: the reference of the notification is kept, the
\* lock released, and the reactor calls handle_close().
OutputFails(d) ==
  /\ leaked' = leaked + 1
  /\ Ends(d)
  /\ sendLock_' = None
  /\ Goto(d, "close")

\* (mutant) the message is looked at, and stays in the queue
output_get_peek(d) ==
  /\ pc[d] = "get"
  /\ \/ /\ queue # <<>>
        /\ writeBuffer_' = Head(queue)
        /\ Goto(d, "write")
        /\ UNCHANGED <<leaked, sendLock_, again, taken>>
     \/ /\ queue = <<>>
        /\ OutputFails(d)
        /\ UNCHANGED writeBuffer_
  /\ UNCHANGED <<stateVars, noteVars, listed, count, operation, parts, ioVars,
                 queue, notified, wire, localVars, userVars>>

\* The rest of a message that was written in part, or the next message; there
\* may be none, or the queue has been deactivated.
output_get(d) ==
  /\ pc[d] = "get"
  /\ \/ /\ writeBuffer_ # None
        /\ Goto(d, "write")
        /\ UNCHANGED <<leaked, sendLock_, again, taken, writeBuffer_, queue>>
     \/ /\ writeBuffer_ = None
        /\ queue # <<>>
        /\ writeBuffer_' = Head(queue)
        /\ queue' = Tail(queue)
        /\ Goto(d, "write")
        /\ UNCHANGED <<leaked, sendLock_, again, taken>>
     \/ /\ writeBuffer_ = None
        /\ queue = <<>> \/ stream = "stopped"
        /\ OutputFails(d)
        /\ UNCHANGED <<writeBuffer_, queue>>
  /\ UNCHANGED <<stateVars, noteVars, listed, count, operation, parts, ioVars,
                 notified, wire, localVars, userVars>>

\* (mutant) the error path releases the reference before the reactor calls
\* handle_close()
output_write_released(d) ==
  /\ pc[d] = "write"
  /\ writeBuffer_' = None
  /\ decrease
  /\ Ends(d)
  /\ sendLock_' = None
  /\ \/ /\ socket = "open"
        /\ wire' = Append(wire, writeBuffer_)
        /\ Goto(d, "idle")
     \/ /\ Goto(d, "close")
        /\ UNCHANGED wire
  /\ UNCHANGED <<stateVars, noteVars, listed, refVars, parts, ioVars, queue,
                 notified, localVars, userVars>>

\* The message is sent and the reference of the notification released; or part
\* of it is, the reference released all the same, and the reactor asked to call
\* again; or the socket has been closed.
output_write(d) ==
  /\ pc[d] = "write"
  /\ \/ /\ socket = "open"
        /\ wire' = Append(wire, writeBuffer_)
        /\ writeBuffer_' = None
        /\ decrease
        /\ Ends(d)
        /\ Goto(d, "unlock")
        /\ UNCHANGED <<status, leaked, sendLock_, parts>>
     \/ /\ socket = "open"
        /\ parts < MaxParts
        /\ parts' = parts + 1
        /\ decrease
        /\ Ends(d)
        /\ Goto(d, "unlock_again")
        /\ UNCHANGED <<status, leaked, sendLock_, wire, writeBuffer_>>
     \/ /\ status' = IF status = "ok" THEN "peer_closed" ELSE status
        /\ writeBuffer_' = None
        /\ OutputFails(d)
        /\ UNCHANGED <<wire, count, parts>>
  /\ UNCHANGED <<closed, noteVars, listed, operation, ioVars, queue, notified,
                 localVars, userVars>>

\* The destructor of the guard runs after decrease ().
output_unlock(d) ==
  /\ pc[d] \in {"unlock", "unlock_again"}
  /\ sendLock_' = None
  /\ IF pc[d] = "unlock" THEN Goto(d, "idle") /\ UNCHANGED again
                         ELSE Goto(d, "output") /\ again' = again \cup {d}
  /\ UNCHANGED <<stateVars, noteVars, listed, count, refVars, taken, parts,
                 ioVars, queue, notified, writeBuffer_, wire, localVars, userVars>>

handle_output(d) ==
  \/ output_lock(d)
  \/ output_get(d)
  \/ output_write(d)
  \/ output_unlock(d)
-----------------------------------------------------------------------------
(* Users                                                                    *)

get(u) ==
  /\ pc[u] = "idle"
  /\ listed
  /\ increase
  /\ held' = held \cup {u}
  /\ Goto(u, "holding")
  /\ UNCHANGED <<stateVars, noteVars, listed, refVars, partVars, ioVars,
                 outVars, localVars, sends>>

put(u) ==
  /\ pc[u] = "holding"
  /\ decrease
  /\ held' = held \ {u}
  /\ Goto(u, "idle")
  /\ UNCHANGED <<stateVars, noteVars, listed, refVars, partVars, ioVars,
                 outVars, localVars, sends>>

\* The message arrives at the head of the stream, unless that has stopped.
send(u) ==
  /\ pc[u] = "holding"
  /\ sends < MaxSends
  /\ stream = "running"
  /\ sends' = sends + 1
  /\ queue' = Append(queue, sends + 1)
  /\ Goto(u, "notify")
  /\ UNCHANGED <<stateVars, noteVars, listed, count, refVars, partVars, ioVars,
                 notified, sendLock_, writeBuffer_, wire, localVars, held>>

\* (mutant) no notification when one is pending
notify_once(u) ==
  /\ pc[u] = "notify"
  /\ IF notified > 0 THEN UNCHANGED <<count, notified>>
                     ELSE increase /\ notified' = notified + 1
  /\ Goto(u, "holding")
  /\ UNCHANGED <<stateVars, noteVars, listed, refVars, partVars, ioVars, queue,
                 sendLock_, writeBuffer_, wire, localVars, userVars>>

\* (mutant) a notification owns no reference
notify_unowned(u) ==
  /\ pc[u] = "notify"
  /\ notified' = notified + 1
  /\ Goto(u, "holding")
  /\ UNCHANGED <<stateVars, noteVars, listed, count, refVars, partVars, ioVars,
                 queue, sendLock_, writeBuffer_, wire, localVars, userVars>>

\* Net_StreamConnectionBase_T::notify(), called by the message queue
notify(u) ==
  /\ pc[u] = "notify"
  /\ increase
  /\ notified' = notified + 1
  /\ Goto(u, "holding")
  /\ UNCHANGED <<stateVars, noteVars, listed, refVars, partVars, ioVars, queue,
                 sendLock_, writeBuffer_, wire, localVars, userVars>>

abort_status(u) ==
  /\ pc[u] = "holding"
  /\ status' = IF status = "ok" THEN "closed" ELSE status
  /\ Goto(u, "abort")
  /\ UNCHANGED <<closed, noteVars, listed, count, refVars, partVars, ioVars,
                 outVars, localVars, userVars>>

abort_socket(u) ==
  /\ pc[u] = "abort"
  /\ socket' = "shut"
  /\ Goto(u, "holding")
  /\ UNCHANGED <<stateVars, noteVars, listed, count, refVars, partVars,
                 reactor, stream, outVars, localVars, userVars>>
-----------------------------------------------------------------------------
\* open() has registered the connection and started the stream: one initial
\* reference, one of open(), one of the manager.
Init ==
  /\ status = "initializing"
  /\ closed = FALSE
  /\ notify_ = TRUE
  /\ connects = 0
  /\ disconnects = 0
  /\ listed = TRUE
  /\ count = 3
  /\ operation = TRUE
  /\ leaked = 0
  /\ again = {}
  /\ taken = 0
  /\ parts = 0
  /\ reactor = "no"
  /\ socket = "open"
  /\ stream = "running"
  /\ queue = <<>>
  /\ notified = 0
  /\ sendLock_ = None
  /\ writeBuffer_ = None
  /\ wire = <<>>
  /\ pc = [t \in Thread |-> IF t = Opener THEN "open" ELSE "idle"]
  /\ already_b = [t \in Closer |-> FALSE]
  /\ decrease_b = [t \in Closer |-> FALSE]
  /\ held = {}
  /\ sends = 0

OpenStep ==
  \/ registerWithReactor \/ open_status \/ open_connect \/ open_return
  \/ fail_stop \/ fail_deregister \/ fail_status \/ fail_release

Next ==
  \/ OpenStep
  \/ \E t \in Closer : handle_close(t)
  \/ \E d \in Dispatcher : \/ handle_input(d)
                           \/ dispatch_output(d)
                           \/ handle_output(d)
  \/ \E u \in User : \/ get(u) \/ put(u)
                     \/ send(u) \/ notify(u)
                     \/ abort_status(u) \/ abort_socket(u)

Spec == Init /\ [][Next]_vars

\* open() and started handlers go on; the reactor dispatches every notification
\* and, as it notices a closed socket, the end of the connection.
Fairness ==
  /\ WF_vars(OpenStep) /\ WF_vars(handle_close(Opener))
  /\ \A d \in Dispatcher : WF_vars(handle_output(d) \/ handle_close(d))
  /\ WF_vars(\E d \in Dispatcher : dispatch_output(d))
  /\ WF_vars(\E d \in Dispatcher : socket = "shut" /\ handle_input(d))
  /\ \A u \in User : WF_vars(notify(u) \/ abort_socket(u))

FairSpec == Spec /\ Fairness
-----------------------------------------------------------------------------
(* Properties                                                               *)

\* Variables have their types; the counter drops below 0 only by the references
\* that handle_output() has used up when it was called again.
TypeOK ==
  /\ status \in {"initializing", "ok", "closed", "peer_closed", "failed"}
  /\ closed \in BOOLEAN /\ notify_ \in BOOLEAN /\ listed \in BOOLEAN
  /\ connects \in Nat /\ disconnects \in Nat
  /\ count \in Int /\ count + taken \in Nat
  /\ leaked \in Nat /\ notified \in Nat
  /\ again \subseteq Dispatcher /\ taken \in Nat /\ parts \in 0..MaxParts
  /\ operation \in BOOLEAN
  /\ reactor \in {"no", "yes", "gone"}
  /\ socket \in {"open", "shut"}
  /\ stream \in {"running", "stopped"}
  /\ queue \in Seq(1..MaxSends) /\ wire \in Seq(1..MaxSends)
  /\ sendLock_ \in Dispatcher \cup {None}
  /\ writeBuffer_ \in 1..MaxSends \cup {None}
  /\ pc \in [Thread -> OtherPc \cup OpenPc \cup FailPc \cup OutputPc \cup ClosePc]
  /\ already_b \in [Closer -> BOOLEAN]
  /\ decrease_b \in [Closer -> BOOLEAN]
  /\ held \subseteq User
  /\ sends \in 0..MaxSends

Ref(b) == IF b THEN 1 ELSE 0

\* Dispatchers that own the reference of a notification.
Outputs == {d \in Dispatcher \ again : pc[d] \in OutputPc}

\* The counter equals the references owned: by the reactor's registration,
\* open(), the manager's list, the users, the notifications that have not been
\* dispatched or are being dispatched, and the ones that failed writes keep;
\* less those that handle_output() has used up when it was called again.
ReferencesExact ==
  count = Ref(operation) + Ref(pc[Opener] \in OpenPc \cup FailPc) + Ref(listed)
        + Cardinality(held) + notified + Cardinality(Outputs) + leaked - taken

\* The connection is deleted under a thread that works on it, or before a
\* notification is dispatched, in two cases only: the destructor of the guard
\* on sendLock_ runs after handle_output() has released the last reference, or
\* handle_output() has been called again after a partial write, without a
\* reference.  Neither the second of two threads inside handle_close() nor the
\* close() of a connection whose open() failed does it.
UseAfterFreeConfined ==
  count <= 0 =>
    \/ taken > 0
    \/ /\ notified = 0
       /\ \A t \in Thread :
            pc[t] # "idle" => pc[t] \in {"unlock", "unlock_again"} \/ t \in again

\* Messages reach the socket in the order in which they were sent, and at most
\* once, although several threads dispatch notifications (a message whose write
\* fails is lost), also when a message is written in parts by several of them.
InOrder ==
  \A i, j \in DOMAIN wire : i < j => wire[i] < wire[j]

\* Every message is written, unless the stream is stopped: no message is left
\* in the queue without a notification.
Written ==
  Len(wire) < sends ~> Len(wire) = sends \/ stream = "stopped"

\* The stream is not told of the end of a session that has not begun, or a
\* second time, unless open() has not come to its announcement yet or a write
\* has failed, too: then two threads may be inside handle_close(), which tests
\* and clears notify_ without a lock, or one of them before open() has failed.
SessionPaired ==
  disconnects > connects =>
    leaked > 0 \/ pc[Opener] \in {"open", "ok", "connect"}

\* A connection that has been closed by either side leaves the manager's list,
\* tells the stream unless its open() failed, and is released.  What remains,
\* once the users have given it back, is one reference for every handle_output()
\* that returned -1 (leaked), and the initial one of a connection whose open()
\* failed or of which handle_output() has used up a reference too many: every
\* other reference of the registration, the manager and the notifications is
\* gone.  doc/test_cases.txt, 1.1.1.3.2, has all of them released, which TLC
\* refutes (NotificationsReleased below).
OnlyErrorsKeep ==
  (socket = "shut" /\ reactor = "yes") \/ closed
    ~> /\ ~listed
       /\ status = "failed" \/ disconnects > 0
       /\ count = leaked - taken + Cardinality(held) + Ref(operation)
       /\ operation => status = "failed" \/ taken > 0
-----------------------------------------------------------------------------
(* The inductive invariant behind the safety properties.                    *)

\* Who can be where, and which users own a reference.
RolesInv ==
  /\ pc[Opener] \in {"idle"} \cup OpenPc \cup FailPc \cup ClosePc
  /\ \A d \in Dispatcher :
       /\ pc[d] \in {"idle", "unlock", "unlock_again"} \cup OutputPc \cup ClosePc
       /\ d \in again => pc[d] \in OutputPc
  /\ \A u \in User : /\ pc[u] \in {"idle", "holding", "notify", "abort"}
                      /\ u \in held <=> pc[u] # "idle"

\* The initial reference is released once: it exists until the first
\* handle_close(), whose thread is the only one to have decrease_b set.
ClosingInv ==
  /\ ~closed => operation
  /\ \A t \in Closer :
       decrease_b[t] => pc[t] \in ClosePc \ {"close"} /\ closed /\ operation
  /\ \A t, e \in Closer : decrease_b[t] /\ decrease_b[e] => t = e

\* The thread inside handle_close() relies on the initial reference, or on the
\* one a failed write has kept.  Without failed writes there is one such thread:
\* the one to which the reactor has reported the end of the connection, or the
\* one whose open() failed.
CloserInv ==
  /\ \A t \in Closer : pc[t] \in ClosePc => operation \/ leaked > 0
  /\ leaked = 0 =>
       /\ \A t, e \in Closer : pc[t] \in ClosePc /\ pc[e] \in ClosePc => t = e
       /\ pc[Opener] \in {"open"} \cup FailPc =>
            reactor = "no" /\ operation
       /\ reactor = "no" => \A d \in Dispatcher : pc[d] \notin ClosePc
       /\ pc[Opener] \in ClosePc => reactor # "yes"
       /\ reactor = "yes" => /\ operation
                             /\ \A t \in Closer : pc[t] \notin ClosePc

\* Who has announced what.
NoteInv ==
  /\ pc[Opener] \in {"open", "ok", "connect"} \cup FailPc \cup ClosePc => connects = 0
  /\ pc[Opener] = "opened" => connects = 1
  /\ connects \in {0, 1}
  /\ pc[Opener] \in {"fail_release"} \cup ClosePc => status = "failed"
  /\ pc[Opener] \notin {"disconnect_test", "disconnect"}
  /\ leaked = 0 =>
       /\ disconnects <= 1
       /\ reactor # "gone" => disconnects = 0
       /\ \A d \in Dispatcher :
            pc[d] \in {"close", "disconnect_test", "disconnect"} => disconnects = 0
       /\ connects = 0 /\ pc[Opener] \in {"idle"} \cup ClosePc =>
            /\ disconnects = 0 /\ reactor # "yes"
            /\ \A d \in Dispatcher : pc[d] \notin ClosePc

\* One thread at a time takes a message from the queue and writes it.
LockInv ==
  /\ \A d \in Dispatcher :
       sendLock_ = d <=> pc[d] \in {"get", "write", "unlock", "unlock_again"}
  /\ \A d \in Dispatcher : pc[d] = "write" => writeBuffer_ # None

\* What has been written precedes the message being written, which precedes
\* what is in the queue, which is ordered.
QueueInv ==
  /\ \A i, j \in DOMAIN queue : i < j => queue[i] < queue[j]
  /\ \A i \in DOMAIN queue : queue[i] <= sends
  /\ \A i \in DOMAIN wire : wire[i] <= sends
  /\ \A i \in DOMAIN wire, j \in DOMAIN queue : wire[i] < queue[j]
  /\ writeBuffer_ # None =>
       /\ writeBuffer_ <= sends
       /\ \A i \in DOMAIN wire : wire[i] < writeBuffer_
       /\ \A j \in DOMAIN queue : writeBuffer_ < queue[j]

IInv ==
  /\ TypeOK /\ RolesInv /\ ReferencesExact
  /\ ClosingInv /\ CloserInv /\ NoteInv
  /\ LockInv /\ QueueInv /\ InOrder
-----------------------------------------------------------------------------
(* What the repository says and the code does not do.                       *)

\* net_tcpconnection_base.inl:348, handle_output(): "relinquish a reference
\* (see: Net_StreamConnectionBase_T::notify ())".
NotificationsReleased == leaked = 0

\* net_streamconnection_base.h:109, notify(): "increase the reference count when
\* this is invoked; this prevents the connection from going away when still
\* registered with the reactor for writing".
OutputIsAlive ==
  \A d \in Dispatcher : pc[d] = "unlock" => count > 0

\* protocol/pop/pop_module_send.inl:425, on CONNECT: "ACE_ASSERT
\* (inherited::sessionData_)": the session data lasts from the start of the stream
\* to its end, so open() tells a stream that still runs of the connection.
ConnectInSession ==
  pc[Opener] = "connect" => stream = "running"

\* net_streamconnection_base.h:174, notify_: "still to notify the processing
\* stream ?": the stream is told once of the end.
DisconnectOnce == disconnects <= 1
=============================================================================
