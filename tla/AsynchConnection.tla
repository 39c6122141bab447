-------------------------- MODULE AsynchConnection --------------------------
(***************************************************************************)
(* One proactor (TCP) connection: Net_AsynchStreamConnectionBase_T          *)
(* (net_streamconnection_base.inl), Net_AsynchTCPConnectionBase_T           *)
(* (net_tcpconnection_base.inl) and Net_AsynchTCPSocketHandler_T            *)
(* (net_asynch_tcpsockethandler.inl).                                       *)
(*                                                                         *)
(* Dispatchers are the proactor's threads.  One of them runs open(); each   *)
(* of them delivers the completion of a read or of a write.  Users are      *)
(* threads that obtain the connection from the manager, send on it, wait    *)
(* for it to turn idle, and abort() it.                                     *)
(*                                                                         *)
(* The chain of read operations owns the initial reference; the manager's   *)
(* list, every write operation and every user own one each.  The object is  *)
(* deleted when the count reaches 0; ACE's handler proxy then drops its     *)
(* outstanding completions.  Two paths of the code release a reference they *)
(* do not own: open() when it finds the connection closed after it has      *)
(* started the first read, and the completion of a write that transferred   *)
(* part of its data.  A thread that works on a deleted object finds its     *)
(* members as they were (the memory has not been used again).               *)
(***************************************************************************)
EXTENDS Integers, FiniteSets

CONSTANTS Dispatcher,  \* threads that dispatch the proactor's completions
          User,        \* threads that use the connection
          MaxSends,    \* bound on the number of sends
          MaxParts     \* bound on the number of partial writes

ASSUME AsynchAssumption ==
  /\ IsFiniteSet(User) /\ IsFiniteSet(Dispatcher)
  /\ User \cap Dispatcher = {}
  /\ MaxSends \in Nat /\ MaxParts \in Nat

VARIABLES
  life,           \* open(): "new", "opening", "opened" or "failed"
  status,         \* state_.status
  closed,         \* state_.closed
  isRegistered_,  \* the unprotected flag of Net_ConnectionBase_T
  listed,         \* the manager's list holds the connection
  count,          \* the reference counter
  notify_,        \* handle_close() still has to announce the end
  connects,       \* history: CONNECT session messages
  disconnects,    \* history: DISCONNECT session messages
  socket,         \* "open", or "shut" once it has been closed locally
  read,           \* read operation: "none", "pending", "dead" (can only fail)
  writes,         \* write operations the kernel has not completed
  counter_,       \* Net_AsynchTCPSocketHandler_T: operations to wait for
  owner,          \* history: the dispatcher that carries the initial reference,
                  \* in a set of its own, when no read operation does
  taken,          \* history: references released by who did not own them
  stuck,          \* history: rests of partial writes that were not started
  parts,          \* number of partial writes so far (bounded by MaxParts)
  pc,             \* control state of each thread
  cancel_b,       \* handle_close(): the local of that name
  held,           \* users that own a reference
  sends           \* number of sends so far (bounded by MaxSends)

stateVars == <<status, closed>>
regVars   == <<isRegistered_, listed>>
noteVars  == <<notify_, connects, disconnects>>
ioVars    == <<socket, read, writes, counter_>>
histVars  == <<owner, taken, stuck, parts>>
userVars  == <<held, sends>>
vars == <<life, status, closed, isRegistered_, listed, count, notify_, connects,
          disconnects, socket, read, writes, counter_, owner, taken, stuck, parts,
          pc, cancel_b, held, sends>>

OpenPc  == {"register", "flag", "start", "ok", "connect", "check"}
FailPc  == {"fail_test", "fail_clear", "fail_deregister", "fail_status"}
ClosePc == {"close", "notify", "disconnect", "cancel", "close_test",
            "close_clear", "close_deregister", "close_socket", "close_release"}
DispatcherPc == {"idle", "read_data", "read_last", "written", "part"}
                  \cup OpenPc \cup FailPc \cup ClosePc
UserPc  == {"idle", "holding", "send", "unsent", "abort", "waiting"}

Goto(a, p) == pc' = [pc EXCEPT ![a] = p]

\* Common_ReferenceCounter_T
increase == count' = count + 1
decrease == count' = count - 1

\* Net_AsynchTCPSocketHandler_T::initiate_read(): on a socket that has been
\* closed locally the operation fails now or later.
initiate_read == read' = IF socket = "open" THEN "pending" ELSE "dead"

\* Net_AsynchTCPSocketHandler_T::cancel(): a pending read fails, unless it has
\* been completed already.
cancel == read' \in {read} \cup (IF read = "pending" THEN {"dead"} ELSE {})
-----------------------------------------------------------------------------
(* open(), run by a dispatcher                                              *)

open(d) ==
  /\ pc[d] = "idle"
  /\ life = "new"
  /\ life' = "opening"
  /\ status' = "initializing"
  /\ count' = 1
  /\ owner' = {d}
  /\ Goto(d, "register")
  /\ UNCHANGED <<closed, regVars, noteVars, ioVars, taken, stuck, parts, cancel_b,
                 userVars>>

\* Net_Connection_Manager_T::register_() (an instance of ConnectionManager's);
\* it refuses a connection when the list is full or the manager stopped.
register_(d) ==
  /\ pc[d] = "register"
  /\ \/ /\ listed' = TRUE
        /\ increase
        /\ Goto(d, "flag")
     \/ /\ Goto(d, "fail_status")
        /\ UNCHANGED <<listed, count>>
  /\ UNCHANGED <<life, stateVars, isRegistered_, noteVars, ioVars, histVars,
                 cancel_b, userVars>>

setRegistered(d) ==
  /\ pc[d] = "flag"
  /\ isRegistered_' = TRUE
  /\ Goto(d, "start")
  /\ UNCHANGED <<life, stateVars, listed, count, noteVars, ioVars, histVars,
                 cancel_b, userVars>>

\* Initialize and start the stream, then start the first read, which carries
\* the initial reference from now on; each may fail.
open_start(d) ==
  /\ pc[d] = "start"
  /\ \/ initiate_read /\ owner' = {} /\ Goto(d, "ok")
     \/ Goto(d, "fail_test") /\ UNCHANGED <<read, owner>>
  /\ UNCHANGED <<life, stateVars, regVars, count, noteVars, socket, writes,
                 counter_, taken, stuck, parts, cancel_b, userVars>>

open_status(d) ==
  /\ pc[d] = "ok"
  /\ status' = "ok"
  /\ Goto(d, "connect")
  /\ UNCHANGED <<life, closed, regVars, count, noteVars, ioVars, histVars,
                 cancel_b, userVars>>

open_connect(d) ==
  /\ pc[d] = "connect"
  /\ connects' = connects + 1
  /\ Goto(d, "check")
  /\ UNCHANGED <<life, stateVars, regVars, count, notify_, disconnects, ioVars,
                 histVars, cancel_b, userVars>>

\* Net_AsynchTCPConnectionBase_T::open() tests the status its base class left.
open_check(d) ==
  /\ pc[d] = "check"
  /\ IF status = "ok" THEN Goto(d, "idle") /\ life' = "opened"
                      ELSE Goto(d, "close") /\ life' = "failed"
  /\ UNCHANGED <<stateVars, regVars, count, noteVars, ioVars, histVars,
                 cancel_b, userVars>>

\* The error path of the base class, back to the test above.
open_fail(d) ==
  /\ pc[d] = "fail_status"
  /\ status' = "failed"
  /\ Goto(d, "check")
  /\ UNCHANGED <<life, closed, regVars, count, noteVars, ioVars, histVars,
                 cancel_b, userVars>>
-----------------------------------------------------------------------------
(* Net_ConnectionBase_T::deregister() and the manager's part of it          *)

deregister_test(d, here, yes, no) ==
  /\ pc[d] = here
  /\ Goto(d, IF isRegistered_ THEN yes ELSE no)
  /\ UNCHANGED <<life, stateVars, regVars, count, noteVars, ioVars, histVars,
                 cancel_b, userVars>>

deregister_clear(d, here, next) ==
  /\ pc[d] = here
  /\ isRegistered_' = FALSE
  /\ Goto(d, next)
  /\ UNCHANGED <<life, stateVars, listed, count, noteVars, ioVars, histVars,
                 cancel_b, userVars>>

deregister(d, here, next) ==
  /\ pc[d] = here
  /\ IF listed THEN listed' = FALSE /\ decrease
               ELSE UNCHANGED <<listed, count>>
  /\ Goto(d, next)
  /\ UNCHANGED <<life, stateVars, isRegistered_, noteVars, ioVars, histVars,
                 cancel_b, userVars>>
-----------------------------------------------------------------------------
(* Net_AsynchStreamConnectionBase_T::handle_close()                         *)

close_state(d) ==
  /\ pc[d] = "close"
  /\ status' = IF status \in {"failed", "closed", "peer_closed"}
               THEN status ELSE "peer_closed"
  /\ cancel_b' = [cancel_b EXCEPT ![d] = ~closed]
  /\ closed' = TRUE
  /\ Goto(d, "notify")
  /\ UNCHANGED <<life, regVars, count, noteVars, ioVars, histVars, userVars>>

\* (mutant) a connection whose open() failed announces its end, too
close_notify_failed(d) ==
  /\ pc[d] = "notify"
  /\ Goto(d, IF notify_ THEN "disconnect" ELSE "cancel")
  /\ UNCHANGED <<life, stateVars, regVars, count, noteVars, ioVars, histVars,
                 cancel_b, userVars>>

\* Is the stream still to be told ?  The flag is not protected.
close_notify(d) ==
  /\ pc[d] = "notify"
  /\ Goto(d, IF notify_ /\ status # "failed" THEN "disconnect" ELSE "cancel")
  /\ UNCHANGED <<life, stateVars, regVars, count, noteVars, ioVars, histVars,
                 cancel_b, userVars>>

\* The stream is told; it is flushed and stopped next.
close_disconnect(d) ==
  /\ pc[d] = "disconnect"
  /\ notify_' = FALSE
  /\ disconnects' = disconnects + 1
  /\ Goto(d, "cancel")
  /\ UNCHANGED <<life, stateVars, regVars, count, connects, ioVars, histVars,
                 cancel_b, userVars>>

\* cancel() the pending operations the first time around.
close_cancel(d) ==
  /\ pc[d] = "cancel"
  /\ IF cancel_b[d] THEN cancel ELSE UNCHANGED read
  /\ cancel_b' = [cancel_b EXCEPT ![d] = FALSE]
  /\ Goto(d, "close_test")
  /\ UNCHANGED <<life, stateVars, regVars, count, noteVars, socket, writes,
                 counter_, histVars, userVars>>

\* Net_AsynchTCPSocketHandler_T::handle_close()
close_socket(d) ==
  /\ pc[d] = "close_socket"
  /\ socket' = "shut"
  /\ Goto(d, "close_release")
  /\ UNCHANGED <<life, stateVars, regVars, count, noteVars, read, writes,
                 counter_, histVars, cancel_b, userVars>>

\* The decrease() after handle_close(), in the read completion handler and in
\* the error path of open(), which may not own the reference any more.
close_release(d) ==
  /\ pc[d] = "close_release"
  /\ decrease
  /\ owner' = owner \ {d}
  /\ taken' = taken + (IF d \in owner THEN 0 ELSE 1)
  /\ Goto(d, "idle")
  /\ UNCHANGED <<life, stateVars, regVars, noteVars, ioVars, stuck, parts,
                 cancel_b, userVars>>

handle_close(d) ==
  \/ close_state(d)
  \/ close_notify(d)
  \/ close_disconnect(d)
  \/ close_cancel(d)
  \/ deregister_test(d, "close_test", "close_clear", "close_socket")
  \/ deregister_clear(d, "close_clear", "close_deregister")
  \/ deregister(d, "close_deregister", "close_socket")
  \/ close_socket(d)
  \/ close_release(d)
-----------------------------------------------------------------------------
(* Completions                                                              *)

\* handle_read_stream(): data, or the end of the connection.  Another thread
\* of the proactor may still be inside open().
handle_read_stream(d) ==
  /\ pc[d] = "idle"
  /\ read # "none"
  /\ count > 0
  /\ read' = "none"
  /\ owner' = {d}
  /\ \/ /\ read = "pending"
        /\ Goto(d, IF status = "closed" THEN "read_last" ELSE "read_data")
     \/ Goto(d, "close")
  /\ UNCHANGED <<life, stateVars, regVars, count, noteVars, socket, writes,
                 counter_, taken, stuck, parts, cancel_b, userVars>>

\* (mutant) the handler goes on although it could not start another read
read_next_lost(d) ==
  /\ pc[d] \in {"read_data", "read_last"}
  /\ \/ pc[d] = "read_data" /\ initiate_read
     \/ UNCHANGED read
  /\ owner' = {}
  /\ Goto(d, "idle")
  /\ UNCHANGED <<life, stateVars, regVars, count, noteVars, socket, writes,
                 counter_, taken, stuck, parts, cancel_b, userVars>>

\* The data goes to the stream and the next read is started, unless the
\* connection had been closed locally; both may fail.
read_next(d) ==
  /\ pc[d] \in {"read_data", "read_last"}
  /\ \/ pc[d] = "read_data" /\ initiate_read /\ owner' = {} /\ Goto(d, "idle")
     \/ Goto(d, "close") /\ UNCHANGED <<read, owner>>
  /\ UNCHANGED <<life, stateVars, regVars, count, noteVars, socket, writes,
                 counter_, taken, stuck, parts, cancel_b, userVars>>

\* (mutant) a failed write stays in the number of operations to wait for
handle_write_stream_stuck(d) ==
  /\ pc[d] = "idle"
  /\ writes > 0
  /\ count > 0
  /\ writes' = writes - 1
  /\ \/ counter_' = counter_ - 1 /\ UNCHANGED read
     \/ cancel /\ UNCHANGED counter_
  /\ Goto(d, "written")
  /\ UNCHANGED <<life, stateVars, regVars, count, noteVars, socket, histVars,
                 cancel_b, userVars>>

\* Net_AsynchTCPSocketHandler_T::handle_write_stream(): all data is written;
\* or the connection was closed, and the other operations are cancel()led.
handle_write_stream(d) ==
  /\ pc[d] = "idle"
  /\ writes > 0
  /\ count > 0
  /\ writes' = writes - 1
  /\ counter_' = counter_ - 1
  /\ cancel \/ UNCHANGED read
  /\ Goto(d, "written")
  /\ UNCHANGED <<life, stateVars, regVars, count, noteVars, socket, histVars,
                 cancel_b, userVars>>

\* ... or part of the data is written, and the rest is written by another
\* operation.  Whether that could be started is not tested; the derived class
\* releases a reference in either case, and counter_ keeps counting.
handle_write_part(d) ==
  /\ pc[d] = "idle"
  /\ writes > 0
  /\ count > 0
  /\ parts < MaxParts
  /\ parts' = parts + 1
  /\ \/ Goto(d, "part") /\ UNCHANGED <<writes, stuck>>
     \/ /\ writes' = writes - 1
        /\ stuck' = stuck + 1
        /\ Goto(d, "written")
  /\ UNCHANGED <<life, stateVars, regVars, count, noteVars, socket, read,
                 counter_, owner, taken, cancel_b, userVars>>

\* The derived class releases the operation's reference; that of a partial
\* write belongs to the operation that writes the rest.
write_release(d) ==
  /\ pc[d] \in {"written", "part"}
  /\ decrease
  /\ taken' = taken + (IF pc[d] = "part" THEN 1 ELSE 0)
  /\ Goto(d, "idle")
  /\ UNCHANGED <<life, stateVars, regVars, noteVars, ioVars, owner, stuck, parts,
                 cancel_b, userVars>>
-----------------------------------------------------------------------------
(* Users                                                                    *)

\* Net_Connection_Manager_T::get()
get(u) ==
  /\ pc[u] = "idle"
  /\ listed
  /\ increase
  /\ held' = held \cup {u}
  /\ Goto(u, "holding")
  /\ UNCHANGED <<life, stateVars, regVars, noteVars, ioVars, histVars, cancel_b,
                 sends>>

put(u) ==
  /\ pc[u] = "holding"
  /\ decrease
  /\ held' = held \ {u}
  /\ Goto(u, "idle")
  /\ UNCHANGED <<life, stateVars, regVars, noteVars, ioVars, histVars, cancel_b,
                 sends>>

\* (mutant) the operation is not counted
handle_output_uncounted(u) ==
  /\ pc[u] = "holding"
  /\ sends < MaxSends
  /\ sends' = sends + 1
  /\ increase
  /\ Goto(u, "send")
  /\ UNCHANGED <<life, stateVars, regVars, noteVars, ioVars, histVars, cancel_b,
                 held>>

\* (mutant) the operation does not own a reference
handle_output_unowned(u) ==
  /\ pc[u] = "holding"
  /\ sends < MaxSends
  /\ sends' = sends + 1
  /\ counter_' = counter_ + 1
  /\ Goto(u, "send")
  /\ UNCHANGED <<life, stateVars, regVars, count, noteVars, socket, read, writes,
                 histVars, cancel_b, held>>

\* notify() calls handle_output() directly: the message is taken from the
\* stream, unless that has been shut down, and a reference for the operation.
handle_output(u) ==
  /\ pc[u] = "holding"
  /\ sends < MaxSends
  /\ sends' = sends + 1
  /\ \/ /\ increase
        /\ counter_' = counter_ + 1
        /\ Goto(u, "send")
     \/ UNCHANGED <<count, counter_, pc>>
  /\ UNCHANGED <<life, stateVars, regVars, noteVars, socket, read, writes,
                 histVars, cancel_b, held>>

\* (mutant) the reference of an operation that could not be started is kept
write_start_leak(u) ==
  /\ pc[u] = "send"
  /\ \/ socket = "open" /\ writes' = writes + 1 /\ UNCHANGED <<count, counter_>>
     \/ counter_' = counter_ - 1 /\ UNCHANGED <<writes, count>>
  /\ Goto(u, "holding")
  /\ UNCHANGED <<life, stateVars, regVars, noteVars, socket, read, histVars,
                 cancel_b, userVars>>

\* The asynchronous write is started, or it fails and the reference is given
\* back.
write_start(u) ==
  /\ pc[u] = "send"
  /\ \/ /\ writes' = writes + 1
        /\ Goto(u, "holding")
        /\ UNCHANGED <<count, counter_>>
     \/ /\ decrease
        /\ Goto(u, "unsent")
        /\ UNCHANGED <<writes, counter_>>
  /\ UNCHANGED <<life, stateVars, regVars, noteVars, socket, read, histVars,
                 cancel_b, userVars>>

\* (mutant) an operation that could not be started is waited for
write_unsent_stuck(u) ==
  /\ pc[u] = "unsent"
  /\ Goto(u, "holding")
  /\ UNCHANGED <<life, stateVars, regVars, count, noteVars, ioVars, histVars,
                 cancel_b, userVars>>

\* counter_.decrease (), after the reference has been released
write_unsent(u) ==
  /\ pc[u] = "unsent"
  /\ counter_' = counter_ - 1
  /\ Goto(u, "holding")
  /\ UNCHANGED <<life, stateVars, regVars, count, noteVars, socket, read, writes,
                 histVars, cancel_b, userVars>>

\* abort(): first the status, which open() may be about to test ...
abort_status(u) ==
  /\ pc[u] = "holding"
  /\ status' = IF status = "ok" THEN "closed" ELSE status
  /\ Goto(u, "abort")
  /\ UNCHANGED <<life, closed, regVars, count, noteVars, ioVars, histVars,
                 cancel_b, userVars>>

\* ... then cancel(), shutdown() and the base class's handle_close(); the
\* pending read completes and closes the connection.
abort_socket(u) ==
  /\ pc[u] = "abort"
  /\ socket' = "shut"
  /\ Goto(u, "holding")
  /\ UNCHANGED <<life, stateVars, regVars, count, noteVars, read, writes,
                 counter_, histVars, cancel_b, userVars>>

\* waitForIdleState() blocks until no operation is outstanding.
waitForIdleState(u) ==
  /\ pc[u] = "holding"
  /\ Goto(u, "waiting")
  /\ UNCHANGED <<life, stateVars, regVars, count, noteVars, ioVars, histVars,
                 cancel_b, userVars>>

idle(u) ==
  /\ pc[u] = "waiting"
  /\ counter_ = 0
  /\ Goto(u, "holding")
  /\ UNCHANGED <<life, stateVars, regVars, count, noteVars, ioVars, histVars,
                 cancel_b, userVars>>
-----------------------------------------------------------------------------
Init ==
  /\ life = "new"
  /\ status = "invalid"
  /\ closed = FALSE
  /\ isRegistered_ = FALSE
  /\ listed = FALSE
  /\ count = 0
  /\ notify_ = TRUE
  /\ connects = 0
  /\ disconnects = 0
  /\ socket = "open"
  /\ read = "none"
  /\ writes = 0
  /\ counter_ = 0
  /\ owner = {}
  /\ taken = 0
  /\ stuck = 0
  /\ parts = 0
  /\ pc = [a \in Dispatcher \cup User |-> "idle"]
  /\ cancel_b = [d \in Dispatcher |-> FALSE]
  /\ held = {}
  /\ sends = 0

OpenStep(d) ==
  \/ register_(d)
  \/ setRegistered(d)
  \/ open_start(d)
  \/ open_status(d)
  \/ open_connect(d)
  \/ open_check(d)
  \/ deregister_test(d, "fail_test", "fail_clear", "fail_status")
  \/ deregister_clear(d, "fail_clear", "fail_deregister")
  \/ deregister(d, "fail_deregister", "fail_status")
  \/ open_fail(d)

\* What a dispatcher does once it has started a handler.
HandlerStep(d) ==
  \/ OpenStep(d)
  \/ handle_close(d)
  \/ read_next(d)
  \/ write_release(d)

\* What a user does inside a call.
CallStep(u) ==
  \/ write_start(u)
  \/ write_unsent(u)
  \/ abort_socket(u)
  \/ idle(u)

Next ==
  \/ \E d \in Dispatcher : \/ open(d)
                           \/ HandlerStep(d)
                           \/ handle_read_stream(d)
                           \/ handle_write_stream(d)
                           \/ handle_write_part(d)
  \/ \E u \in User : \/ get(u)
                     \/ handle_output(u)
                     \/ abort_status(u)
                     \/ waitForIdleState(u)
                     \/ CallStep(u)
                     \/ put(u)

Spec == Init /\ [][Next]_vars

\* A started handler and a call go on; the kernel completes every write (part
\* of its data after part of its data), and
\* every read once the socket has been shut down or the read cancel()led, and
\* the proactor's queue hands every completion to a dispatcher in the end; a
\* user gives its reference back in the end.
Fairness ==
  /\ \A d \in Dispatcher : WF_vars(HandlerStep(d))
  /\ SF_vars(\E d \in Dispatcher : handle_write_stream(d))
  /\ SF_vars(\E d \in Dispatcher :
               (socket = "shut" \/ read = "dead") /\ handle_read_stream(d))
  /\ \A u \in User : WF_vars(CallStep(u)) /\ SF_vars(put(u))

FairSpec == Spec /\ Fairness
-----------------------------------------------------------------------------
(* Properties                                                              *)

\* Variables have their types; neither the number of outstanding writes nor
\* that of the operations to wait for drops below 0.
TypeOK ==
  /\ life \in {"new", "opening", "opened", "failed"}
  /\ status \in {"invalid", "initializing", "ok", "closed", "peer_closed",
                 "failed"}
  /\ closed \in BOOLEAN /\ isRegistered_ \in BOOLEAN /\ listed \in BOOLEAN
  /\ count \in Int
  /\ notify_ \in BOOLEAN /\ connects \in Nat /\ disconnects \in Nat
  /\ socket \in {"open", "shut"}
  /\ read \in {"none", "pending", "dead"}
  /\ writes \in Nat /\ counter_ \in Nat
  /\ owner \subseteq Dispatcher
  /\ taken \in Nat /\ stuck \in Nat /\ parts \in 0..MaxParts
  /\ pc \in [Dispatcher \cup User -> DispatcherPc \cup UserPc]
  /\ \A d \in Dispatcher : pc[d] \in DispatcherPc
  /\ \A u \in User : pc[u] \in UserPc
  /\ cancel_b \in [Dispatcher -> BOOLEAN]
  /\ held \subseteq User
  /\ sends \in 0..MaxSends

Ref(b) == IF b THEN 1 ELSE 0

\* Threads at control point p.
At(p) == {a \in Dispatcher \cup User : pc[a] = p}

\* The counter equals the number of references that are owned: by the chain of
\* read operations (or who handles the completion of one), the manager's list,
\* the write operations (being started, under way, or completed and not yet
\* released) and the users; less those that open()'s error path and partial
\* writes have released although somebody else owns them.
ReferencesExact ==
  count = Ref(read # "none") + Cardinality(owner) + Ref(listed)
        + Cardinality(held) + Cardinality(At("send")) + writes
        + Cardinality(At("written")) - taken

\* A dispatcher that works on the connection and owns no reference: inside
\* open() once the first read has been started, in the handle_close() of such
\* an open(), or about to release the reference of a partial write.
Unowned(d) ==
  \/ pc[d] \in {"ok", "connect", "check"} \cup ClosePc /\ d \notin owner
  \/ pc[d] = "part"

\* The connection is deleted under a thread that works on it in two cases only:
\* that thread is in one of the places where the code works without a
\* reference, or such a thread has released a reference it does not own.  No
\* other order of completions, sends, abort() and handle_close() does it.
UseAfterFreeConfined ==
  \A a \in Dispatcher \cup User :
    pc[a] # "idle" /\ count <= 0 =>
      taken > 0 \/ (a \in Dispatcher /\ Unowned(a))

\* waitForIdleState() waits for the write operations that have not been
\* completed, and for every rest of a partial write that was never started.
CounterExact ==
  counter_ = writes + Cardinality(At("send")) + Cardinality(At("unsent")) + stuck

\* A connection that is open always has somebody who will close it: the chain
\* of reads never breaks before handle_close() has been started, also when the
\* first read is completed before open() returns.
ReaderAlive ==
  life = "opened" /\ ~closed =>
    \/ read # "none"
    \/ \E d \in Dispatcher : pc[d] \in {"read_data", "read_last", "close"}

\* A session begins at most once, and its end is announced at most once and not
\* before its beginning, never for a connection that could not be opened, with
\* two exceptions: the completion of the first read overtakes open(), which
\* then announces CONNECT after DISCONNECT; and open() finds the connection
\* closed, so that its error path and the completion both announce DISCONNECT.
SessionPaired ==
  /\ connects <= 1
  /\ \/ disconnects <= connects
     \/ disconnects = 1 /\ \E d \in Dispatcher : pc[d] \in {"ok", "connect"}
     \/ disconnects = 2 /\ connects = 1 /\ life = "failed"

\* Every user waiting for the outstanding operations is released, unless the
\* rest of a partial write could not be started or the object is deleted under
\* the user.
IdleReturns ==
  \A u \in User : pc[u] = "waiting" ~> pc[u] # "waiting" \/ stuck > 0 \/ count <= 0

\* A connection that was shut down locally or has started to close is
\* deregistered and reclaimed, once the users have given it back; only a user
\* that waits for the rest of a partial write that was not started keeps it.
ClosedIsReclaimed ==
  (life \in {"opened", "failed"} /\ (socket = "shut" \/ closed))
    ~> count <= 0 \/ (stuck > 0 /\ \E u \in User : pc[u] = "waiting")
-----------------------------------------------------------------------------
(* The inductive invariant behind the safety properties.                    *)

\* Dispatchers inside open(): before the first read, after it, on the error
\* path.
Before(d)  == pc[d] \in {"register", "flag", "start"} \cup FailPc
After(d)   == pc[d] \in {"ok", "connect"}
Opening(d) == pc[d] \in OpenPc \cup FailPc
Reading(d) == pc[d] \in {"read_data", "read_last"}
Closing(d) == pc[d] \in ClosePc

\* A user owns a reference as long as it is inside a call.
HeldInv == \A u \in User : u \in held <=> pc[u] # "idle"

\* The initial reference belongs to one: the thread inside open() until it has
\* started the first read, the read operation, or the thread that handles its
\* completion.  Only open()'s error path runs handle_close() without it, and
\* only when its test of the status has failed.
OwnerInv ==
  /\ read # "none" => owner = {}
  /\ \A d, e \in owner : d = e
  /\ \A d \in Dispatcher : d \in owner => Opening(d) \/ Reading(d) \/ Closing(d)
  /\ \A d \in Dispatcher : Before(d) \/ Reading(d) => d \in owner
  /\ \A d, e \in Dispatcher :
       Closing(d) /\ d \notin owner /\ Closing(e) /\ e \notin owner => d = e
  /\ \A d \in Dispatcher :
       Closing(d) /\ d \notin owner => life = "failed" /\ connects = 1

\* Until open() nobody knows the connection; then one thread opens it.
OpenInv ==
  /\ life = "new" => /\ count = 0 /\ read = "none" /\ owner = {} /\ taken = 0
                     /\ connects = 0 /\ disconnects = 0 /\ notify_
                     /\ \A d \in Dispatcher : pc[d] = "idle"
  /\ \A d \in Dispatcher : Opening(d) =>
       /\ life = "opening"
       /\ \A e \in Dispatcher : Opening(e) => e = d
       /\ Before(d) => /\ status = "initializing" /\ connects = 0 /\ notify_
                       /\ pc[d] = "register" => ~listed
       /\ After(d) => status # "failed" /\ connects = 0 /\ d \notin owner
       /\ pc[d] = "check" =>
            \/ status # "failed" /\ connects = 1 /\ d \notin owner
            \/ status = "failed" /\ connects = 0 /\ notify_ /\ d \in owner
  /\ life = "opening" => \E d \in Dispatcher : Opening(d)
  /\ life = "opened" => connects = 1
  /\ life = "failed" /\ connects = 0 => status = "failed" /\ notify_

\* The chain of reads does not break, from the first read on.
ChainInv ==
  (life = "opened" \/ \E d \in Dispatcher : After(d) \/ (pc[d] = "check" /\ d \notin owner))
    => \/ closed \/ read # "none"
       \/ \E d \in Dispatcher : Reading(d) \/ pc[d] = "close"

\* How many announcements there have been and may still be.
NoteInv ==
  /\ connects \in {0, 1} /\ disconnects \in {0, 1, 2}
  /\ notify_ <=> disconnects = 0
  /\ \A d \in Dispatcher : pc[d] = "disconnect" =>
       /\ connects = 0 => \E e \in Dispatcher : After(e)
       /\ ~notify_ => /\ disconnects = 1 /\ life = "failed" /\ connects = 1
                      /\ \A e \in Dispatcher : pc[e] = "disconnect" => e = d
  /\ disconnects = 1 /\ connects = 0 => \E d \in Dispatcher : After(d)
  /\ disconnects = 2 => life = "failed" /\ connects = 1

IInv ==
  /\ TypeOK /\ HeldInv /\ ReferencesExact /\ CounterExact
  /\ OwnerInv /\ OpenInv /\ ChainInv /\ NoteInv
-----------------------------------------------------------------------------
(* What the repository says and the code does not do.                       *)

\* net_tcpconnection_base.inl:445, at the end of open(): "ACE_ASSERT
\* (this->count () >= 2); // connection manager, read operation".
OpenAssertion ==
  \A d \in Dispatcher : pc[d] = "check" /\ status = "ok" => count >= 2

\* doc/test_cases.txt, 1.1.1.3.2: on shutdown "-1 (read operation)" and "-n
\* (write operations)": every reference is released by who owns it.
ReleasedByOwners == taken = 0
=============================================================================
