--------------------------- MODULE AsynchListener ---------------------------
(***************************************************************************)
(* The proactor's listener, Net_Server_AsynchListener_T                    *)
(* (client_server/net_server_asynchlistener.inl).  It keeps a fixed number *)
(* of asynchronous accept operations going: every completion is expected   *)
(* to start the next one.  One thread starts and stops it (the API "is NOT *)
(* re-entrant"), the dispatchers of the proactor run handle_accept().      *)
(*                                                                         *)
(* Each start() makes a new listening socket.  A connection is named after *)
(* its client, and is reduced to what the listener does to it.             *)
(***************************************************************************)
EXTENDS Integers, FiniteSets, Sequences

CONSTANTS Client,      \* peers that connect
          Dispatcher,  \* threads of the proactor
          Backlog,     \* number of accept operations, and of initial ones
          MaxStarts,   \* bound on the number of start()s that make a socket
          MaxFaults,   \* bound on the number of failing calls
          None         \* no client

ASSUME ListenerAssumption ==
  /\ IsFiniteSet(Client) /\ IsFiniteSet(Dispatcher)
  /\ Backlog \in Nat \ {0} /\ MaxStarts \in Nat /\ MaxFaults \in Nat
  /\ None \notin Client

Socket == 1..MaxStarts
INVALID == 0   \* ACE_INVALID_HANDLE

VARIABLES
  isListening_,
  handle_,     \* the listening socket as the acceptor knows it
  accept_,     \* the socket asynch_accept () works on, INVALID once closed
  made,        \* number of sockets made
  listening,   \* sockets in the listening state
  pending,     \* accept operations the kernel has, by socket
  results,     \* completions to be dispatched
  client,      \* "away", "waiting", "accepted", "open" or "closed"
  at,          \* the socket a client has connected to
  heard,       \* what the subscribers were told about a connection
  apc,         \* control state of the thread that starts and stops
  started,     \* i of the loop of initial accepts
  dpc,         \* control state of each dispatcher
  result,      \* the completion a dispatcher handles
  error,       \* error of that handle_accept()
  listen,      \* listen_handle of that handle_accept()
  lost,        \* (history) operations that could not be started again
  failed,      \* (history) clients whose handler could not be opened
  faults       \* (bound) calls that have failed

kernelVars == <<accept_, made, listening, pending, results>>
clientVars == <<client, at, heard>>
adminVars  == <<isListening_, handle_, apc, started>>
dispVars   == <<dpc, result, error, listen>>
vars == <<kernelVars, clientVars, adminVars, dispVars, lost, failed, faults>>

NoResult == [socket |-> INVALID, client |-> None, cancelled |-> FALSE]
Completion ==
  [socket : Socket, client : Client \cup {None}, cancelled : BOOLEAN]

Fault == faults < MaxFaults /\ faults' = faults + 1
-----------------------------------------------------------------------------
(* The operating system and ACE_POSIX_Asynch_Accept                         *)

\* cancel(): the pending operations complete with ECANCELED.
Cancelled(s) ==
  results \o [i \in 1..pending[s] |->
               [socket |-> s, client |-> None, cancelled |-> TRUE]]

\* A peer connects to a socket that listens.
client_connect(c) ==
  /\ client[c] = "away"
  /\ \E s \in listening :
       /\ client' = [client EXCEPT ![c] = "waiting"]
       /\ at' = [at EXCEPT ![c] = s]
  /\ UNCHANGED <<kernelVars, heard, adminVars, dispVars, lost, failed, faults>>

\* An operation completes, with a connection or with an error (no descriptors).
complete_accept(s) ==
  /\ s \in listening /\ pending[s] > 0
  /\ pending' = [pending EXCEPT ![s] = @ - 1]
  /\ \E c \in {x \in Client : client[x] = "waiting" /\ at[x] = s} :
       \/ /\ results' = Append(results, [socket |-> s, client |-> c,
                                         cancelled |-> FALSE])
          /\ client' = [client EXCEPT ![c] = "accepted"]
          /\ UNCHANGED faults
       \/ /\ Fault
          /\ results' = Append(results, [socket |-> s, client |-> None,
                                         cancelled |-> FALSE])
          /\ UNCHANGED client
  /\ UNCHANGED <<accept_, made, listening, at, heard, adminVars, dispVars,
                 lost, failed>>

\* A socket is closed: the peers that wait at it are refused.
Refused(s) ==
  [c \in Client |-> IF client[c] = "waiting" /\ at[c] = s THEN "closed"
                                                          ELSE client[c]]
-----------------------------------------------------------------------------
(* start(), open() and stop()                                               *)

start ==
  /\ apc = "idle" /\ ~isListening_
  /\ made < MaxStarts
  /\ apc' = "socket"
  /\ UNCHANGED <<isListening_, handle_, started, kernelVars, clientVars,
                 dispVars, lost, failed, faults>>

\* The socket is made and given to asynch_accept (), which forgets the old one.
open_socket ==
  /\ apc = "socket"
  /\ made' = made + 1
  /\ handle_' = made' /\ accept_' = made'
  /\ IF accept_ # INVALID
     THEN /\ results' = Cancelled(accept_)
          /\ pending' = [pending EXCEPT ![accept_] = 0]
     ELSE UNCHANGED <<results, pending>>
  /\ apc' = "listen"
  /\ UNCHANGED <<isListening_, listening, started, clientVars, dispVars, lost,
                 failed, faults>>

\* The options, bind() and listen().
open_listen ==
  /\ apc = "listen"
  /\ \/ /\ listening' = listening \cup {handle_}
        /\ apc' = "accept" /\ started' = 0
        /\ UNCHANGED faults
     \/ /\ Fault
        /\ apc' = "cancel"
        /\ UNCHANGED <<listening, started>>
  /\ UNCHANGED <<isListening_, handle_, accept_, made, pending, results,
                 clientVars, dispVars, lost, failed>>

\* accept(): the operation is started, unless asynch_accept () has been closed
\* or no message can be allocated.
Accept(ok) ==
  \/ /\ ok /\ accept_ # INVALID
     /\ pending' = [pending EXCEPT ![accept_] = @ + 1]
     /\ UNCHANGED faults
  \/ /\ ~ok /\ accept_ = INVALID
     /\ UNCHANGED <<pending, faults>>
  \/ /\ ~ok /\ accept_ # INVALID
     /\ Fault
     /\ UNCHANGED pending

\* (mutant) the number of initial accepts stays at -1
open_accept_none ==
  /\ apc = "accept" /\ started < Backlog
  /\ started' = Backlog
  /\ UNCHANGED <<isListening_, handle_, apc, kernelVars, clientVars, dispVars,
                 lost, failed, faults>>

\* The loop of initial accepts.
open_accept ==
  /\ apc = "accept" /\ started < Backlog
  /\ \E ok \in BOOLEAN :
       /\ Accept(ok)
       /\ started' = IF ok THEN started + 1 ELSE started
       /\ apc' = IF ok THEN "accept" ELSE "cancel"
  /\ UNCHANGED <<isListening_, handle_, accept_, made, listening, results,
                 clientVars, dispVars, lost, failed>>

open_done ==
  /\ apc = "accept" /\ started = Backlog
  /\ isListening_' = TRUE
  /\ apc' = "idle"
  /\ UNCHANGED <<handle_, started, kernelVars, clientVars, dispVars, lost,
                 failed, faults>>

\* The error path of open(): cancel(), ...
open_cancel ==
  /\ apc = "cancel"
  /\ results' = Cancelled(handle_)
  /\ pending' = [pending EXCEPT ![handle_] = 0]
  /\ apc' = "close"
  /\ UNCHANGED <<isListening_, handle_, started, accept_, made, listening,
                 clientVars, dispVars, lost, failed, faults>>

\* ... closesocket() and handle (ACE_INVALID_HANDLE).
open_close ==
  /\ apc = "close"
  /\ listening' = listening \ {handle_}
  /\ client' = Refused(handle_)
  /\ handle_' = INVALID
  /\ apc' = "idle"
  /\ UNCHANGED <<isListening_, started, accept_, made, pending, results, at,
                 heard, dispVars, lost, failed, faults>>

\* The acceptor's own handle is kept.
stop ==
  /\ apc = "idle" /\ isListening_
  /\ results' = Cancelled(accept_)
  /\ pending' = [pending EXCEPT ![accept_] = 0]
  /\ listening' = listening \ {accept_}
  /\ client' = Refused(accept_)
  /\ accept_' = INVALID
  /\ isListening_' = FALSE
  /\ UNCHANGED <<handle_, started, apc, made, at, heard, dispVars, lost,
                 failed, faults>>
-----------------------------------------------------------------------------
(* handle_accept()                                                          *)

Goto(d, p) == dpc' = [dpc EXCEPT ![d] = p]

\* The completion is evaluated, the listening socket read and the handler made.
handle_accept(d) ==
  /\ dpc[d] = "idle" /\ results # <<>>
  /\ results' = Tail(results)
  /\ result' = [result EXCEPT ![d] = Head(results)]
  /\ listen' = [listen EXCEPT ![d] = handle_]
  /\ \/ /\ error' = [error EXCEPT ![d] = Head(results).client = None]
        /\ UNCHANGED faults
     \/ /\ Head(results).client # None
        /\ Fault
        /\ error' = [error EXCEPT ![d] = TRUE]
  /\ Goto(d, "open")
  /\ UNCHANGED <<accept_, made, listening, pending, clientVars, adminVars, lost,
                 failed>>

\* (mutant) the socket is not closed when there is no handler
handle_accept_open_keep(d) ==
  LET c == result[d].client IN
  /\ dpc[d] = "open"
  /\ client' = IF c # None /\ ~error[d] THEN [client EXCEPT ![c] = "open"]
                                        ELSE client
  /\ Goto(d, "reissue")
  /\ UNCHANGED <<kernelVars, at, heard, adminVars, result, error, listen, lost,
                 failed, faults>>

\* The handler's open() takes the connection over, and may fail; without one
\* the socket is closed.
handle_accept_open(d) ==
  LET c == result[d].client IN
  /\ dpc[d] = "open"
  /\ \/ /\ c = None
        /\ UNCHANGED <<client, failed, faults>>
     \/ /\ c # None /\ error[d]
        /\ client' = [client EXCEPT ![c] = "closed"]
        /\ UNCHANGED <<failed, faults>>
     \/ /\ c # None /\ ~error[d]
        /\ client' = [client EXCEPT ![c] = "open"]
        /\ UNCHANGED <<failed, faults>>
     \/ /\ c # None /\ ~error[d]
        /\ Fault
        /\ client' = [client EXCEPT ![c] = "closed"]
        /\ failed' = failed \cup {c}
  /\ Goto(d, "reissue")
  /\ UNCHANGED <<kernelVars, at, heard, adminVars, result, error, listen, lost>>

\* (mutant) a completion with an error starts no operation
handle_accept_reissue_success(d) ==
  /\ dpc[d] = "reissue"
  /\ IF listen[d] # INVALID /\ ~error[d]
     THEN \E ok \in BOOLEAN :
            /\ Accept(ok)
            /\ lost' = IF ok THEN lost
                       ELSE [lost EXCEPT ![result[d].socket] = @ + 1]
     ELSE UNCHANGED <<pending, lost, faults>>
  /\ Goto(d, "notify")
  /\ UNCHANGED <<accept_, made, listening, results, clientVars, adminVars,
                 result, error, listen, failed>>

\* The next operation, unless this one has been cancelled.
handle_accept_reissue(d) ==
  /\ dpc[d] = "reissue"
  /\ IF listen[d] # INVALID /\ ~result[d].cancelled
     THEN \E ok \in BOOLEAN :
            /\ Accept(ok)
            /\ lost' = IF ok THEN lost
                       ELSE [lost EXCEPT ![result[d].socket] = @ + 1]
     ELSE UNCHANGED <<pending, lost, faults>>
  /\ Goto(d, "notify")
  /\ UNCHANGED <<accept_, made, listening, results, clientVars, adminVars,
                 result, error, listen, failed>>

Tell(c, what) == heard' = [heard EXCEPT ![c] = Append(@, what)]

\* The subscribers' connect(), whatever has become of the connection.
handle_accept_notify(d) ==
  /\ dpc[d] = "notify"
  /\ IF result[d].client # None THEN Tell(result[d].client, "connect")
                                ELSE UNCHANGED heard
  /\ result' = [result EXCEPT ![d] = NoResult]
  /\ error' = [error EXCEPT ![d] = FALSE]
  /\ listen' = [listen EXCEPT ![d] = INVALID]
  /\ Goto(d, "idle")
  /\ UNCHANGED <<kernelVars, client, at, adminVars, lost, failed, faults>>

\* A connection ends in the thread of a dispatcher; deregister() calls the
\* listener's disconnect().
connection_close(d, c) ==
  /\ dpc[d] = "idle"
  /\ client[c] = "open"
  /\ client' = [client EXCEPT ![c] = "closed"]
  /\ Tell(c, "disconnect")
  /\ UNCHANGED <<kernelVars, at, adminVars, dispVars, lost, failed, faults>>
-----------------------------------------------------------------------------
Init ==
  /\ isListening_ = FALSE /\ handle_ = INVALID
  /\ accept_ = INVALID /\ made = 0 /\ listening = {}
  /\ pending = [s \in Socket |-> 0] /\ results = <<>>
  /\ client = [c \in Client |-> "away"]
  /\ at = [c \in Client |-> INVALID]
  /\ heard = [c \in Client |-> <<>>]
  /\ apc = "idle" /\ started = 0
  /\ dpc = [d \in Dispatcher |-> "idle"]
  /\ result = [d \in Dispatcher |-> NoResult]
  /\ error = [d \in Dispatcher |-> FALSE]
  /\ listen = [d \in Dispatcher |-> INVALID]
  /\ lost = [s \in Socket |-> 0]
  /\ failed = {} /\ faults = 0

OpenStep ==
  \/ open_socket \/ open_listen \/ open_accept \/ open_done
  \/ open_cancel \/ open_close

HandlerStep(d) ==
  \/ handle_accept_open(d) \/ handle_accept_reissue(d)
  \/ handle_accept_notify(d)

Next ==
  \/ start \/ OpenStep \/ stop
  \/ \E c \in Client : client_connect(c)
  \/ \E s \in Socket : complete_accept(s)
  \/ \E d \in Dispatcher :
       \/ handle_accept(d) \/ HandlerStep(d)
       \/ \E c \in Client : connection_close(d, c)

Spec == Init /\ [][Next]_vars

\* Threads go on, the kernel completes an accept when a peer waits, and the
\* proactor dispatches completions.  Nothing is assumed of the peers or of the
\* thread that starts and stops the listener.
Fairness ==
  /\ WF_vars(OpenStep)
  /\ \A s \in Socket : WF_vars(complete_accept(s))
  /\ WF_vars(\E d \in Dispatcher : handle_accept(d))
  /\ \A d \in Dispatcher : WF_vars(HandlerStep(d))

FairSpec == Spec /\ Fairness
-----------------------------------------------------------------------------
(* Properties                                                               *)

\* Handles, control states and completions have their types; the numbers of
\* operations are natural.
TypeOK ==
  /\ isListening_ \in BOOLEAN
  /\ handle_ \in Socket \cup {INVALID} /\ accept_ \in Socket \cup {INVALID}
  /\ made \in 0..MaxStarts /\ listening \subseteq Socket
  /\ pending \in [Socket -> Nat] /\ results \in Seq(Completion)
  /\ client \in [Client -> {"away", "waiting", "accepted", "open", "closed"}]
  /\ at \in [Client -> Socket \cup {INVALID}]
  /\ apc \in {"idle", "socket", "listen", "accept", "cancel", "close"}
  /\ started \in 0..Backlog
  /\ dpc \in [Dispatcher -> {"idle", "open", "reissue", "notify"}]
  /\ result \in [Dispatcher -> Completion \cup {NoResult}]
  /\ error \in [Dispatcher -> BOOLEAN]
  /\ listen \in [Dispatcher -> Socket \cup {INVALID}]
  /\ lost \in [Socket -> Nat] /\ failed \subseteq Client
  /\ faults \in 0..MaxFaults

\* The dispatchers that have yet to start the operation that follows the
\* completion of one on s.
Reissuing(s) ==
  {d \in Dispatcher : /\ dpc[d] \in {"open", "reissue"}
                      /\ result[d].socket = s /\ ~result[d].cancelled}

\* The completions of operations on s, by their place in the queue.
Completed(s) ==
  {i \in DOMAIN results : results[i].socket = s /\ ~results[i].cancelled}

Operations(s) ==
  pending[s] + Cardinality(Completed(s)) + Cardinality(Reissuing(s))

\* While the listener listens, every accept operation it began with is in the
\* kernel, completed or about to be started again, but for the ones that
\* accept() could not start: errors, handlers that cannot be made, and the
\* completions of a listener that was stopped and started again cost none.
PoolKept ==
  isListening_ => Operations(accept_) + lost[accept_] >= Backlog

\* The completions that hold the socket of c, and the dispatchers.
Accepted(c) == {i \in DOMAIN results : results[i].client = c}
Serving(c)  == {d \in Dispatcher : dpc[d] = "open" /\ result[d].client = c}

Carriers(c) == Cardinality(Accepted(c)) + Cardinality(Serving(c))

\* A socket the kernel has accepted is in the hands of one completion, until a
\* handler has taken it over or handle_accept() has closed it: none is left open
\* without an owner, also when the listener is stopped meanwhile.
SocketsOwned ==
  \A c \in Client : Carriers(c) = IF client[c] = "accepted" THEN 1 ELSE 0

\* A peer that has connected is accepted, or refused because the listener is
\* stopped, unless the listener has lost all its operations.
PeersServed ==
  \A c \in Client :
    client[c] = "waiting" ~>
      client[c] # "waiting" \/ lost[at[c]] >= Backlog
-----------------------------------------------------------------------------
(* The inductive invariant behind the safety properties.                    *)

\* The listener has a socket of its own, and works or begins to work on it.
Active == isListening_ \/ apc \in {"listen", "accept"}

HandlesInv ==
  /\ isListening_ => apc = "idle"
  /\ apc = "socket" => made < MaxStarts
  /\ Active => accept_ \in Socket /\ handle_ = accept_
  /\ apc \in {"cancel", "close"} => handle_ \in Socket

\* Every start() makes a new socket: nothing refers to a later one.
MadeInv ==
  /\ handle_ <= made /\ accept_ <= made
  /\ \A s \in listening : s <= made
  /\ \A i \in DOMAIN results : results[i].socket <= made
  /\ \A d \in Dispatcher : result[d].socket <= made

\* A dispatcher inside handle_accept() holds a completion, and one that holds a
\* completion of the present socket has read a valid handle.
DispatchInv ==
  \A d \in Dispatcher : dpc[d] \in {"open", "reissue"} =>
    /\ result[d] \in Completion
    /\ Active /\ result[d].socket = accept_ => listen[d] # INVALID

\* The pool fills up to Backlog, and is kept.
PoolInv ==
  /\ apc = "accept" => Operations(accept_) + lost[accept_] >= started
  /\ PoolKept

IInv ==
  /\ TypeOK /\ HandlesInv /\ MadeInv /\ DispatchInv
  /\ PoolInv /\ SocketsOwned
-----------------------------------------------------------------------------
(* What the repository says, or a user would expect, and the code does not  *)
(* do.                                                                      *)

\* net_streamconnection_base.inl:1508, open(): "do not notify any
\* listener/connectors in this case": the subscribers do not hear of a
\* connection whose open() has failed.
FailedOpenIsSilent ==
  \A c \in failed : heard[c] = <<>>

\* The subscribers hear of the beginning of a connection before its end.
BeginsBeforeItEnds ==
  \A c \in Client : heard[c] # <<>> => Head(heard[c]) = "connect"

\* The number of operations stays at the number of initial ones.
PoolBounded ==
  \A s \in Socket : Operations(s) <= Backlog
=============================================================================
