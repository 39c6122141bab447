------------------------ MODULE AsynchConnectorProofs ------------------------
(***************************************************************************)
(* Proofs about AsynchConnector for any finite sets of callers and          *)
(* dispatchers, any set of connections, any number of descriptors and any   *)
(* number of retries.                                                       *)
(***************************************************************************)
EXTENDS AsynchConnector, TLAPS

CallerPc == {"idle", "connect", "options", "start", "error", "erase", "wait",
             "sleep", "woken", "register", "status", "stream"}

LEMMA NoneIsNoHandle == None \notin Handle
BY ConnectorAssumption DEF Handle

-----------------------------------------------------------------------------
(* What a step may do to one handle.                                        *)

\* The owners of a socket are of four kinds.
LEMMA OwnersAre ==
  ASSUME NEW h, NEW x
  PROVE  x \in Owners(h) <=>
           \/ \E c \in Preparing(h) : x = <<"caller", c>>
           \/ h \in connecting /\ x = <<"proactor", h>>
           \/ \E d \in Completing(h) : x = <<"dispatcher", d>>
           \/ \E k \in Having(h) : x = <<"connection", k>>
BY DEF Owners

\* Nothing happens to it ...
LEMMA Kept ==
  ASSUME NEW h, SocketOwned(h), h \in open' <=> h \in open, stolen => stolen',
         Owners(h)' = Owners(h)
  PROVE  SocketOwned(h)'
BY DEF SocketOwned

\* ... it gets an owner with socket() ...
LEMMA Acquired ==
  ASSUME NEW h, SocketOwned(h), h \notin open, h \in open', stolen => stolen',
         NEW x, Owners(h)' = Owners(h) \cup {x}
  PROVE  SocketOwned(h)'
BY DEF SocketOwned

\* ... one owner gives it to another ...
LEMMA Given ==
  ASSUME NEW h, SocketOwned(h), h \in open' <=> h \in open, stolen => stolen',
         NEW x \in Owners(h), NEW y, Owners(h)' = (Owners(h) \ {x}) \cup {y}
  PROVE  SocketOwned(h)'
BY DEF SocketOwned

\* ... its owner closes it ...
LEMMA Closed ==
  ASSUME NEW h, SocketOwned(h), h \notin open', stolen => stolen',
         NEW x \in Owners(h), Owners(h)' = Owners(h) \ {x}
  PROVE  SocketOwned(h)'
BY DEF SocketOwned

\* ... or somebody does that no longer owns it.
LEMMA ClosedAgain ==
  ASSUME NEW h, SocketOwned(h), h \notin open', stolen => stolen',
         h \in open => stolen', Owners(h)' = Owners(h)
  PROVE  SocketOwned(h)'
BY DEF SocketOwned

\* A step that changes none of the owners, and no socket.
LEMMA SameOwners ==
  ASSUME SocketsOwned, UNCHANGED <<open, connecting, stolen>>,
         \A h \in Handle : /\ Preparing(h)' = Preparing(h)
                           /\ Completing(h)' = Completing(h)
                           /\ Having(h)' = Having(h)
  PROVE  SocketsOwned'
<1> SUFFICES ASSUME NEW h \in Handle PROVE SocketOwned(h)'
  BY DEF SocketsOwned
<1>1. Owners(h)' = Owners(h)
  BY DEF Owners
<1>2. SocketOwned(h)
  BY DEF SocketsOwned
<1>3. QED
  BY <1>1, <1>2, Kept

LEMMA InitInv == Init => IInv
<1> SUFFICES ASSUME Init PROVE IInv
  OBVIOUS
<1>1. TypeOK
  <2>1. /\ open \subseteq Handle /\ connecting \subseteq Handle
        /\ conn \in [Connection -> Life]
        /\ chandle \in [Connection -> Handle \cup {None}]
        /\ shut \subseteq Connection /\ stolen \in BOOLEAN
        /\ handles_ \in [Handle -> {"absent", "pending", "ok", "error"}]
    BY DEF Init, Life
  <2>2. /\ pc \in [Caller -> CallerPc]
        /\ handle \in [Caller -> Handle \cup {None}]
        /\ retries \in [Caller -> Nat]
        /\ found \in [Caller -> Connection \cup {None}]
        /\ calls \in 0..MaxCalls
    BY ConnectorAssumption DEF Init, CallerPc
  <2>3. /\ dpc \in [Dispatcher -> {"idle", "validate", "broadcast", "make"}]
        /\ dhandle \in [Dispatcher -> Handle \cup {None}]
        /\ success \in [Dispatcher -> BOOLEAN]
    BY DEF Init
  <2>4. QED
    BY <2>1, <2>2, <2>3 DEF TypeOK, CallerPc
<1>2. HandlesInv
  BY DEF Init, HandlesInv
<1>3. ASSUME NEW h \in Handle PROVE SocketOwned(h)
  <2>1. /\ Preparing(h) = {} /\ Completing(h) = {} /\ Having(h) = {}
        /\ h \notin connecting /\ h \notin open
    BY NoneIsNoHandle DEF Init, Preparing, Completing, Having
  <2>2. Owners(h) = {}
    BY <2>1, OwnersAre
  <2>3. QED
    BY <2>1, <2>2 DEF SocketOwned
<1>4. QED
  BY <1>1, <1>2, <1>3 DEF IInv, SocketsOwned
-----------------------------------------------------------------------------
(* Steps of a caller.                                                       *)

\* A caller that neither gets nor gives away a socket moves on.
LEMMA MoveInv ==
  ASSUME IInv, NEW c \in Caller, NEW p \in CallerPc,
         UNCHANGED <<open, connecting, connVars, dispVars>>,
         pc' = [pc EXCEPT ![c] = p],
         handles_' \in [Handle -> {"absent", "pending", "ok", "error"}],
         retries' \in [Caller -> Nat],
         found' \in [Caller -> Connection \cup {None}],
         calls' \in 0..MaxCalls,
         \/ /\ handle' = handle
            /\ \/ handle[c] \in Handle
               \/ p \in {"idle", "connect", "register", "status", "stream"}
            /\ p \in {"options", "start", "error"}
                 <=> pc[c] \in {"options", "start", "error"}
         \/ /\ handle' = [handle EXCEPT ![c] = None]
            /\ p \in {"idle", "connect", "register", "status", "stream"}
            /\ pc[c] \notin {"options", "start", "error"}
  PROVE  IInv'
<1> USE DEF IInv, dispVars, connVars, CallerPc
<1>1. handle' \in [Caller -> Handle \cup {None}] /\ pc' \in [Caller -> CallerPc]
  BY DEF TypeOK
<1>2. TypeOK'
  BY <1>1 DEF TypeOK
<1>3. HandlesInv'
  BY DEF TypeOK, HandlesInv
<1>4. \A h \in Handle : /\ Preparing(h)' = Preparing(h)
                        /\ Completing(h)' = Completing(h)
                        /\ Having(h)' = Having(h)
  BY NoneIsNoHandle DEF TypeOK, Preparing, Completing, Having
<1>5. SocketsOwned'
  BY <1>4, SameOwners
<1>6. QED
  BY <1>2, <1>3, <1>5

\* The caller tries again, or gives up.
LEMMA RetryMoves ==
  ASSUME TypeOK, NEW c \in Caller, Retry(c)
  PROVE  /\ \E p \in {"idle", "connect"} : pc' = [pc EXCEPT ![c] = p]
         /\ retries' \in [Caller -> Nat]
<1>1. retries \in [Caller -> Nat]
  BY DEF TypeOK
<1>2. CASE retries[c] > 0
  BY <1>1, <1>2 DEF Retry, Goto
<1>3. CASE ~(retries[c] > 0)
  BY <1>1, <1>3 DEF Retry, Goto
<1>4. QED
  BY <1>2, <1>3

\* socket() makes the caller the owner of a descriptor.
LEMMA ConnectSocketInv ==
  ASSUME IInv, NEW c \in Caller, connect_socket(c)
  PROVE  IInv'
<1> USE DEF IInv
<1>2. CASE open = Handle /\ Retry(c) /\ UNCHANGED <<open, handle>>
  <2>1. PICK p \in {"idle", "connect"} : pc' = [pc EXCEPT ![c] = p]
    BY <1>2, RetryMoves
  <2>2. /\ handles_' \in [Handle -> {"absent", "pending", "ok", "error"}]
        /\ retries' \in [Caller -> Nat]
        /\ found' \in [Caller -> Connection \cup {None}]
        /\ calls' \in 0..MaxCalls
    BY <1>2, RetryMoves DEF connect_socket, TypeOK
  <2>3. p \in CallerPc
    BY DEF CallerPc
  <2>4. QED
    BY <1>2, <2>1, <2>2, <2>3, MoveInv DEF connect_socket
<1>3. ASSUME NEW h \in Handle \ open, open' = open \cup {h},
             handle' = [handle EXCEPT ![c] = h], Goto(c, "options"),
             UNCHANGED retries
      PROVE  IInv'
  <2>0. TypeOK' /\ HandlesInv'
    BY <1>3 DEF connect_socket, Goto, connVars, dispVars, TypeOK, HandlesInv
  <2>1. /\ Preparing(h)' = Preparing(h) \cup {c}
        /\ \A g \in Handle \ {h} : Preparing(g)' = Preparing(g)
        /\ \A g \in Handle : /\ Completing(g)' = Completing(g)
                              /\ Having(g)' = Having(g)
        /\ UNCHANGED <<connecting, stolen>>
    BY <1>3 DEF connect_socket, Goto, connVars, dispVars, TypeOK, Preparing,
       Completing, Having
  <2>2. ASSUME NEW g \in Handle PROVE SocketOwned(g)'
    <3>1. SocketOwned(g)
      BY DEF SocketsOwned
    <3>2. CASE g = h
      <4>1. Owners(h)' = Owners(h) \cup {<<"caller", c>>}
        BY <2>1 DEF Owners
      <4>2. QED
        BY <1>3, <2>1, <3>1, <3>2, <4>1, Acquired
    <3>3. CASE g # h
      <4>1. Owners(g)' = Owners(g)
        BY <2>1, <3>3 DEF Owners
      <4>2. QED
        BY <1>3, <2>1, <3>1, <3>3, <4>1, Kept
    <3>4. QED
      BY <3>2, <3>3
  <2>3. QED
    BY <2>0, <2>2 DEF SocketsOwned
<1>4. QED
  BY <1>2, <1>3 DEF connect_socket

\* The caller gives the socket to the proactor, or closes it.
LEMMA ConnectStartInv ==
  ASSUME IInv, NEW c \in Caller, connect_start(c) \/ connect_close(c)
  PROVE  IInv'
<1> USE DEF IInv
<1>0. PICK h \in Handle : h = handle[c]
  BY DEF HandlesInv, connect_start, connect_close
<1>1. TypeOK'
  BY <1>0 DEF connect_start, connect_close, Goto, connVars, dispVars, TypeOK
<1>2. HandlesInv'
  BY DEF connect_start, connect_close, Goto, connVars, dispVars, TypeOK, HandlesInv
<1>3. c \in Preparing(h) /\ <<"caller", c>> \in Owners(h)
  BY <1>0 DEF connect_start, connect_close, Preparing, Owners
<1>5. CASE Goto(c, "error") /\ connect_start(c) /\ UNCHANGED connecting
  <2>1. \A g \in Handle : /\ Preparing(g)' = Preparing(g)
                          /\ Completing(g)' = Completing(g)
                          /\ Having(g)' = Having(g)
    BY <1>5 DEF connect_start, Goto, connVars, dispVars, TypeOK, Preparing,
       Completing, Having
  <2>2. SocketsOwned'
    BY <1>5, <2>1, SameOwners DEF connect_start, connVars
  <2>3. QED
    BY <1>1, <1>2, <2>2
<1>6. CASE \/ connect_close(c)
           \/ /\ connect_start(c) /\ Goto(c, "wait")
              /\ h \notin connecting /\ connecting' = connecting \cup {h}
  <2>1. /\ Preparing(h)' = Preparing(h) \ {c}
        /\ \A g \in Handle \ {h} : Preparing(g)' = Preparing(g)
        /\ \A g \in Handle : /\ Completing(g)' = Completing(g)
                              /\ Having(g)' = Having(g)
        /\ UNCHANGED stolen
    BY <1>0, <1>6 DEF connect_start, connect_close, Goto, connVars, dispVars,
       TypeOK, Preparing, Completing, Having
  <2>2. ASSUME NEW g \in Handle, g # h PROVE SocketOwned(g)'
    <3>1. /\ g \in open' <=> g \in open
          /\ connecting' \cap {g} = connecting \cap {g}
      BY <1>0, <1>6, <2>2 DEF connect_start, connect_close
    <3>2. Owners(g)' = Owners(g)
      BY <2>1, <2>2, <3>1 DEF Owners
    <3>3. QED
      BY <2>1, <3>1, <3>2, Kept DEF SocketsOwned
  <2>3. SocketOwned(h)'
    <3>1. SocketOwned(h)
      BY DEF SocketsOwned
    <3>2. CASE connect_close(c)
      <4>1. Owners(h)' = Owners(h) \ {<<"caller", c>>}
        BY <2>1, <3>2 DEF connect_close, Owners
      <4>2. h \notin open'
        BY <1>0, <3>2 DEF connect_close
      <4>3. QED
        BY <1>3, <2>1, <3>1, <4>1, <4>2, Closed
    <3>3. CASE connect_start(c) /\ connecting' = connecting \cup {h}
      <4>1. Owners(h)' = (Owners(h) \ {<<"caller", c>>}) \cup {<<"proactor", h>>}
        BY <2>1, <3>3 DEF Owners
      <4>2. open' = open
        BY <3>3 DEF connect_start
      <4>3. QED
        BY <1>3, <2>1, <3>1, <4>1, <4>2, Given
    <3>4. QED
      BY <1>6, <3>2, <3>3
  <2>4. SocketsOwned'
    BY <2>2, <2>3 DEF SocketsOwned
  <2>5. QED
    BY <1>1, <1>2, <2>4
<1>7. QED
  BY <1>0, <1>5, <1>6 DEF connect_start

\* Every other step of a caller happens before it has a socket, while it keeps
\* it, or after it has given it away.
LEMMA CallerInv ==
  ASSUME IInv, NEW c \in Caller, call(c) \/ CallerStep(c)
  PROVE  IInv'
<1>0. /\ TypeOK /\ HandlesInv
      /\ handles_ \in [Handle -> {"absent", "pending", "ok", "error"}]
      /\ retries \in [Caller -> Nat] /\ Retries \in [Caller -> Nat]
      /\ calls \in 0..MaxCalls /\ MaxCalls \in Nat
      /\ found \in [Caller -> Connection \cup {None}]
  BY ConnectorAssumption DEF IInv, TypeOK
<1> USE DEF CallerPc
<1>1. CASE connect_socket(c) \/ connect_start(c) \/ connect_close(c)
  BY <1>1, ConnectSocketInv, ConnectStartInv
<1>2. CASE call(c)
  <2>1. calls' \in 0..MaxCalls /\ retries' \in [Caller -> Nat]
    BY <1>0, <1>2 DEF call
  <2>2. QED
    BY <1>0, <1>2, <2>1, MoveInv DEF call, Goto
<1>3. CASE connect_insert(c)
  <2>1. handle[c] \in Handle /\ pc[c] = "options"
    BY <1>0, <1>3 DEF connect_insert, HandlesInv
  <2>2. handles_' \in [Handle -> {"absent", "pending", "ok", "error"}]
    BY <1>0, <1>3, <2>1 DEF connect_insert
  <2>3. PICK p \in {"start", "error"} : pc' = [pc EXCEPT ![c] = p]
    BY <1>3 DEF connect_insert, Goto
  <2>4. QED
    BY <1>0, <1>3, <2>1, <2>2, <2>3, MoveInv DEF connect_insert
<1>4. CASE connect_erase(c)
  <2>1. PICK p \in {"idle", "connect"} : pc' = [pc EXCEPT ![c] = p]
    BY <1>0, <1>4, RetryMoves DEF connect_erase
  <2>2. /\ retries' \in [Caller -> Nat]
        /\ handles_' \in [Handle -> {"absent", "pending", "ok", "error"}]
    BY <1>0, <1>4, RetryMoves DEF connect_erase
  <2>3. QED
    BY <1>0, <1>4, <2>1, <2>2, MoveInv DEF connect_erase
<1>5. CASE wait_sleep(c)
  <2>1. handle[c] \in Handle
    BY <1>0, <1>5 DEF wait_sleep, HandlesInv
  <2>2. QED
    BY <1>0, <1>5, <2>1, MoveInv DEF wait_sleep, Goto
<1>6. ASSUME NEW R, Waited(c, R), pc[c] \in {"wait", "woken", "sleep"}
      PROVE  IInv'
  <2>1. PICK p \in {"connect", "register"} : pc' = [pc EXCEPT ![c] = p]
    BY <1>6 DEF Waited, Goto
  <2>2. retries' \in [Caller -> Nat]
    BY <1>0, <1>6 DEF Waited
  <2>3. QED
    BY <1>0, <1>6, <2>1, <2>2, MoveInv DEF Waited
<1>7. CASE wait_nothing(c) \/ wait_woken(c) \/ wait_timeout(c)
  BY <1>6, <1>7 DEF wait_nothing, wait_woken, wait_timeout
<1>8. CASE register_get(c)
  <2>1. found' \in [Caller -> Connection \cup {None}]
    BY <1>0, <1>8 DEF register_get, registered
  <2>2. QED
    BY <1>0, <1>8, <2>1, MoveInv DEF register_get, Goto
<1>9. CASE register_deadline(c)
  <2>1. PICK p \in {"idle", "connect"} : pc' = [pc EXCEPT ![c] = p]
    BY <1>0, <1>9, RetryMoves DEF register_deadline
  <2>2. QED
    BY <1>0, <1>9, <2>1, RetryMoves, MoveInv DEF register_deadline
<1>10. CASE status(c)
  <2>1. /\ found' \in [Caller -> Connection \cup {None}]
        /\ retries' \in [Caller -> Nat]
    BY <1>0, <1>10, RetryMoves DEF status
  <2>2. PICK p \in {"idle", "connect", "stream"} : pc' = [pc EXCEPT ![c] = p]
    BY <1>0, <1>10, RetryMoves DEF status, Goto
  <2>3. QED
    BY <1>0, <1>10, <2>1, <2>2, MoveInv DEF status
<1>11. CASE stream_wait(c)
  <2>1. /\ found' \in [Caller -> Connection \cup {None}]
        /\ retries' \in [Caller -> Nat]
        /\ pc' = [pc EXCEPT ![c] = "idle"]
    BY <1>0, <1>11 DEF stream_wait, Goto
  <2>2. QED
    BY <1>0, <1>11, <2>1, MoveInv DEF stream_wait
<1>12. QED
  BY <1>1, <1>2, <1>3, <1>4, <1>5, <1>7, <1>8, <1>9, <1>10, <1>11
     DEF CallerStep
-----------------------------------------------------------------------------
(* Steps of a dispatcher and of the connections.                            *)

\* The completion takes the socket over from the proactor.
LEMMA CompleteInv ==
  ASSUME IInv, NEW d \in Dispatcher, complete(d)
  PROVE  IInv'
<1> USE DEF IInv
<1>1. PICK h \in connecting, s \in BOOLEAN :
        /\ connecting' = connecting \ {h}
        /\ dhandle' = [dhandle EXCEPT ![d] = h]
        /\ success' = [success EXCEPT ![d] = s]
  BY DEF complete
<1>2. /\ h \in Handle /\ dpc[d] = "idle" /\ dhandle[d] = None
      /\ dpc' = [dpc EXCEPT ![d] = "validate"]
      /\ UNCHANGED <<open, conn, chandle, shut, stolen, handles_, pc, handle,
                     retries, found, calls>>
  BY DEF complete, callVars, connVars, HandlesInv, TypeOK
<1>3. TypeOK' /\ HandlesInv'
  BY <1>1, <1>2, NoneIsNoHandle DEF TypeOK, HandlesInv
<1>4. /\ Completing(h)' = Completing(h) \cup {d}
      /\ \A g \in Handle \ {h} : Completing(g)' = Completing(g)
      /\ \A g \in Handle : Preparing(g)' = Preparing(g) /\ Having(g)' = Having(g)
  BY <1>1, <1>2, NoneIsNoHandle DEF TypeOK, Completing, Preparing, Having
<1>5. ASSUME NEW g \in Handle PROVE SocketOwned(g)'
  <2>1. SocketOwned(g)
    BY DEF SocketsOwned
  <2>2. CASE g = h
    <3>1. <<"proactor", h>> \in Owners(h)
      BY <1>1 DEF Owners
    <3>2. Owners(h)' = (Owners(h) \ {<<"proactor", h>>}) \cup {<<"dispatcher", d>>}
      BY <1>1, <1>2, <1>4 DEF Owners
    <3>3. QED
      BY <1>2, <2>1, <2>2, <3>1, <3>2, Given
  <2>3. CASE g # h
    <3>1. connecting' \cap {g} = connecting \cap {g}
      BY <1>1, <2>3
    <3>2. Owners(g)' = Owners(g)
      BY <1>2, <1>4, <2>3, <3>1 DEF Owners
    <3>3. QED
      BY <1>2, <2>1, <3>2, Kept
  <2>4. QED
    BY <2>2, <2>3
<1>6. QED
  BY <1>3, <1>5 DEF SocketsOwned

\* The socket goes on to the new connection, or is closed with the handler.
LEMMA MakeHandlerInv ==
  ASSUME IInv, NEW d \in Dispatcher, make_handler(d)
  PROVE  IInv'
<1> USE DEF IInv
<1>0. PICK h \in Handle : h = dhandle[d]
  BY DEF HandlesInv, TypeOK, make_handler
<1>1. /\ dpc' = [dpc EXCEPT ![d] = "idle"]
      /\ dhandle' = [dhandle EXCEPT ![d] = None]
      /\ success' = [success EXCEPT ![d] = FALSE]
      /\ UNCHANGED <<connecting, shut, stolen, handles_, pc, handle, retries,
                     found, calls>>
  BY DEF make_handler, callVars
<1>2. d \in Completing(h) /\ <<"dispatcher", d>> \in Owners(h)
  BY <1>0 DEF Completing, Owners
<1>3. /\ Completing(h)' = Completing(h) \ {d}
      /\ \A g \in Handle \ {h} : Completing(g)' = Completing(g)
      /\ \A g \in Handle : Preparing(g)' = Preparing(g)
  BY <1>0, <1>1, NoneIsNoHandle DEF TypeOK, Completing, Preparing
<1>4. ASSUME NEW k \in Connection, conn[k] = "free",
             conn' = [conn EXCEPT ![k] = "new"],
             chandle' = [chandle EXCEPT ![k] = h], UNCHANGED open
      PROVE  IInv'
  <2>1. TypeOK' /\ HandlesInv'
    BY <1>0, <1>1, <1>4, NoneIsNoHandle DEF TypeOK, HandlesInv, Life
  <2>2. /\ Having(h)' = Having(h) \cup {k}
        /\ \A g \in Handle \ {h} : Having(g)' = Having(g)
    BY <1>1, <1>4, NoneIsNoHandle DEF TypeOK, HandlesInv, Having
  <2>3. ASSUME NEW g \in Handle PROVE SocketOwned(g)'
    <3>1. SocketOwned(g)
      BY DEF SocketsOwned
    <3>2. CASE g = h
      <4>1. Owners(h)' = (Owners(h) \ {<<"dispatcher", d>>})
                           \cup {<<"connection", k>>}
        BY <1>1, <1>3, <2>2 DEF Owners
      <4>2. QED
        BY <1>1, <1>2, <1>4, <3>1, <3>2, <4>1, Given
    <3>3. CASE g # h
      <4>1. Owners(g)' = Owners(g)
        BY <1>1, <1>3, <2>2, <3>3 DEF Owners
      <4>2. QED
        BY <1>1, <1>4, <3>1, <4>1, Kept
    <3>4. QED
      BY <3>2, <3>3
  <2>4. QED
    BY <2>1, <2>3 DEF SocketsOwned
<1>5. CASE open' = open \ {h} /\ UNCHANGED <<conn, chandle>>
  <2>1. TypeOK' /\ HandlesInv'
    BY <1>0, <1>1, <1>5, NoneIsNoHandle DEF TypeOK, HandlesInv
  <2>2. \A g \in Handle : Having(g)' = Having(g)
    BY <1>1, <1>5 DEF Having
  <2>3. ASSUME NEW g \in Handle PROVE SocketOwned(g)'
    <3>1. SocketOwned(g)
      BY DEF SocketsOwned
    <3>2. CASE g = h
      <4>1. Owners(h)' = Owners(h) \ {<<"dispatcher", d>>}
        BY <1>1, <1>3, <2>2 DEF Owners
      <4>2. QED
        BY <1>1, <1>2, <1>5, <3>1, <3>2, <4>1, Closed
    <3>3. CASE g # h
      <4>1. Owners(g)' = Owners(g)
        BY <1>1, <1>3, <2>2, <3>3 DEF Owners
      <4>2. QED
        BY <1>1, <1>5, <3>1, <3>3, <4>1, Kept
    <3>4. QED
      BY <3>2, <3>3
  <2>4. QED
    BY <2>1, <2>3 DEF SocketsOwned
<1>6. QED
  BY <1>0, <1>4, <1>5 DEF make_handler

\* validate_connection() touches results and sleepers only.
LEMMA ValidateInv ==
  ASSUME IInv, NEW d \in Dispatcher, validate_store(d) \/ validate_broadcast(d)
  PROVE  IInv'
<1> USE DEF IInv, validate_store, validate_broadcast, callVars, connVars
<1>0. dhandle[d] \in Handle
  BY DEF HandlesInv, TypeOK
<1>1. TypeOK'
  <2>1. CASE validate_store(d)
    BY <1>0, <2>1 DEF TypeOK
  <2>2. CASE validate_broadcast(d)
    BY <2>2 DEF TypeOK
  <2>3. QED
    BY <2>1, <2>2
<1>2. HandlesInv'
  BY DEF TypeOK, HandlesInv
<1>3. \A h \in Handle : /\ Preparing(h)' = Preparing(h)
                        /\ Completing(h)' = Completing(h)
                        /\ Having(h)' = Having(h)
  BY DEF TypeOK, Preparing, Completing, Having
<1>4. SocketsOwned'
  BY <1>3, SameOwners
<1>5. QED
  BY <1>1, <1>2, <1>4

\* A connection that closes its handle owns the socket, or has closed it before.
LEMMA CloseSocketInv ==
  ASSUME IInv, NEW k \in Connection, abort(k) \/ connection_close(k)
  PROVE  IInv'
<1> USE DEF IInv, abort, connection_close, closesocket, Becomes, callVars, dispVars
<1>1. TypeOK'
  BY DEF TypeOK, Life
<1>2. HandlesInv'
  BY DEF TypeOK, HandlesInv, Life
<1>3. PICK h \in Handle : h = chandle[k]
  BY DEF TypeOK, HandlesInv
<1>4. /\ \A g \in Handle : /\ Preparing(g)' = Preparing(g)
                            /\ Completing(g)' = Completing(g)
      /\ Having(h)' = Having(h) \ {k}
      /\ \A g \in Handle \ {h} : Having(g)' = Having(g)
      /\ connecting' = connecting /\ open' = open \ {h}
      /\ stolen' = (stolen \/ (k \in shut /\ h \in open))
  BY <1>3 DEF Preparing, Completing, Having
<1>5. ASSUME NEW g \in Handle PROVE SocketOwned(g)'
  <2>1. SocketOwned(g)
    BY DEF SocketsOwned
  <2>2. CASE g # h
    <3>1. Owners(g)' = Owners(g)
      BY <1>4, <2>2 DEF Owners
    <3>2. QED
      BY <1>4, <2>1, <2>2, <3>1, Kept
  <2>3. CASE g = h /\ k \notin shut
    <3>1. <<"connection", k>> \in Owners(h)
      BY <1>3, <2>3 DEF Owners, Having
    <3>2. Owners(h)' = Owners(h) \ {<<"connection", k>>}
      BY <1>4 DEF Owners
    <3>3. QED
      BY <1>4, <2>1, <2>3, <3>1, <3>2, Closed
  <2>4. CASE g = h /\ k \in shut
    <3>1. Having(h)' = Having(h)
      BY <1>4, <2>4 DEF Having
    <3>2. Owners(h)' = Owners(h)
      BY <1>4, <3>1 DEF Owners
    <3>3. QED
      BY <1>4, <2>1, <2>4, <3>2, ClosedAgain
  <2>5. QED
    BY <2>2, <2>3, <2>4
<1>6. QED
  BY <1>1, <1>2, <1>5 DEF SocketsOwned

\* The other steps leave its handle alone, or come after it has been closed.
LEMMA ConnectionInv ==
  ASSUME IInv, NEW k \in Connection, ConnectionStep(k)
  PROVE  IInv'
<1> USE DEF IInv
<1>1. CASE abort(k) \/ connection_close(k)
  BY <1>1, CloseSocketInv
<1>2. CASE \/ connection_open(k) \/ connection_fail(k) \/ close_state(k)
           \/ close_stop(k) \/ close_deregister(k)
  <2> USE DEF connection_open, connection_fail, close_state, close_stop,
              close_deregister, Becomes, callVars, dispVars
  <2>1. TypeOK'
    BY <1>2 DEF TypeOK, Life
  <2>2. HandlesInv'
    BY <1>2 DEF TypeOK, HandlesInv, Life
  <2>3. \A g \in Handle : /\ Preparing(g)' = Preparing(g)
                          /\ Completing(g)' = Completing(g)
                          /\ Having(g)' = Having(g)
    BY <1>2 DEF Preparing, Completing, Having
  <2>4. UNCHANGED <<open, connecting, stolen>>
    BY <1>2
  <2>5. QED
    BY <2>1, <2>2, <2>3, <2>4, SameOwners
<1>3. CASE connection_delete(k)
  <2> USE DEF connection_delete, Becomes, callVars, dispVars
  <2>1. TypeOK'
    BY <1>3 DEF TypeOK, Life
  <2>2. HandlesInv'
    BY <1>3, NoneIsNoHandle DEF TypeOK, HandlesInv
  <2>3. \A g \in Handle : /\ Preparing(g)' = Preparing(g)
                          /\ Completing(g)' = Completing(g)
                          /\ Having(g)' = Having(g)
    BY <1>3, NoneIsNoHandle DEF TypeOK, HandlesInv, Preparing, Completing, Having
  <2>4. UNCHANGED <<open, connecting, stolen>>
    BY <1>3
  <2>5. QED
    BY <2>1, <2>2, <2>3, <2>4, SameOwners
<1>4. QED
  BY <1>1, <1>2, <1>3 DEF ConnectionStep
-----------------------------------------------------------------------------
\* The invariant is inductive.
LEMMA NextInv == IInv /\ [Next]_vars => IInv'
<1> SUFFICES ASSUME IInv, [Next]_vars PROVE IInv'
  OBVIOUS
<1>1. ASSUME NEW d \in Dispatcher, complete(d) \/ handle_connect(d)
      PROVE  IInv'
  BY <1>1, CompleteInv, ValidateInv, MakeHandlerInv DEF handle_connect
<1>2. CASE UNCHANGED vars
  <2>1. TypeOK' /\ HandlesInv'
    BY <1>2 DEF vars, IInv, TypeOK, HandlesInv
  <2>2. SocketsOwned'
    BY <1>2, SameOwners DEF vars, IInv, Preparing, Completing, Having
  <2>3. QED
    BY <2>1, <2>2 DEF IInv
<1>3. QED
  BY <1>1, <1>2, CallerInv, ConnectionInv DEF Next

\* Every reachable state satisfies the inductive invariant, whatever the number
\* of callers, dispatchers, connections, descriptors and retries.
THEOREM Invariance == Spec => []IInv
BY InitInv, NextInv, PTL DEF Spec

\* The connector's map, the callers, the dispatchers and the connections keep
\* their types; no caller's retries run below zero.
THEOREM TypeCorrect == Spec => []TypeOK
<1>1. IInv => TypeOK
  BY DEF IInv
<1>2. QED
  BY <1>1, Invariance, PTL

\* Every open socket has an owner that will close it, although connect() gives it
\* away before it waits; and it has only one, although the operating system hands
\* out the number of a closed socket again, until the second close of a connection
\* hits somebody else's number.
THEOREM SocketsHaveOneOwner == Spec => []SocketsOwned
<1>1. IInv => SocketsOwned
  BY DEF IInv
<1>2. QED
  BY <1>1, Invariance, PTL
=============================================================================
