---------------------------- MODULE SessionProofs ----------------------------
(***************************************************************************)
(* Proofs about Session for any threads, connections and number of         *)
(* descriptors, with the reactor and with the proactor.                    *)
(***************************************************************************)
EXTENDS Session, TLAPS

LEMMA NoneIsNobody == None \notin User /\ None \notin Connection /\ None \notin Id
BY SessionAssumption DEF User, Id

LEMMA InitInv == Init => IInv
<1> SUFFICES ASSUME Init PROVE IInv
  OBVIOUS
<1>1. TypeOK
  <2>1. /\ isAsynch_ \in BOOLEAN
        /\ phase \in [Connection -> {"none", "begin", "in", "ended", "stopped",
                                     "closed"}]
        /\ id \in [Connection -> Id \cup {None}]
        /\ socket \subseteq Connection /\ invalid \subseteq Connection
        /\ early \subseteq Connection
        /\ listed \subseteq Connection /\ closing \subseteq Connection
        /\ connections \subseteq Id
        /\ conf \in [Connection -> {"none", "used", "connect", "close"}]
        /\ stored \in [Id -> Connection \cup {None}]
    BY DEF Init
  <2>2. QED
    BY <2>1 DEF Init, TypeOK
<1>2. HandlesInv /\ MembersInv /\ SleepInv /\ ConnectInv /\ CurrentInv
  BY DEF Init, HandlesInv, MembersInv, SleepInv, ConnectInv, CurrentInv
<1>3. LockInv
  BY NoneIsNobody DEF Init, LockInv
<1>4. QED
  BY <1>1, <1>2, <1>3 DEF IInv

\* Two connections that have not told the session of their end have different
\* ids, unless the handle of one of them was closed early.
LEMMA DifferentIds ==
  ASSUME HandlesInv, NEW k \in Connection, NEW l \in Connection, k # l,
         phase[k] \in {"begin", "in"}, phase[l] \in {"begin", "in"},
         ~Shared(k)
  PROVE  id[k] # id[l]
<1> SUFFICES ASSUME id[k] = id[l] PROVE FALSE
  OBVIOUS
<1>1. k \notin early /\ l \notin early
  BY DEF Shared
<1>2. k \in socket /\ l \in socket
  BY <1>1 DEF HandlesInv
<1>3. QED
  BY <1>2 DEF HandlesInv
-----------------------------------------------------------------------------
(* Steps of a connection.                                                   *)

\* connect(id) adds the id of its connection.
LEMMA ConnectIdInv ==
  ASSUME IInv, NEW k \in Connection, connect_id(k)
  PROVE  IInv'
<1> USE DEF IInv, connect_id
<1>1. TypeOK'
  <2>1. id[k] \in Id
    BY DEF TypeOK, HandlesInv
  <2>2. QED
    BY <2>1 DEF TypeOK, confVars, closeVars
<1>2. HandlesInv'
  BY DEF TypeOK, HandlesInv
<1>3. MembersInv'
  BY DEF TypeOK, HandlesInv, MembersInv, Shared
<1>4. LockInv' /\ SleepInv' /\ ConnectInv'
  BY DEF TypeOK, HandlesInv, LockInv, SleepInv, ConnectInv
<1>5. CurrentInv'
  BY DEF TypeOK, CurrentInv, closeVars
<1>6. QED
  BY <1>1, <1>2, <1>3, <1>4, <1>5

\* disconnect(id) removes the id of its own connection and of no other that does
\* not share it, and wakes the sleepers when it was the last.
LEMMA DisconnectIdInv ==
  ASSUME IInv, NEW k \in Connection, disconnect_id(k)
  PROVE  IInv'
<1> USE DEF IInv, disconnect_id
<1>1. TypeOK'
  BY DEF TypeOK, confVars, closeVars
<1>2. HandlesInv'
  BY DEF TypeOK, HandlesInv
<1>3. MembersInv'
  <2>1. ASSUME NEW i \in connections'
        PROVE  \E l \in Connection : phase'[l] = "in" /\ id'[l] = i
    BY <2>1 DEF TypeOK, MembersInv
  <2>2. ASSUME NEW l \in Connection, phase'[l] = "in", ~Shared(l)'
        PROVE  id'[l] \in connections'
    <3>1. l # k /\ phase[l] = "in" /\ ~Shared(l)
      BY <2>2 DEF TypeOK, Shared
    <3>2. id[l] # id[k]
      BY <3>1, DifferentIds
    <3>3. QED
      BY <3>1, <3>2 DEF MembersInv
  <2>3. QED
    BY <2>1, <2>2 DEF MembersInv
<1>4. \A u \in User :
        /\ pc'[u] \in {"abort", "abort_close", "inline"}
             <=> pc[u] \in {"abort", "abort_close", "inline"}
        /\ pc'[u] \in {"get", "store"} <=> pc[u] \in {"get", "store"}
        /\ pc'[u] \in {"asleep", "close_asleep"} => connections' # {}
        /\ pc'[u] \in {"disconnect_close", "abort_close"} => pc'[u] = pc[u]
        /\ \A l \in Connection : phase[l] # "none" => phase'[l] # "none"
  BY DEF TypeOK
<1>5. LockInv' /\ SleepInv' /\ ConnectInv' /\ CurrentInv'
  BY <1>4 DEF LockInv, SleepInv, ConnectInv, CurrentInv, closeVars
<1>6. QED
  BY <1>1, <1>2, <1>3, <1>5

\* Whoever is hit by a closesocket() has lost its socket early, or has ended.
LEMMA CloseSocketInv ==
  ASSUME IInv, NEW k \in Connection, closesocket(k), phase[k] # "none",
         UNCHANGED <<id, connections>>,
         \A l \in Connection : /\ phase'[l] = "none" <=> phase[l] = "none"
                               /\ phase'[l] = "begin" <=> phase[l] = "begin"
                               /\ phase'[l] = "in" <=> phase[l] = "in",
         listed' \subseteq listed, closing' \subseteq closing \cup {k}
  PROVE  HandlesInv' /\ MembersInv'
<1>1. /\ HandlesInv /\ MembersInv /\ socket \subseteq Connection
      /\ early \subseteq Connection /\ early \subseteq early'
      /\ socket' \subseteq socket /\ listed \subseteq Connection
  BY DEF IInv, TypeOK, closesocket
<1>2. ASSUME NEW l \in Connection
      PROVE  /\ phase'[l] \in {"begin", "in"} => l \in socket' \cup early'
             /\ phase'[l] = "none" => l \notin socket' \cup listed' \cup closing'
             /\ phase'[l] = "none" <=> id'[l] = None
  BY <1>1 DEF HandlesInv, closesocket
<1>3. \A l, m \in socket' : id'[l] = id'[m] => l = m
  BY <1>1 DEF HandlesInv
<1>4. HandlesInv'
  BY <1>2, <1>3 DEF HandlesInv
<1>5. \A l \in Connection : Shared(l) => Shared(l)'
  BY <1>1 DEF Shared
<1>6. MembersInv'
  BY <1>1, <1>5 DEF MembersInv
<1>7. QED
  BY <1>4, <1>6

\* The peer's close, the end of the stream and of the manager's registration leave
\* ids and sockets alone; the close of the socket leaves the session alone.
LEMMA EndInv ==
  ASSUME IInv, NEW k \in Connection,
         peer_close(k) \/ stream_stopped(k) \/ shutdown(k) \/ deregister(k)
  PROVE  IInv'
<1> USE DEF IInv, peer_close, stream_stopped, shutdown, deregister, sessVars,
            confVars, closeVars
<1>1. TypeOK'
  <2>1. UNCHANGED <<isAsynch_, id, connections, conf, stored, lock_, pc, mine,
                    current, ids, todo>>
    OBVIOUS
  <2>2. phase' \in [Connection -> {"none", "begin", "in", "ended", "stopped",
                                   "closed"}]
    BY DEF TypeOK
  <2>3. /\ socket' \subseteq Connection /\ early' \subseteq Connection
        /\ invalid' \subseteq Connection
        /\ listed' \subseteq Connection /\ closing' \subseteq Connection
    BY DEF TypeOK, closesocket
  <2>4. QED
    BY <2>1, <2>2, <2>3 DEF TypeOK
<1>2. HandlesInv' /\ MembersInv'
  <2>1. CASE shutdown(k)
    <3>1. phase[k] # "none"
      BY <2>1 DEF HandlesInv
    <3>2. \A l \in Connection : /\ phase'[l] = "none" <=> phase[l] = "none"
                                /\ phase'[l] = "begin" <=> phase[l] = "begin"
                                /\ phase'[l] = "in" <=> phase[l] = "in"
      BY <2>1 DEF TypeOK
    <3>3. QED
      BY <2>1, <3>1, <3>2, CloseSocketInv
  <2>2. CASE peer_close(k) \/ stream_stopped(k) \/ deregister(k)
    <3>1. HandlesInv'
      BY <2>2 DEF TypeOK, HandlesInv
    <3>2. MembersInv'
      BY <2>2 DEF TypeOK, MembersInv, Shared
    <3>3. QED
      BY <3>1, <3>2
  <2>3. QED
    BY <2>1, <2>2
<1>3. LockInv' /\ SleepInv' /\ ConnectInv'
  BY DEF LockInv, SleepInv, ConnectInv
<1>4. CurrentInv'
  BY DEF TypeOK, CurrentInv
<1>5. QED
  BY <1>1, <1>2, <1>3, <1>4
-----------------------------------------------------------------------------
(* Steps of connect(address) and disconnect(address).                       *)

\* A new socket gets a handle that no open socket has.
LEMMA ConnectInvariant ==
  ASSUME IInv, NEW u \in User, connect(u)
  PROVE  IInv'
<1> USE DEF IInv
<1>1. PICK k \in Connection, i \in Id \ {id[l] : l \in socket} :
        /\ phase[k] = "none"
        /\ phase' = [phase EXCEPT ![k] = "begin"]
        /\ id' = [id EXCEPT ![k] = i]
        /\ socket' = socket \cup {k}
        /\ listed' = listed \cup {k}
        /\ \/ /\ conf' = [conf EXCEPT ![k] = "used"]
              /\ mine' = [mine EXCEPT ![u] = k]
              /\ pc' = [pc EXCEPT ![u] = "get"]
           \/ /\ conf' = [conf EXCEPT ![k] = "connect"]
              /\ UNCHANGED <<mine, pc>>
  BY DEF connect, Goto
<1>2. /\ UNCHANGED <<isAsynch_, invalid, early, closing, connections, stored, lock_,
                     current, ids, todo>>
      /\ pc[u] = "idle"
  BY DEF connect, closeVars
<1>3. k \notin socket
  BY <1>1 DEF HandlesInv
<1>4. TypeOK'
  <2>1. /\ phase' \in [Connection -> {"none", "begin", "in", "ended", "stopped",
                                      "closed"}]
        /\ id' \in [Connection -> Id \cup {None}]
        /\ socket' \subseteq Connection /\ listed' \subseteq Connection
        /\ conf' \in [Connection -> {"none", "used", "connect", "close"}]
        /\ mine' \in [User -> Connection \cup {None}]
    BY <1>1 DEF TypeOK
  <2>2. pc' \in [User -> {"idle", "get", "store", "disconnect_close",
                          "disconnect", "abort", "abort_close", "inline",
                          "wait_2", "asleep", "test", "close_asleep",
                          "close_test"}]
    BY <1>1 DEF TypeOK
  <2>3. QED
    BY <1>2, <2>1, <2>2 DEF TypeOK
<1>5. HandlesInv'
  BY <1>1, <1>2, <1>3, NoneIsNobody DEF TypeOK, HandlesInv
<1>6. MembersInv'
  <2>1. \A l \in Connection \ {k} : phase'[l] = phase[l] /\ id'[l] = id[l]
    BY <1>1 DEF TypeOK
  <2>2. phase'[k] = "begin" /\ phase[k] = "none"
    BY <1>1 DEF TypeOK
  <2>3. ASSUME NEW l \in Connection, phase[l] = "in", Shared(l)
        PROVE  Shared(l)'
    <3>1. PICK m \in Connection \ {l} : id[m] = id[l] /\ {l, m} \cap early # {}
      BY <2>3 DEF Shared
    <3>2. m # k /\ l # k
      <4>1. id[l] # None /\ id[k] = None
        BY <2>2, <2>3 DEF HandlesInv
      <4>2. QED
        BY <3>1, <4>1
    <3>3. QED
      BY <1>2, <2>1, <3>1, <3>2 DEF Shared
  <2>4. QED
    BY <1>2, <2>1, <2>2, <2>3 DEF MembersInv
<1>7. LockInv' /\ SleepInv'
  BY <1>1, <1>2 DEF TypeOK, LockInv, SleepInv
<1>8. ConnectInv' /\ CurrentInv'
  BY <1>1, <1>2 DEF TypeOK, ConnectInv, CurrentInv
<1>9. QED
  BY <1>4, <1>5, <1>6, <1>7, <1>8

LEMMA LookupInv ==
  ASSUME IInv, NEW u \in User, connect_get(u) \/ connect_store(u)
  PROVE  IInv'
<1> USE DEF IInv, connect_get, connect_store, Goto, connVars, closeVars, confVars
<1>1. TypeOK'
  BY DEF TypeOK, ConnectInv
<1>2. HandlesInv' /\ MembersInv'
  BY DEF HandlesInv, MembersInv, Shared
<1>3. LockInv' /\ SleepInv' /\ ConnectInv' /\ CurrentInv'
  BY DEF TypeOK, LockInv, SleepInv, ConnectInv, CurrentInv
<1>4. QED
  BY <1>1, <1>2, <1>3

\* abort() makes a connection close, and may close a socket; it tells the session
\* nothing.
LEMMA AbortInv ==
  ASSUME IInv, NEW k \in Connection, phase[k] # "none",
         UNCHANGED <<phase, id, invalid, listed, connections>>,
         closing' \subseteq closing \cup {k},
         closesocket(k) \/ UNCHANGED <<socket, early>>
  PROVE  /\ HandlesInv' /\ MembersInv'
         /\ socket' \subseteq Connection /\ early' \subseteq Connection
         /\ invalid' \subseteq Connection
         /\ listed' \subseteq Connection /\ closing' \subseteq Connection
<1>1. /\ listed \subseteq Connection /\ socket \subseteq Connection
      /\ early \subseteq Connection /\ closing \subseteq Connection
      /\ invalid \subseteq Connection
  BY DEF IInv, TypeOK
<1>2. HandlesInv' /\ MembersInv'
  <2>1. CASE closesocket(k)
    BY <2>1, CloseSocketInv
  <2>2. CASE UNCHANGED <<socket, early>>
    <3>1. HandlesInv'
      BY <2>2 DEF IInv, HandlesInv
    <3>2. MembersInv'
      BY <2>2 DEF IInv, MembersInv, Shared
    <3>3. QED
      BY <3>1, <3>2
  <2>3. QED
    BY <2>1, <2>2
<1>3. QED
  BY <1>1, <1>2 DEF closesocket

\* What a thread that abort()s becomes.
LEMMA InlineType ==
  ASSUME NEW k \in Connection
  PROVE  Inline(k) \in Connection \cup {None}
BY DEF Inline

\* A listed connection has been opened.
LEMMA ListedOpened ==
  ASSUME IInv, NEW k \in listed
  PROVE  k \in Connection /\ phase[k] # "none"
BY DEF IInv, TypeOK, HandlesInv

\* The steps of abort(), whoever calls it: the thread moves among the states of
\* its caller, and knows the connection while it has its number still to close.
LEMMA AbortStepInv ==
  ASSUME IInv, NEW u \in User, NEW k \in Connection, phase[k] # "none",
         NEW c \in Connection \cup {None}, NEW p,
         UNCHANGED <<isAsynch_, phase, id, invalid, listed, connections, conf,
                     stored, lock_, mine, ids>>,
         closing' \subseteq closing \cup {k},
         closesocket(k) \/ UNCHANGED <<socket, early>>,
         todo' \in [User -> SUBSET Id],
         current' = [current EXCEPT ![u] = c],
         pc' = [pc EXCEPT ![u] = p],
         \/ /\ pc[u] \in {"idle", "disconnect_close"}
            /\ p \in {"idle", "disconnect", "disconnect_close"}
         \/ /\ pc[u] \in {"abort", "abort_close"}
            /\ p \in {"abort", "inline", "abort_close"},
         p \in {"disconnect_close", "abort_close"} => c = k
  PROVE  IInv'
<1>1. /\ HandlesInv' /\ MembersInv'
      /\ socket' \subseteq Connection /\ early' \subseteq Connection
      /\ invalid' \subseteq Connection
      /\ listed' \subseteq Connection /\ closing' \subseteq Connection
  BY AbortInv
<1>2. TypeOK'
  <2>1. current' \in [User -> Connection \cup {None}]
    BY DEF IInv, TypeOK
  <2>2. pc' \in [User -> {"idle", "get", "store", "disconnect_close",
                          "disconnect", "abort", "abort_close", "inline",
                          "wait_2", "asleep", "test", "close_asleep",
                          "close_test"}]
    BY DEF IInv, TypeOK
  <2>3. QED
    BY <1>1, <2>1, <2>2 DEF IInv, TypeOK
<1>3. \A v \in User : pc'[v] = IF v = u THEN p ELSE pc[v]
  BY DEF IInv, TypeOK
<1>4. LockInv'
  BY <1>3 DEF IInv, LockInv
<1>5. SleepInv' /\ ConnectInv'
  BY <1>3 DEF IInv, SleepInv, ConnectInv
<1>6. CurrentInv'
  BY <1>3 DEF IInv, TypeOK, CurrentInv
<1>7. QED
  BY <1>1, <1>2, <1>4, <1>5, <1>6 DEF IInv

LEMMA DisconnectInv ==
  ASSUME IInv, NEW u \in User,
         disconnect(u) \/ disconnect_close(u) \/ disconnect_inline(u)
  PROVE  IInv'
<1>1. CASE disconnect(u)
  <2>1. PICK k \in listed :
          \/ /\ abort(k)
             /\ current' = [current EXCEPT ![u] = k]
             /\ Goto(u, "disconnect_close")
          \/ /\ closing' = closing \cup {k}
             /\ abort_return(u, k, "idle", "disconnect")
             /\ UNCHANGED <<phase, id, socket, invalid, early, listed>>
    BY <1>1 DEF disconnect
  <2>2. /\ UNCHANGED <<isAsynch_, phase, id, socket, invalid, early, listed,
                       connections, conf, stored, lock_, mine, ids, todo>>
        /\ closing' \subseteq closing \cup {k}
        /\ pc[u] = "idle"
    BY <1>1, <2>1 DEF disconnect, abort, confVars
  <2>3. k \in Connection /\ phase[k] # "none"
    BY ListedOpened
  <2>4. todo' \in [User -> SUBSET Id]
    BY <2>2 DEF IInv, TypeOK
  <2>5. CASE current' = [current EXCEPT ![u] = k] /\ Goto(u, "disconnect_close")
    BY <2>2, <2>3, <2>4, <2>5, AbortStepInv DEF Goto
  <2>6. CASE abort_return(u, k, "idle", "disconnect")
    <3>1. PICK p \in {"idle", "disconnect"} : pc' = [pc EXCEPT ![u] = p]
      BY <2>6 DEF abort_return, Goto
    <3>2. /\ Inline(k) \in Connection \cup {None}
          /\ current' = [current EXCEPT ![u] = Inline(k)]
      BY <2>3, <2>6, InlineType DEF abort_return
    <3>3. QED
      BY <2>2, <2>3, <2>4, <3>1, <3>2, AbortStepInv
  <2>7. QED
    BY <2>1, <2>5, <2>6
<1>2. CASE disconnect_close(u)
  <2> DEFINE k == current[u]
  <2>1. k \in Connection /\ phase[k] # "none" /\ pc[u] = "disconnect_close"
    BY <1>2 DEF disconnect_close, IInv, CurrentInv
  <2>2. /\ UNCHANGED <<isAsynch_, phase, id, invalid, listed, connections, conf,
                       stored, lock_, mine, ids, todo>>
        /\ closing' \subseteq closing \cup {k}
        /\ closesocket(k)
    BY <1>2 DEF disconnect_close, abort_close, confVars
  <2>3. todo' \in [User -> SUBSET Id]
    BY <2>2 DEF IInv, TypeOK
  <2>4. PICK p \in {"idle", "disconnect"} : pc' = [pc EXCEPT ![u] = p]
    BY <1>2 DEF disconnect_close, abort_return, Goto
  <2>5. /\ Inline(k) \in Connection \cup {None}
        /\ current' = [current EXCEPT ![u] = Inline(k)]
    BY <1>2, <2>1, InlineType DEF disconnect_close, abort_return
  <2> HIDE DEF k
  <2>6. QED
    BY <2>1, <2>2, <2>3, <2>4, <2>5, AbortStepInv
<1>3. CASE disconnect_inline(u)
  <2> USE <1>3 DEF IInv, disconnect_inline, Goto, connVars, confVars
  <2>1. TypeOK'
    BY DEF TypeOK
  <2>2. HandlesInv' /\ MembersInv'
    BY DEF HandlesInv, MembersInv, Shared
  <2>3. LockInv' /\ SleepInv' /\ ConnectInv' /\ CurrentInv'
    BY DEF TypeOK, LockInv, SleepInv, ConnectInv, CurrentInv
  <2>4. QED
    BY <2>1, <2>2, <2>3
<1>4. QED
  BY <1>1, <1>2, <1>3
-----------------------------------------------------------------------------
(* Steps of close() and wait().                                             *)

LEMMA CloseAbortInv ==
  ASSUME IInv, NEW u \in User, close_abort(u)
  PROVE  IInv'
<1>1. PICK i \in todo[u] :
        /\ todo' = [todo EXCEPT ![u] = @ \ {i}]
        /\ \/ \E k \in get(i) :
                /\ abort(k)
                /\ current' = [current EXCEPT ![u] = k]
                /\ Goto(u, "abort_close")
           \/ \E k \in get(i) :
                /\ closing' = closing \cup {k}
                /\ abort_return(u, k, "abort", "inline")
                /\ UNCHANGED <<phase, id, socket, invalid, early, listed>>
           \/ UNCHANGED <<connVars, current, pc>>
  BY DEF close_abort
<1>2. /\ UNCHANGED <<isAsynch_, connections, conf, stored, lock_, mine, ids>>
      /\ pc[u] = "abort" /\ todo' \in [User -> SUBSET Id]
  BY <1>1 DEF close_abort, confVars, IInv, TypeOK
<1>3. ASSUME NEW k \in get(i)
      PROVE  k \in Connection /\ phase[k] # "none"
  <2>1. k \in listed
    BY DEF get
  <2>2. QED
    BY <2>1, ListedOpened
<1>4. ASSUME NEW k \in get(i), abort(k), current' = [current EXCEPT ![u] = k],
             Goto(u, "abort_close")
      PROVE  IInv'
  <2>1. /\ UNCHANGED <<phase, id, socket, invalid, early, listed>>
        /\ closing' \subseteq closing \cup {k}
    BY <1>4 DEF abort
  <2>2. QED
    BY <1>2, <1>3, <1>4, <2>1, AbortStepInv DEF Goto
<1>5. ASSUME NEW k \in get(i), closing' = closing \cup {k},
             abort_return(u, k, "abort", "inline"),
             UNCHANGED <<phase, id, socket, invalid, early, listed>>
      PROVE  IInv'
  <2>1. PICK p \in {"abort", "inline"} : pc' = [pc EXCEPT ![u] = p]
    BY <1>5 DEF abort_return, Goto
  <2>2. /\ Inline(k) \in Connection \cup {None}
        /\ current' = [current EXCEPT ![u] = Inline(k)]
    BY <1>3, <1>5, InlineType DEF abort_return
  <2>3. QED
    BY <1>2, <1>3, <1>5, <2>1, <2>2, AbortStepInv
<1>6. CASE UNCHANGED <<connVars, current, pc>>
  <2> USE <1>2, <1>6 DEF IInv, connVars
  <2>1. TypeOK'
    BY DEF TypeOK
  <2>2. HandlesInv' /\ MembersInv'
    BY DEF HandlesInv, MembersInv, Shared
  <2>3. LockInv' /\ SleepInv' /\ ConnectInv' /\ CurrentInv'
    BY DEF LockInv, SleepInv, ConnectInv, CurrentInv
  <2>4. QED
    BY <2>1, <2>2, <2>3
<1>7. QED
  BY <1>1, <1>4, <1>5, <1>6

LEMMA CloseAbortCloseInv ==
  ASSUME IInv, NEW u \in User, close_abort_close(u)
  PROVE  IInv'
<1> DEFINE k == current[u]
<1>1. k \in Connection /\ phase[k] # "none" /\ pc[u] = "abort_close"
  BY DEF close_abort_close, IInv, CurrentInv
<1>2. /\ UNCHANGED <<isAsynch_, phase, id, invalid, listed, connections, conf,
                     stored, lock_, mine, ids, todo>>
      /\ closing' \subseteq closing \cup {k}
      /\ closesocket(k)
  BY DEF close_abort_close, abort_close, confVars
<1>3. todo' \in [User -> SUBSET Id]
  BY <1>2 DEF IInv, TypeOK
<1>4. PICK p \in {"abort", "inline"} : pc' = [pc EXCEPT ![u] = p]
  BY DEF close_abort_close, abort_return, Goto
<1>5. /\ Inline(k) \in Connection \cup {None}
      /\ current' = [current EXCEPT ![u] = Inline(k)]
  BY <1>1, InlineType DEF close_abort_close, abort_return
<1> HIDE DEF k
<1>6. QED
  BY <1>1, <1>2, <1>3, <1>4, <1>5, AbortStepInv

\* The others change no connection and no id.
LEMMA CloseInv ==
  ASSUME IInv, NEW u \in User,
         \/ close(u) \/ wait(u) \/ wait_test(u) \/ close_inline(u)
         \/ close_unlock(u) \/ close_test(u) \/ close_wait_2(u) \/ close_clean(u)
  PROVE  IInv'
<1> USE DEF IInv, close, wait, wait_test, close_inline, close_unlock, close_test,
            close_wait_2, close_clean, Goto, connVars, closeVars, confVars
<1>1. UNCHANGED <<phase, id, socket, early, listed, closing, connections, mine>>
  OBVIOUS
<1>2. TypeOK'
  <2>1. CASE close(u) \/ wait(u) \/ wait_test(u)
    BY <2>1 DEF TypeOK
  <2>2. CASE close_inline(u) \/ close_test(u)
    BY <2>2 DEF TypeOK
  <2>3. CASE close_unlock(u)
    BY <2>3 DEF TypeOK
  <2>4. CASE close_wait_2(u) \/ close_clean(u)
    BY <2>4 DEF TypeOK
  <2>5. QED
    BY <2>1, <2>2, <2>3, <2>4
<1>3. HandlesInv' /\ MembersInv'
  BY <1>1 DEF HandlesInv, MembersInv, Shared
<1>4. LockInv'
  BY NoneIsNobody DEF TypeOK, LockInv
<1>5. SleepInv' /\ ConnectInv'
  BY <1>1 DEF TypeOK, SleepInv, ConnectInv
<1>6. CurrentInv'
  BY <1>1 DEF TypeOK, CurrentInv
<1>7. QED
  BY <1>2, <1>3, <1>4, <1>5, <1>6
-----------------------------------------------------------------------------
\* The invariant is inductive.
LEMMA NextInv == IInv /\ [Next]_vars => IInv'
<1> SUFFICES ASSUME IInv, [Next]_vars PROVE IInv'
  OBVIOUS
<1>1. ASSUME NEW k \in Connection, ConnectionStep(k) \/ peer_close(k)
      PROVE  IInv'
  BY <1>1, ConnectIdInv, DisconnectIdInv, EndInv DEF ConnectionStep
<1>2. ASSUME NEW u \in User,
             connect(u) \/ disconnect(u) \/ close(u) \/ wait(u) \/ UserStep(u)
      PROVE  IInv'
  BY <1>2, ConnectInvariant, LookupInv, DisconnectInv, CloseAbortInv,
     CloseAbortCloseInv, CloseInv DEF UserStep, CloseStep
<1>3. CASE UNCHANGED vars
  <2> USE <1>3 DEF vars, IInv
  <2>1. TypeOK'
    BY DEF TypeOK
  <2>2. /\ HandlesInv' /\ MembersInv'
        /\ LockInv' /\ SleepInv' /\ ConnectInv' /\ CurrentInv'
    BY DEF HandlesInv, MembersInv, LockInv, SleepInv, ConnectInv, CurrentInv,
           Shared
  <2>3. QED
    BY <2>1, <2>2
<1>4. QED
  BY <1>1, <1>2, <1>3 DEF Next

\* Every reachable state of a session satisfies the inductive invariant, for any
\* threads and connections, with the reactor and with the proactor.
THEOREM Invariance == Spec => []IInv
BY InitInv, NextInv, PTL DEF Spec

\* state_.connections holds ids only, and the session and its callers keep their
\* types.
THEOREM TypeCorrect == Spec => []TypeOK
<1>1. IInv => TypeOK
  BY DEF IInv
<1>2. QED
  BY <1>1, Invariance, PTL

\* The assertions of connect(id) and disconnect(id) hold for every connection that
\* does not share its id with one whose handle was closed before its stream had
\* ended, with either order of the stream's end, the close of the socket and the
\* deregistration, and although handles are closed twice and handed out again.
THEOREM CallbacksAssertionsConfined == Spec => []AssertionsConfined
<1>1. IInv => AssertionsConfined
  <2> SUFFICES ASSUME IInv, NEW k \in Connection, ~Shared(k)
               PROVE  /\ phase[k] = "begin" => id[k] \notin connections
                      /\ phase[k] = "in" => id[k] \in connections
    BY DEF AssertionsConfined
  <2>1. phase[k] = "in" => id[k] \in connections
    BY DEF IInv, MembersInv
  <2>2. ASSUME phase[k] = "begin", id[k] \in connections PROVE FALSE
    <3>1. PICK l \in Connection : phase[l] = "in" /\ id[l] = id[k]
      BY <2>2 DEF IInv, MembersInv
    <3>2. l # k
      BY <2>2, <3>1
    <3>3. QED
      BY <2>2, <3>1, <3>2, DifferentIds DEF IInv
  <2>3. QED
    BY <2>1, <2>2
<1>2. QED
  BY <1>1, Invariance, PTL

\* Neither wait() nor close() misses the wake-up of the last disconnect(id), and
\* close() alone holds the lock while it calls abort().
THEOREM WakeupsAreNotLost == Spec => [](SleepInv /\ LockInv)
<1>1. IInv => SleepInv /\ LockInv
  BY DEF IInv
<1>2. QED
  BY <1>1, Invariance, PTL
=============================================================================
