----------------------- MODULE AsynchConnectionProofs -----------------------
(***************************************************************************)
(* Proofs about AsynchConnection for any finite sets of dispatchers and    *)
(* users, any number of sends and any number of partial writes.            *)
(***************************************************************************)
EXTENDS AsynchConnection, FiniteSetTheorems, TLAPS

LEMMA OwnersFinite ==
  ASSUME TypeOK
  PROVE  /\ \A p : IsFiniteSet(At(p)) /\ Cardinality(At(p)) \in Nat
         /\ IsFiniteSet(held) /\ Cardinality(held) \in Nat
         /\ Cardinality(owner) \in Nat
         /\ count \in Int /\ writes \in Nat /\ counter_ \in Nat
         /\ taken \in Nat /\ stuck \in Nat /\ listed \in BOOLEAN
<1>1. IsFiniteSet(Dispatcher \cup User)
  BY AsynchAssumption, FS_Union
<1>2. /\ \A p : At(p) \in SUBSET (Dispatcher \cup User)
      /\ held \in SUBSET User /\ owner \in SUBSET Dispatcher
  BY DEF At, TypeOK
<1>3. (\A p : IsFiniteSet(At(p))) /\ IsFiniteSet(held) /\ IsFiniteSet(owner)
  BY <1>1, <1>2, FS_Subset, AsynchAssumption
<1>4. QED
  BY <1>3, FS_CardinalityType DEF TypeOK

\* One owner more or less.
LEMMA OneMore ==
  ASSUME NEW S, IsFiniteSet(S), NEW x, x \notin S
  PROVE  Cardinality(S \cup {x}) = Cardinality(S) + 1
BY FS_AddElement

LEMMA OneLess ==
  ASSUME NEW S, IsFiniteSet(S), NEW x \in S
  PROVE  /\ Cardinality(S \ {x}) = Cardinality(S) - 1
         /\ Cardinality(S) > 0
<1>1. Cardinality(S \ {x}) = Cardinality(S) - 1 /\ IsFiniteSet(S \ {x})
  BY FS_RemoveElement
<1>2. Cardinality(S \ {x}) \in Nat /\ Cardinality(S) \in Nat
  BY <1>1, FS_CardinalityType
<1>3. QED
  BY <1>1, <1>2

\* What a step of one thread does to the number of threads at a control point.
LEMMA ThreadMoves ==
  ASSUME TypeOK, NEW a \in Dispatcher \cup User, NEW p, Goto(a, p),
         NEW q
  PROVE  Cardinality(At(q))' = Cardinality(At(q)) + Ref(p = q) - Ref(pc[a] = q)
<1>1. \A b \in Dispatcher \cup User : pc'[b] = IF b = a THEN p ELSE pc[b]
  BY DEF TypeOK, Goto
<1>2. CASE p = q <=> pc[a] = q
  <2>1. At(q)' = At(q)
    BY <1>1, <1>2 DEF At
  <2>2. QED
    BY <1>2, <2>1, OwnersFinite DEF Ref
<1>3. CASE p = q /\ pc[a] # q
  <2>1. At(q)' = At(q) \cup {a} /\ a \notin At(q)
    BY <1>1, <1>3 DEF At
  <2>2. QED
    BY <1>3, <2>1, OneMore, OwnersFinite DEF Ref
<1>4. CASE p # q /\ pc[a] = q
  <2>1. At(q)' = At(q) \ {a} /\ a \in At(q)
    BY <1>1, <1>4 DEF At
  <2>2. QED
    BY <1>4, <2>1, OneLess, OwnersFinite DEF Ref
<1>5. QED
  BY <1>2, <1>3, <1>4

LEMMA InitInv == Init => IInv
<1> SUFFICES ASSUME Init PROVE IInv
  OBVIOUS
<1>1. TypeOK
  <2>1. /\ pc \in [Dispatcher \cup User -> {"idle"}]
        /\ sends \in 0..MaxSends /\ parts \in 0..MaxParts
    BY AsynchAssumption DEF Init
  <2>2. /\ pc \in [Dispatcher \cup User -> DispatcherPc \cup UserPc]
        /\ \A d \in Dispatcher : pc[d] \in DispatcherPc
        /\ \A u \in User : pc[u] \in UserPc
    BY <2>1 DEF DispatcherPc, UserPc
  <2>3. cancel_b \in [Dispatcher -> BOOLEAN] /\ owner \subseteq Dispatcher
        /\ held \subseteq User
    BY DEF Init
  <2>4. /\ life = "new" /\ status = "invalid" /\ socket = "open" /\ read = "none"
        /\ closed \in BOOLEAN /\ isRegistered_ \in BOOLEAN /\ listed \in BOOLEAN
        /\ notify_ \in BOOLEAN
    BY DEF Init
  <2>5. /\ count \in Int /\ connects \in Nat /\ disconnects \in Nat
        /\ writes \in Nat /\ counter_ \in Nat /\ taken \in Nat /\ stuck \in Nat
    BY DEF Init
  <2>6. QED
    BY <2>1, <2>2, <2>3, <2>4, <2>5 DEF TypeOK
<1>2. HeldInv /\ OwnerInv /\ OpenInv /\ ChainInv /\ NoteInv
  BY DEF Init, HeldInv, OwnerInv, OpenInv, ChainInv, NoteInv, Opening, Before,
     After, Reading, Closing, OpenPc, FailPc, ClosePc
<1>3. ReferencesExact /\ CounterExact
  <2>1. At("send") = {} /\ At("written") = {} /\ At("unsent") = {}
    BY DEF Init, At
  <2>2. QED
    BY <2>1, FS_EmptySet DEF Init, ReferencesExact, CounterExact, Ref
<1>4. QED
  BY <1>1, <1>2, <1>3 DEF IInv
-----------------------------------------------------------------------------
(* The references and the operations to wait for.                           *)

\* The initial reference, wherever it is.
Initial == Ref(read # "none") + Cardinality(owner)

LEMMA OneOrNone ==
  ASSUME NEW x
  PROVE  Cardinality({}) = 0 /\ Cardinality({x}) = 1
BY FS_EmptySet, FS_Singleton

\* It stays, whoever carries it.
LEMMA InitialMoves ==
  ASSUME IInv, NEW d \in Dispatcher
  PROVE  /\ UNCHANGED owner /\ (UNCHANGED read \/ cancel) => Initial' = Initial
         /\ owner = {d} /\ owner' = {} /\ initiate_read => Initial' = Initial
         /\ read # "none" /\ read' = "none" /\ owner' = {d} => Initial' = Initial
<1>1. Cardinality({d}) = 1 /\ Cardinality({}) = 0
  BY OneOrNone
<1>2. read # "none" => owner = {}
  BY DEF IInv, OwnerInv
<1>3. ASSUME UNCHANGED owner /\ (UNCHANGED read \/ cancel) PROVE Initial' = Initial
  <2>1. read' # "none" <=> read # "none"
    BY <1>3 DEF cancel
  <2>2. QED
    BY <1>3, <2>1 DEF Initial, Ref
<1>4. ASSUME owner = {d}, owner' = {}, initiate_read PROVE Initial' = Initial
  <2>1. read = "none" /\ read' # "none"
    BY <1>2, <1>4 DEF initiate_read
  <2>2. QED
    BY <1>1, <1>4, <2>1 DEF Initial, Ref
<1>5. ASSUME read # "none", read' = "none", owner' = {d} PROVE Initial' = Initial
  BY <1>1, <1>2, <1>5 DEF Initial, Ref
<1>6. QED
  BY <1>3, <1>4, <1>5

\* A dispatcher that carries it is the only one.
LEMMA OnlyOwner ==
  ASSUME IInv, NEW d \in owner
  PROVE  owner = {d} /\ read = "none"
BY DEF IInv, OwnerInv

\* A step that touches none of them.
LEMMA NothingCounted ==
  ASSUME IInv, NEW a \in Dispatcher \cup User, NEW p, Goto(a, p),
         p \notin {"send", "unsent", "written"},
         pc[a] \notin {"send", "unsent", "written"},
         Initial' = Initial,
         UNCHANGED <<count, listed, held, writes, counter_, taken, stuck>>
  PROVE  ReferencesExact' /\ CounterExact'
<1>1. /\ Cardinality(At("send"))' = Cardinality(At("send"))
      /\ Cardinality(At("written"))' = Cardinality(At("written"))
      /\ Cardinality(At("unsent"))' = Cardinality(At("unsent"))
  BY ThreadMoves, OwnersFinite DEF IInv, Ref
<1>2. QED
  BY <1>1 DEF IInv, ReferencesExact, CounterExact, Initial

\* The numbers behind the two counters.
LEMMA Counted ==
  ASSUME IInv
  PROVE  /\ count = Initial + Ref(listed) + Cardinality(held)
                      + Cardinality(At("send")) + writes
                      + Cardinality(At("written")) - taken
         /\ counter_ = writes + Cardinality(At("send")) + Cardinality(At("unsent"))
                         + stuck
         /\ count \in Int /\ writes \in Nat /\ counter_ \in Nat
         /\ Initial \in Nat /\ taken \in Nat /\ stuck \in Nat
         /\ Ref(listed) \in {0, 1}
         /\ Cardinality(held) \in Nat /\ Cardinality(At("send")) \in Nat
         /\ Cardinality(At("written")) \in Nat /\ Cardinality(At("unsent")) \in Nat
<1>1. Ref(read # "none") \in {0, 1} /\ Ref(listed) \in {0, 1}
  BY DEF Ref
<1>2. QED
  BY <1>1, OwnersFinite DEF IInv, ReferencesExact, CounterExact, Initial

\* The two counters after a step, from the numbers after it.
LEMMA Recounted ==
  ASSUME count' = Initial' + Ref(listed') + Cardinality(held')
                      + Cardinality(At("send"))' + writes'
                      + Cardinality(At("written"))' - taken',
         counter_' = writes' + Cardinality(At("send"))' + Cardinality(At("unsent"))'
                         + stuck'
  PROVE  ReferencesExact' /\ CounterExact'
BY DEF ReferencesExact, CounterExact, Initial

LEMMA OpenCounted ==
  ASSUME IInv, NEW d \in Dispatcher, open(d) \/ OpenStep(d)
  PROVE  ReferencesExact' /\ CounterExact'
<1> USE DEF IInv
<1>1. CASE open(d)
  <2>1. /\ Cardinality(At("send"))' = Cardinality(At("send"))
        /\ Cardinality(At("written"))' = Cardinality(At("written"))
        /\ Cardinality(At("unsent"))' = Cardinality(At("unsent"))
    BY <1>1, ThreadMoves, OwnersFinite DEF open, Ref
  <2>2. /\ count = 0 /\ count' = 1 /\ taken = 0
        /\ read = "none" /\ owner = {} /\ read' = "none" /\ owner' = {d}
        /\ UNCHANGED <<listed, held, writes, counter_, taken, stuck>>
    BY <1>1 DEF open, OpenInv, regVars, ioVars, userVars
  <2>3. Initial = 0 /\ Initial' = 1
    <3>1. Cardinality(owner) = 0 /\ Cardinality(owner') = 1
      BY <2>2, OneOrNone
    <3>2. QED
      BY <2>2, <3>1 DEF Initial, Ref
  <2>4. QED
    BY <2>1, <2>2, <2>3, Counted, Recounted
<1>2. CASE register_(d) /\ Goto(d, "flag") /\ increase /\ listed' = TRUE
  <2>1. /\ Cardinality(At("send"))' = Cardinality(At("send"))
        /\ Cardinality(At("written"))' = Cardinality(At("written"))
        /\ Cardinality(At("unsent"))' = Cardinality(At("unsent"))
    BY <1>2, ThreadMoves, OwnersFinite DEF register_, Ref
  <2>2. /\ count' = count + 1 /\ ~listed /\ listed'
        /\ UNCHANGED <<read, owner, held, writes, counter_, taken, stuck>>
    BY <1>2 DEF register_, increase, ioVars, userVars, histVars, OpenInv, Opening,
       Before, OpenPc
  <2>3. Initial' = Initial
    BY <2>2, InitialMoves
  <2>4. QED
    BY <2>1, <2>2, <2>3, Counted, Recounted DEF Ref
<1>3. CASE deregister(d, "fail_deregister", "fail_status") /\ listed
  <2>1. /\ Cardinality(At("send"))' = Cardinality(At("send"))
        /\ Cardinality(At("written"))' = Cardinality(At("written"))
        /\ Cardinality(At("unsent"))' = Cardinality(At("unsent"))
    BY <1>3, ThreadMoves, OwnersFinite DEF deregister, Ref
  <2>2. /\ count' = count - 1 /\ ~listed'
        /\ UNCHANGED <<read, owner, held, writes, counter_, taken, stuck>>
    BY <1>3 DEF deregister, decrease, ioVars, userVars, histVars
  <2>3. Initial' = Initial
    BY <2>2, InitialMoves
  <2>4. QED
    BY <1>3, <2>1, <2>2, <2>3, Counted, Recounted DEF Ref
<1>4. CASE /\ OpenStep(d)
           /\ UNCHANGED <<count, listed, held, writes, counter_, taken, stuck>>
  <2>1. \E p \in OpenPc \cup FailPc \cup {"idle", "close"} : Goto(d, p)
    BY <1>4 DEF OpenStep, register_, setRegistered, open_start, open_status,
       open_connect, open_check, deregister_test, deregister_clear, deregister,
       open_fail, OpenPc, FailPc
  <2>2. pc[d] \in OpenPc \cup FailPc
    BY <1>4 DEF OpenStep, register_, setRegistered, open_start, open_status,
       open_connect, open_check, deregister_test, deregister_clear, deregister,
       open_fail, OpenPc, FailPc
  <2>3. \/ UNCHANGED <<read, owner>>
        \/ pc[d] = "start" /\ owner' = {} /\ initiate_read
    BY <1>4 DEF OpenStep, register_, setRegistered, open_start, open_status,
       open_connect, open_check, deregister_test, deregister_clear, deregister,
       open_fail, ioVars, histVars
  <2>4. pc[d] = "start" => owner = {d}
    <3>1. pc[d] = "start" => d \in owner
      BY DEF OwnerInv, Before
    <3>2. QED
      BY <3>1, OnlyOwner
  <2>5. Initial' = Initial
    BY <2>3, <2>4, InitialMoves
  <2>6. QED
    BY <1>4, <2>1, <2>2, <2>5, NothingCounted DEF OpenPc, FailPc
<1>5. QED
  BY <1>1, <1>2, <1>3, <1>4 DEF OpenStep, register_, setRegistered, open_start,
     open_status, open_connect, open_check, deregister_test, deregister_clear,
     deregister, open_fail, regVars, ioVars, userVars, histVars

LEMMA CloseCounted ==
  ASSUME IInv, NEW d \in Dispatcher, handle_close(d)
  PROVE  ReferencesExact' /\ CounterExact'
<1> USE DEF IInv
<1>1. /\ \E p \in ClosePc \cup {"idle"} : Goto(d, p)
      /\ pc[d] \in ClosePc
  BY DEF handle_close, close_state, close_notify, close_disconnect, close_cancel,
     deregister_test, deregister_clear, deregister, close_socket, close_release,
     ClosePc
<1>2. /\ Cardinality(At("send"))' = Cardinality(At("send"))
      /\ Cardinality(At("written"))' = Cardinality(At("written"))
      /\ Cardinality(At("unsent"))' = Cardinality(At("unsent"))
  BY <1>1, ThreadMoves, OwnersFinite DEF ClosePc, Ref
<1>3. UNCHANGED <<held, writes, counter_, stuck>>
  BY DEF handle_close, close_state, close_notify, close_disconnect, close_cancel,
     deregister_test, deregister_clear, deregister, close_socket, close_release,
     ioVars, userVars, histVars
<1>4. ~close_release(d) => /\ UNCHANGED <<owner, taken>>
                           /\ UNCHANGED read \/ cancel
  BY DEF handle_close, close_state, close_notify, close_disconnect, close_cancel,
     deregister_test, deregister_clear, deregister, close_socket, ioVars, histVars
<1>5. CASE UNCHANGED <<count, listed>> /\ ~close_release(d)
  <2>1. Initial' = Initial
    BY <1>4, <1>5, InitialMoves
  <2>2. QED
    BY <1>2, <1>3, <1>4, <1>5, <2>1, Counted, Recounted
<1>6. CASE deregister(d, "close_deregister", "close_socket") /\ listed
  <2>1. count' = count - 1 /\ ~listed' /\ UNCHANGED <<read, owner, taken>>
    BY <1>6 DEF deregister, decrease, ioVars, histVars
  <2>2. Initial' = Initial
    BY <2>1, InitialMoves
  <2>3. QED
    BY <1>2, <1>3, <1>6, <2>1, <2>2, Counted, Recounted DEF Ref
<1>7. CASE close_release(d)
  <2>1. /\ count' = count - 1 /\ listed' = listed /\ read' = read
        /\ owner' = owner \ {d}
        /\ taken' = taken + (IF d \in owner THEN 0 ELSE 1)
    BY <1>7 DEF close_release, decrease, regVars, ioVars
  <2>2. CASE d \in owner
    <3>1. owner = {d} /\ owner' = {} /\ read = "none"
      BY <2>1, <2>2, OnlyOwner
    <3>2. Initial = 1 /\ Initial' = 0
      <4>1. Cardinality(owner) = 1 /\ Cardinality(owner') = 0
        BY <3>1, OneOrNone
      <4>2. QED
        BY <2>1, <3>1, <4>1 DEF Initial, Ref
    <3>3. taken' = taken
      BY <2>1, <2>2, Counted
    <3>4. QED
      BY <1>2, <1>3, <2>1, <3>2, <3>3, Counted, Recounted
  <2>3. CASE d \notin owner
    <3>1. owner' = owner /\ taken' = taken + 1
      BY <2>1, <2>3
    <3>2. Initial' = Initial
      BY <2>1, <3>1, InitialMoves
    <3>3. QED
      BY <1>2, <1>3, <2>1, <3>1, <3>2, Counted, Recounted
  <2>4. QED
    BY <2>2, <2>3
<1>8. QED
  BY <1>5, <1>6, <1>7 DEF handle_close, close_state, close_notify,
     close_disconnect, close_cancel, deregister_test, deregister_clear, deregister,
     close_socket, regVars

LEMMA CompletionCounted ==
  ASSUME IInv, NEW d \in Dispatcher,
         \/ handle_read_stream(d) \/ read_next(d)
         \/ handle_write_stream(d) \/ handle_write_part(d) \/ write_release(d)
  PROVE  ReferencesExact' /\ CounterExact'
<1> USE DEF IInv
<1>1. CASE handle_read_stream(d) \/ read_next(d)
  <2>1. UNCHANGED <<count, listed, held, writes, counter_, taken, stuck>>
    BY <1>1 DEF handle_read_stream, read_next, regVars, userVars
  <2>2. /\ \E p \in {"read_data", "read_last", "close", "idle"} : Goto(d, p)
        /\ pc[d] \in {"idle", "read_data", "read_last"}
    BY <1>1 DEF handle_read_stream, read_next
  <2>3. pc[d] \in {"read_data", "read_last"} => owner = {d}
    <3>1. pc[d] \in {"read_data", "read_last"} => d \in owner
      BY DEF OwnerInv, Reading
    <3>2. QED
      BY <3>1, OnlyOwner
  <2>4. \/ read # "none" /\ read' = "none" /\ owner' = {d}
        \/ owner = {d} /\ owner' = {} /\ initiate_read
        \/ UNCHANGED <<read, owner>>
    BY <1>1, <2>3 DEF handle_read_stream, read_next
  <2>5. Initial' = Initial
    BY <2>4, InitialMoves
  <2>6. QED
    BY <2>1, <2>2, <2>5, NothingCounted
<1>2. CASE handle_write_stream(d)
  <2>1. /\ Cardinality(At("send"))' = Cardinality(At("send"))
        /\ Cardinality(At("written"))' = Cardinality(At("written")) + 1
        /\ Cardinality(At("unsent"))' = Cardinality(At("unsent"))
    BY <1>2, ThreadMoves, OwnersFinite DEF handle_write_stream, Ref
  <2>2. /\ writes' = writes - 1 /\ counter_' = counter_ - 1
        /\ UNCHANGED owner /\ (UNCHANGED read \/ cancel)
        /\ UNCHANGED <<count, listed, held, taken, stuck>>
    BY <1>2 DEF handle_write_stream, regVars, userVars, histVars
  <2>3. Initial' = Initial
    BY <2>2, InitialMoves
  <2>4. QED
    BY <2>1, <2>2, <2>3, Counted, Recounted
<1>3. CASE handle_write_part(d)
  <2>1. /\ UNCHANGED <<count, counter_, read, owner, listed, held, taken>>
        /\ pc[d] = "idle"
        /\ \/ Goto(d, "part") /\ UNCHANGED <<writes, stuck>>
           \/ Goto(d, "written") /\ writes' = writes - 1 /\ stuck' = stuck + 1
    BY <1>3 DEF handle_write_part, regVars, userVars
  <2>2. Initial' = Initial
    BY <2>1, InitialMoves
  <2>3. CASE Goto(d, "part") /\ UNCHANGED <<writes, stuck>>
    BY <2>1, <2>2, <2>3, NothingCounted
  <2>4. CASE Goto(d, "written") /\ writes' = writes - 1 /\ stuck' = stuck + 1
    <3>1. /\ Cardinality(At("send"))' = Cardinality(At("send"))
          /\ Cardinality(At("written"))' = Cardinality(At("written")) + 1
          /\ Cardinality(At("unsent"))' = Cardinality(At("unsent"))
      BY <2>1, <2>4, ThreadMoves, OwnersFinite DEF Ref
    <3>2. QED
      BY <2>1, <2>2, <2>4, <3>1, Counted, Recounted
  <2>5. QED
    BY <2>1, <2>3, <2>4
<1>4. CASE write_release(d)
  <2>1. /\ count' = count - 1 /\ pc[d] \in {"written", "part"} /\ Goto(d, "idle")
        /\ taken' = taken + (IF pc[d] = "part" THEN 1 ELSE 0)
        /\ UNCHANGED <<read, owner, listed, held, writes, counter_, stuck>>
    BY <1>4 DEF write_release, decrease, regVars, ioVars, userVars
  <2>2. Initial' = Initial
    BY <2>1, InitialMoves
  <2>3. /\ Cardinality(At("send"))' = Cardinality(At("send"))
        /\ Cardinality(At("written"))' = Cardinality(At("written"))
                                          - (IF pc[d] = "part" THEN 0 ELSE 1)
        /\ Cardinality(At("unsent"))' = Cardinality(At("unsent"))
    BY <2>1, ThreadMoves, OwnersFinite DEF Ref
  <2>4. QED
    BY <2>1, <2>2, <2>3, Counted, Recounted
<1>5. QED
  BY <1>1, <1>2, <1>3, <1>4

LEMMA UserCounted ==
  ASSUME IInv, NEW u \in User,
         \/ get(u) \/ put(u) \/ handle_output(u) \/ abort_status(u)
         \/ waitForIdleState(u) \/ CallStep(u)
  PROVE  ReferencesExact' /\ CounterExact'
<1> USE DEF IInv
<1>1. CASE get(u) \/ put(u)
  <2>1. /\ Cardinality(At("send"))' = Cardinality(At("send"))
        /\ Cardinality(At("written"))' = Cardinality(At("written"))
        /\ Cardinality(At("unsent"))' = Cardinality(At("unsent"))
    BY <1>1, ThreadMoves, OwnersFinite DEF get, put, Ref
  <2>2. /\ UNCHANGED <<listed, writes, counter_, taken, stuck>>
        /\ Initial' = Initial
    BY <1>1 DEF get, put, regVars, ioVars, histVars, Initial
  <2>3. CASE get(u)
    <3>1. count' = count + 1 /\ held' = held \cup {u} /\ u \notin held
      BY <2>3 DEF get, increase, HeldInv
    <3>2. Cardinality(held') = Cardinality(held) + 1
      BY <3>1, OneMore, OwnersFinite
    <3>3. QED
      BY <2>1, <2>2, <3>1, <3>2, Counted, Recounted
  <2>4. CASE put(u)
    <3>1. count' = count - 1 /\ held' = held \ {u} /\ u \in held
      BY <2>4 DEF put, decrease, HeldInv
    <3>2. Cardinality(held') = Cardinality(held) - 1
      BY <3>1, OneLess, OwnersFinite
    <3>3. QED
      BY <2>1, <2>2, <3>1, <3>2, Counted, Recounted
  <2>5. QED
    BY <1>1, <2>3, <2>4
<1>2. CASE handle_output(u) /\ Goto(u, "send") /\ increase /\ counter_' = counter_ + 1
  <2>1. /\ Cardinality(At("send"))' = Cardinality(At("send")) + 1
        /\ Cardinality(At("written"))' = Cardinality(At("written"))
        /\ Cardinality(At("unsent"))' = Cardinality(At("unsent"))
    BY <1>2, ThreadMoves, OwnersFinite DEF handle_output, Ref
  <2>2. /\ count' = count + 1 /\ counter_' = counter_ + 1
        /\ UNCHANGED <<listed, held, writes, taken, stuck>>
        /\ Initial' = Initial
    BY <1>2 DEF handle_output, increase, regVars, histVars, Initial
  <2>3. QED
    BY <2>1, <2>2, Counted, Recounted
<1>3. CASE handle_output(u) /\ UNCHANGED <<count, counter_, pc>>
  <2>1. UNCHANGED <<count, counter_, pc, read, owner, listed, held, writes, taken, stuck>>
    BY <1>3 DEF handle_output, regVars, histVars
  <2>2. QED
    BY <2>1 DEF ReferencesExact, CounterExact, At
<1>4. CASE write_start(u) /\ Goto(u, "holding") /\ writes' = writes + 1
  <2>1. /\ Cardinality(At("send"))' = Cardinality(At("send")) - 1
        /\ Cardinality(At("written"))' = Cardinality(At("written"))
        /\ Cardinality(At("unsent"))' = Cardinality(At("unsent"))
    BY <1>4, ThreadMoves, OwnersFinite DEF write_start, Ref
  <2>2. /\ writes' = writes + 1
        /\ UNCHANGED <<count, counter_, listed, held, taken, stuck>>
        /\ Initial' = Initial
    BY <1>4 DEF write_start, decrease, Goto, regVars, userVars, histVars, Initial,
       TypeOK
  <2>3. QED
    BY <2>1, <2>2, Counted, Recounted
<1>5. CASE write_start(u) /\ Goto(u, "unsent") /\ decrease /\ UNCHANGED writes
  <2>1. /\ Cardinality(At("send"))' = Cardinality(At("send")) - 1
        /\ Cardinality(At("written"))' = Cardinality(At("written"))
        /\ Cardinality(At("unsent"))' = Cardinality(At("unsent")) + 1
    BY <1>5, ThreadMoves, OwnersFinite DEF write_start, Ref
  <2>2. /\ count' = count - 1
        /\ UNCHANGED <<writes, counter_, listed, held, taken, stuck>>
        /\ Initial' = Initial
    BY <1>5 DEF write_start, decrease, regVars, userVars, histVars, Initial
  <2>3. QED
    BY <2>1, <2>2, Counted, Recounted
<1>6. CASE write_unsent(u)
  <2>1. /\ Cardinality(At("send"))' = Cardinality(At("send"))
        /\ Cardinality(At("written"))' = Cardinality(At("written"))
        /\ Cardinality(At("unsent"))' = Cardinality(At("unsent")) - 1
    BY <1>6, ThreadMoves, OwnersFinite DEF write_unsent, Ref
  <2>2. /\ counter_' = counter_ - 1
        /\ UNCHANGED <<count, writes, listed, held, taken, stuck>>
        /\ Initial' = Initial
    BY <1>6 DEF write_unsent, regVars, userVars, histVars, Initial
  <2>3. QED
    BY <2>1, <2>2, Counted, Recounted
<1>7. CASE abort_status(u) \/ abort_socket(u) \/ waitForIdleState(u) \/ idle(u)
  <2>1. /\ UNCHANGED <<count, listed, held, writes, counter_, taken, stuck>>
        /\ Initial' = Initial
    BY <1>7 DEF abort_status, abort_socket, waitForIdleState, idle, regVars, ioVars,
       userVars, histVars, Initial
  <2>2. /\ \E p \in {"holding", "abort", "waiting"} : Goto(u, p)
        /\ pc[u] \in {"holding", "abort", "waiting"}
    BY <1>7 DEF abort_status, abort_socket, waitForIdleState, idle
  <2>3. QED
    BY <2>1, <2>2, NothingCounted
<1>8. QED
  BY <1>1, <1>2, <1>3, <1>4, <1>5, <1>6, <1>7 DEF handle_output, write_start, CallStep

LEMMA CountedStep ==
  ASSUME IInv, Next
  PROVE  ReferencesExact' /\ CounterExact'
BY OpenCounted, CloseCounted, CompletionCounted, UserCounted DEF Next, HandlerStep
-----------------------------------------------------------------------------
(* Types and control states.                                                *)

\* The types that the control invariants need.
LEMMA ControlTypes ==
  ASSUME TypeOK
  PROVE  /\ pc \in [Dispatcher \cup User -> DispatcherPc \cup UserPc]
         /\ \A d \in Dispatcher : pc[d] \in DispatcherPc
         /\ \A u \in User : pc[u] \in UserPc
         /\ notify_ \in BOOLEAN /\ listed \in BOOLEAN /\ closed \in BOOLEAN
         /\ life \in {"new", "opening", "opened", "failed"}
         /\ read \in {"none", "pending", "dead"}
         /\ connects \in Nat /\ disconnects \in Nat /\ held \subseteq User
         /\ owner \subseteq Dispatcher
BY DEF TypeOK

\* No reference of any kind when there is none and none was taken.
LEMMA AllZero ==
  ASSUME NEW i \in Nat, NEW l \in Nat, NEW h \in Nat, NEW s \in Nat, NEW w \in Nat,
         NEW x \in Nat, i + l + h + s + w + x - 0 <= 0
  PROVE  i = 0 /\ l = 0 /\ h = 0 /\ s = 0 /\ w = 0 /\ x = 0
OBVIOUS

LEMMA NoneLeft ==
  ASSUME IInv, count <= 0, taken = 0
  PROVE  /\ Initial = 0 /\ Ref(listed) = 0 /\ writes = 0
         /\ Cardinality(held) = 0 /\ Cardinality(At("written")) = 0
<1>1. /\ Initial \in Nat /\ Ref(listed) \in Nat /\ writes \in Nat
      /\ Cardinality(held) \in Nat /\ Cardinality(At("send")) \in Nat
      /\ Cardinality(At("written")) \in Nat
  BY Counted
<1>2. Initial + Ref(listed) + Cardinality(held) + Cardinality(At("send")) + writes
        + Cardinality(At("written")) - 0 <= 0
  BY Counted
<1>3. QED
  BY <1>1, <1>2, AllZero

\* Before open() nobody owns a reference or has one to give back.
LEMMA NobodyYet ==
  ASSUME IInv, life = "new"
  PROVE  ~listed /\ writes = 0 /\ \A u \in User : pc[u] = "idle"
<1>1. count = 0 /\ taken = 0
  BY DEF IInv, OpenInv
<1>2. ~listed /\ writes = 0 /\ Cardinality(held) = 0
  <2>1. Ref(listed) = 0 /\ writes = 0 /\ Cardinality(held) = 0
    BY <1>1, NoneLeft
  <2>2. QED
    BY <2>1 DEF Ref
<1>3. ASSUME NEW u \in User, pc[u] # "idle" PROVE FALSE
  <2>1. u \in held
    BY <1>3 DEF IInv, HeldInv
  <2>2. Cardinality(held) > 0
    BY <2>1, OneLess, OwnersFinite DEF IInv
  <2>3. QED
    BY <1>2, <2>2
<1>4. QED
  BY <1>2, <1>3

\* Users own a reference inside their calls.
LEMMA HeldStep ==
  ASSUME IInv, Next
  PROVE  HeldInv'
<1> USE AsynchAssumption, ControlTypes
    DEF IInv, HeldInv, DispatcherPc, OpenPc, FailPc, ClosePc,
       Goto, userVars
<1>1. ASSUME NEW d \in Dispatcher, open(d) PROVE HeldInv'
  BY <1>1 DEF open
<1>2. ASSUME NEW d \in Dispatcher, OpenStep(d) PROVE HeldInv'
  BY <1>2 DEF OpenStep, register_, setRegistered, open_start, open_status,
     open_connect, open_check, deregister_test, deregister_clear, deregister,
     open_fail
<1>3. ASSUME NEW d \in Dispatcher, handle_close(d) PROVE HeldInv'
  BY <1>3 DEF handle_close, close_state, close_notify, close_disconnect,
     close_cancel, deregister_test, deregister_clear, deregister, close_socket,
     close_release
<1>4. ASSUME NEW d \in Dispatcher, handle_read_stream(d) \/ read_next(d) PROVE HeldInv'
  BY <1>4 DEF handle_read_stream, read_next
<1>5. ASSUME NEW d \in Dispatcher,
             handle_write_stream(d) \/ handle_write_part(d) \/ write_release(d)
      PROVE  HeldInv'
  BY <1>5 DEF handle_write_stream, handle_write_part, write_release
<1>6. ASSUME NEW u \in User,
             \/ get(u) \/ put(u) \/ handle_output(u) \/ abort_status(u)
             \/ waitForIdleState(u) \/ CallStep(u)
      PROVE  HeldInv'
  BY <1>6 DEF get, put, handle_output, abort_status, waitForIdleState,
     CallStep, write_start, write_unsent, abort_socket, idle
<1>7. QED
  BY <1>1, <1>2, <1>3, <1>4, <1>5, <1>6 DEF Next, HandlerStep

\* The initial reference has one owner.
LEMMA OwnerStep ==
  ASSUME IInv, Next
  PROVE  OwnerInv'
<1> USE AsynchAssumption, ControlTypes
    DEF IInv, OwnerInv, OpenInv, Opening, Before, After, Reading, Closing, OpenPc,
       FailPc, ClosePc, DispatcherPc, UserPc, Goto, ioVars, histVars, noteVars,
       initiate_read, cancel
<1>1. ASSUME NEW d \in Dispatcher, open(d) PROVE OwnerInv'
  BY <1>1 DEF open
<1>2. ASSUME NEW d \in Dispatcher, OpenStep(d) PROVE OwnerInv'
  BY <1>2 DEF OpenStep, register_, setRegistered, open_start, open_status,
     open_connect, open_check, deregister_test, deregister_clear, deregister,
     open_fail
<1>3. ASSUME NEW d \in Dispatcher, handle_close(d) PROVE OwnerInv'
  BY <1>3 DEF handle_close, close_state, close_notify, close_disconnect,
     close_cancel, deregister_test, deregister_clear, deregister, close_socket,
     close_release
<1>4. ASSUME NEW d \in Dispatcher, handle_read_stream(d) PROVE OwnerInv'
  BY <1>4 DEF handle_read_stream
<1>5. ASSUME NEW d \in Dispatcher, read_next(d) PROVE OwnerInv'
  BY <1>5 DEF read_next
<1>6. ASSUME NEW d \in Dispatcher,
             handle_write_stream(d) \/ handle_write_part(d) \/ write_release(d)
      PROVE  OwnerInv'
  BY <1>6 DEF handle_write_stream, handle_write_part, write_release
<1>7. ASSUME NEW u \in User,
             \/ get(u) \/ put(u) \/ handle_output(u) \/ abort_status(u)
             \/ waitForIdleState(u) \/ CallStep(u)
      PROVE  OwnerInv'
  BY <1>7 DEF get, put, handle_output, abort_status, waitForIdleState,
     CallStep, write_start, write_unsent, abort_socket, idle
<1>8. QED
  BY <1>1, <1>2, <1>3, <1>4, <1>5, <1>6, <1>7 DEF Next, HandlerStep

\* One thread opens the connection.
LEMMA OpenInvStep ==
  ASSUME IInv, Next
  PROVE  OpenInv'
<1> USE AsynchAssumption, ControlTypes, NobodyYet
    DEF IInv, OwnerInv, OpenInv, NoteInv, Opening, Before, After, Reading, Closing, OpenPc,
       FailPc, ClosePc, DispatcherPc, UserPc, Goto, stateVars, regVars, noteVars,
       ioVars, histVars, initiate_read, cancel, increase, decrease
<1>1. ASSUME NEW d \in Dispatcher, open(d) PROVE OpenInv'
  BY <1>1 DEF open
<1>2. ASSUME NEW d \in Dispatcher, OpenStep(d) PROVE OpenInv'
  BY <1>2 DEF OpenStep, register_, setRegistered, open_start, open_status,
     open_connect, open_check, deregister_test, deregister_clear, deregister,
     open_fail
<1>3. ASSUME NEW d \in Dispatcher, handle_close(d) PROVE OpenInv'
  BY <1>3 DEF handle_close, close_state, close_notify, close_disconnect,
     close_cancel, deregister_test, deregister_clear, deregister, close_socket,
     close_release
<1>4. ASSUME NEW d \in Dispatcher, handle_read_stream(d) PROVE OpenInv'
  BY <1>4 DEF handle_read_stream
<1>5. ASSUME NEW d \in Dispatcher, read_next(d) PROVE OpenInv'
  BY <1>5 DEF read_next
<1>6. ASSUME NEW d \in Dispatcher,
             handle_write_stream(d) \/ handle_write_part(d) \/ write_release(d)
      PROVE  OpenInv'
  BY <1>6 DEF handle_write_stream, handle_write_part, write_release
<1>7. ASSUME NEW u \in User,
             \/ get(u) \/ put(u) \/ handle_output(u) \/ abort_status(u)
             \/ waitForIdleState(u) \/ CallStep(u)
      PROVE  OpenInv'
  BY <1>7 DEF get, put, handle_output, abort_status, waitForIdleState,
     CallStep, write_start, write_unsent, abort_socket, idle
<1>8. QED
  BY <1>1, <1>2, <1>3, <1>4, <1>5, <1>6, <1>7 DEF Next, HandlerStep

\* The chain of reads does not break.
LEMMA ChainStep ==
  ASSUME IInv, Next
  PROVE  ChainInv'
<1> USE AsynchAssumption, ControlTypes
    DEF IInv, OwnerInv, OpenInv, ChainInv, Opening, Before, After, Reading, Closing, OpenPc,
       FailPc, ClosePc, DispatcherPc, UserPc, Goto, stateVars, regVars, noteVars,
       ioVars, histVars, initiate_read, cancel, increase, decrease
<1>1. ASSUME NEW d \in Dispatcher, open(d) PROVE ChainInv'
  BY <1>1 DEF open
<1>2. ASSUME NEW d \in Dispatcher, OpenStep(d) PROVE ChainInv'
  BY <1>2 DEF OpenStep, register_, setRegistered, open_start, open_status,
     open_connect, open_check, deregister_test, deregister_clear, deregister,
     open_fail
<1>3. ASSUME NEW d \in Dispatcher, handle_close(d) PROVE ChainInv'
  BY <1>3 DEF handle_close, close_state, close_notify, close_disconnect,
     close_cancel, deregister_test, deregister_clear, deregister, close_socket,
     close_release
<1>4. ASSUME NEW d \in Dispatcher, handle_read_stream(d) PROVE ChainInv'
  BY <1>4 DEF handle_read_stream
<1>5. ASSUME NEW d \in Dispatcher, read_next(d) PROVE ChainInv'
  BY <1>5 DEF read_next
<1>6. ASSUME NEW d \in Dispatcher,
             handle_write_stream(d) \/ handle_write_part(d) \/ write_release(d)
      PROVE  ChainInv'
  BY <1>6 DEF handle_write_stream, handle_write_part, write_release
<1>7. ASSUME NEW u \in User,
             \/ get(u) \/ put(u) \/ handle_output(u) \/ abort_status(u)
             \/ waitForIdleState(u) \/ CallStep(u)
      PROVE  ChainInv'
  BY <1>7 DEF get, put, handle_output, abort_status, waitForIdleState,
     CallStep, write_start, write_unsent, abort_socket, idle
<1>8. QED
  BY <1>1, <1>2, <1>3, <1>4, <1>5, <1>6, <1>7 DEF Next, HandlerStep

\* How many announcements there have been.
LEMMA NoteStep ==
  ASSUME IInv, Next
  PROVE  NoteInv'
<1> USE AsynchAssumption, ControlTypes
    DEF IInv, OwnerInv, OpenInv, NoteInv, Opening, Before, After, Reading, Closing, OpenPc,
       FailPc, ClosePc, DispatcherPc, UserPc, Goto, stateVars, regVars, noteVars,
       ioVars, histVars, initiate_read, cancel, increase, decrease
<1>1. ASSUME NEW d \in Dispatcher, open(d) PROVE NoteInv'
  BY <1>1 DEF open
<1>2. ASSUME NEW d \in Dispatcher, OpenStep(d) PROVE NoteInv'
  BY <1>2 DEF OpenStep, register_, setRegistered, open_start, open_status,
     open_connect, open_check, deregister_test, deregister_clear, deregister,
     open_fail
<1>3. ASSUME NEW d \in Dispatcher, handle_close(d) PROVE NoteInv'
  BY <1>3 DEF handle_close, close_state, close_notify, close_disconnect,
     close_cancel, deregister_test, deregister_clear, deregister, close_socket,
     close_release
<1>4. ASSUME NEW d \in Dispatcher, handle_read_stream(d) PROVE NoteInv'
  BY <1>4 DEF handle_read_stream
<1>5. ASSUME NEW d \in Dispatcher, read_next(d) PROVE NoteInv'
  BY <1>5 DEF read_next
<1>6. ASSUME NEW d \in Dispatcher,
             handle_write_stream(d) \/ handle_write_part(d) \/ write_release(d)
      PROVE  NoteInv'
  BY <1>6 DEF handle_write_stream, handle_write_part, write_release
<1>7. ASSUME NEW u \in User,
             \/ get(u) \/ put(u) \/ handle_output(u) \/ abort_status(u)
             \/ waitForIdleState(u) \/ CallStep(u)
      PROVE  NoteInv'
  BY <1>7 DEF get, put, handle_output, abort_status, waitForIdleState,
     CallStep, write_start, write_unsent, abort_socket, idle
<1>8. QED
  BY <1>1, <1>2, <1>3, <1>4, <1>5, <1>6, <1>7 DEF Next, HandlerStep

\* The counters are numbers, because they count.
LEMMA CountStep ==
  ASSUME IInv, Next
  PROVE  /\ count' \in Int /\ writes' \in Nat /\ counter_' \in Nat
         /\ owner' \subseteq Dispatcher /\ held' \subseteq User
         /\ taken' \in Nat /\ stuck' \in Nat
<1> USE DEF IInv
<1>1. held' \in SUBSET User /\ owner' \in SUBSET Dispatcher
  <2>1. held \in SUBSET User /\ owner \in SUBSET Dispatcher
    BY DEF TypeOK
  <2>2. held' = held \/ \E u \in User : held' = held \cup {u} \/ held' = held \ {u}
    BY DEF Next, HandlerStep, OpenStep, handle_close, CallStep, open, register_,
     setRegistered, open_start, open_status, open_connect, open_check,
     deregister_test, deregister_clear, deregister, open_fail, close_state,
     close_notify, close_disconnect, close_cancel, close_socket, close_release,
     handle_read_stream, read_next, handle_write_stream, handle_write_part,
     write_release, get, put, handle_output, abort_status, waitForIdleState,
     write_start, write_unsent, abort_socket, idle, userVars
  <2>3. \/ owner' = owner \/ owner' = {}
        \/ \E d \in Dispatcher : owner' = {d} \/ owner' = owner \ {d}
    BY DEF Next, HandlerStep, OpenStep, handle_close, CallStep, open, register_,
     setRegistered, open_start, open_status, open_connect, open_check,
     deregister_test, deregister_clear, deregister, open_fail, close_state,
     close_notify, close_disconnect, close_cancel, close_socket, close_release,
     handle_read_stream, read_next, handle_write_stream, handle_write_part,
     write_release, get, put, handle_output, abort_status, waitForIdleState,
     write_start, write_unsent, abort_socket, idle, histVars
  <2>4. QED
    BY <2>1, <2>2, <2>3
<1>2. writes' \in Nat
  <2>1. writes \in Nat
    BY Counted
  <2>2. writes' = writes \/ writes' = writes + 1 \/ (writes > 0 /\ writes' = writes - 1)
    BY DEF Next, HandlerStep, OpenStep, handle_close, CallStep, open, register_,
     setRegistered, open_start, open_status, open_connect, open_check,
     deregister_test, deregister_clear, deregister, open_fail, close_state,
     close_notify, close_disconnect, close_cancel, close_socket, close_release,
     handle_read_stream, read_next, handle_write_stream, handle_write_part,
     write_release, get, put, handle_output, abort_status, waitForIdleState,
     write_start, write_unsent, abort_socket, idle, ioVars
  <2>3. QED
    BY <2>1, <2>2
<1>3. taken' \in Nat /\ stuck' \in Nat
  <2>1. taken \in Nat /\ stuck \in Nat
    BY Counted
  <2>2. taken' = taken \/ taken' = taken + 0 \/ taken' = taken + 1
    BY DEF Next, HandlerStep, OpenStep, handle_close, CallStep, open, register_,
     setRegistered, open_start, open_status, open_connect, open_check,
     deregister_test, deregister_clear, deregister, open_fail, close_state,
     close_notify, close_disconnect, close_cancel, close_socket, close_release,
     handle_read_stream, read_next, handle_write_stream, handle_write_part,
     write_release, get, put, handle_output, abort_status, waitForIdleState,
     write_start, write_unsent, abort_socket, idle, histVars
  <2>3. stuck' = stuck \/ stuck' = stuck + 1
    BY DEF Next, HandlerStep, OpenStep, handle_close, CallStep, open, register_,
     setRegistered, open_start, open_status, open_connect, open_check,
     deregister_test, deregister_clear, deregister, open_fail, close_state,
     close_notify, close_disconnect, close_cancel, close_socket, close_release,
     handle_read_stream, read_next, handle_write_stream, handle_write_part,
     write_release, get, put, handle_output, abort_status, waitForIdleState,
     write_start, write_unsent, abort_socket, idle, histVars
  <2>4. QED
    BY <2>1, <2>2, <2>3
<1>4. /\ Cardinality(held)' \in Nat /\ Cardinality(owner)' \in Nat
      /\ Cardinality(At("send"))' \in Nat
      /\ Cardinality(At("written"))' \in Nat
      /\ Cardinality(At("unsent"))' \in Nat
  <2>1. \A p : At(p)' \in SUBSET (Dispatcher \cup User)
    BY DEF At
  <2>2. IsFiniteSet(Dispatcher \cup User)
    BY AsynchAssumption, FS_Union
  <2>3. IsFiniteSet(held') /\ IsFiniteSet(owner') /\ \A p : IsFiniteSet(At(p)')
    BY <1>1, <2>1, <2>2, FS_Subset, AsynchAssumption
  <2>4. QED
    BY <2>3, FS_CardinalityType
<1>5. ReferencesExact' /\ CounterExact'
  BY CountedStep
<1>6. counter_' \in Nat
  BY <1>2, <1>3, <1>4, <1>5 DEF CounterExact
<1>7. count' \in Int
  BY <1>2, <1>3, <1>4, <1>5 DEF ReferencesExact, Ref
<1>8. QED
  BY <1>1, <1>2, <1>3, <1>6, <1>7

LEMMA TypeStep ==
  ASSUME IInv, Next
  PROVE  TypeOK'
<1> USE DEF IInv, Next, HandlerStep, OpenStep, handle_close, CallStep, open, register_,
     setRegistered, open_start, open_status, open_connect, open_check,
     deregister_test, deregister_clear, deregister, open_fail, close_state,
     close_notify, close_disconnect, close_cancel, close_socket, close_release,
     handle_read_stream, read_next, handle_write_stream, handle_write_part,
     write_release, get, put, handle_output, abort_status, waitForIdleState,
     write_start, write_unsent, abort_socket, idle
<1>1. /\ life' \in {"new", "opening", "opened", "failed"}
      /\ status' \in {"invalid", "initializing", "ok", "closed", "peer_closed",
                      "failed"}
      /\ socket' \in {"open", "shut"}
      /\ read' \in {"none", "pending", "dead"}
  <2>1. /\ life \in {"new", "opening", "opened", "failed"}
        /\ status \in {"invalid", "initializing", "ok", "closed", "peer_closed",
                       "failed"}
        /\ socket \in {"open", "shut"}
        /\ read \in {"none", "pending", "dead"}
    BY DEF TypeOK
  <2>2. life' \in {life, "opening", "opened", "failed"}
    OBVIOUS
  <2>3. status' \in {status, "initializing", "ok", "closed", "peer_closed", "failed"}
    BY DEF stateVars
  <2>4. socket' \in {socket, "shut"} /\ read' \in {read, "none", "pending", "dead"}
    BY DEF ioVars, initiate_read, cancel
  <2>5. QED
    BY <2>1, <2>2, <2>3, <2>4
<1>2. /\ closed' \in BOOLEAN /\ isRegistered_' \in BOOLEAN /\ listed' \in BOOLEAN
      /\ notify_' \in BOOLEAN
  <2>1. /\ closed \in BOOLEAN /\ isRegistered_ \in BOOLEAN /\ listed \in BOOLEAN
        /\ notify_ \in BOOLEAN
    BY DEF TypeOK
  <2>2. closed' \in {closed, TRUE} /\ isRegistered_' \in {isRegistered_, TRUE, FALSE}
    BY DEF stateVars, regVars
  <2>3. listed' \in {listed, TRUE, FALSE}
    BY DEF regVars
  <2>4. notify_' \in {notify_, FALSE}
    BY DEF noteVars
  <2>5. QED
    <3> HIDE DEF Next
    <3>1. QED
      BY <2>1, <2>2, <2>3, <2>4
<1>3. connects' \in Nat /\ disconnects' \in Nat
  <2>1. connects \in Nat /\ disconnects \in Nat
    BY DEF TypeOK
  <2>2. connects' \in {connects, connects + 1} /\ disconnects' \in {disconnects, disconnects + 1}
    BY DEF noteVars
  <2>3. QED
    BY <2>1, <2>2
<1>4. /\ pc' \in [Dispatcher \cup User -> DispatcherPc \cup UserPc]
      /\ \A d \in Dispatcher : pc'[d] \in DispatcherPc
      /\ \A u \in User : pc'[u] \in UserPc
  <2>1. \/ pc' = pc
        \/ \E d \in Dispatcher, p \in DispatcherPc : Goto(d, p)
        \/ \E u \in User, p \in UserPc : Goto(u, p)
    BY DEF DispatcherPc, UserPc, OpenPc, FailPc, ClosePc
  <2>2. QED
    BY <2>1, AsynchAssumption DEF TypeOK, Goto
<1>5. cancel_b' \in [Dispatcher -> BOOLEAN]
  <2>1. cancel_b \in [Dispatcher -> BOOLEAN] /\ closed \in BOOLEAN
    BY DEF TypeOK
  <2>2. QED
    BY <2>1
<1>6. sends' \in 0..MaxSends
  BY AsynchAssumption DEF TypeOK, userVars
<1>7. parts' \in 0..MaxParts
  BY AsynchAssumption DEF TypeOK, histVars
<1>8. QED
  BY <1>1, <1>2, <1>3, <1>4, <1>5, <1>6, <1>7, CountStep DEF TypeOK
-----------------------------------------------------------------------------
(* The theorems.                                                            *)

LEMMA NextInv == IInv /\ [Next]_vars => IInv'
<1> SUFFICES ASSUME IInv, [Next]_vars PROVE IInv'
  OBVIOUS
<1>1. CASE Next
  BY <1>1, TypeStep, HeldStep, CountedStep, OwnerStep, OpenInvStep, ChainStep,
     NoteStep DEF IInv
<1>2. CASE UNCHANGED vars
  BY <1>2 DEF IInv, vars, TypeOK, HeldInv, ReferencesExact, CounterExact, OwnerInv,
     OpenInv, ChainInv, NoteInv, Opening, Before, After, Reading, Closing, At
<1>3. QED
  BY <1>1, <1>2

\* The invariant holds throughout the life of a connection, with reads that are
\* completed before open() returns and with partial writes.
THEOREM Invariance == Spec => []IInv
BY InitInv, NextInv, PTL DEF Spec

\* The control states and counters of a proactor connection have their types;
\* counter_ never drops below 0.
THEOREM TypeCorrect == Spec => []TypeOK
<1>1. IInv => TypeOK
  BY DEF IInv
<1>2. QED
  BY Invariance, <1>1, PTL

\* At every moment the counter equals the number of references that the chain of
\* reads, the manager, the write operations and the users own, less those that
\* open()'s error path and partial writes released without owning them.
THEOREM ReferencesAreExact == Spec => []ReferencesExact
<1>1. IInv => ReferencesExact
  BY DEF IInv
<1>2. QED
  BY Invariance, <1>1, PTL

\* waitForIdleState() waits for the write operations under way and for the rests
\* of partial writes that were not started, and for nothing else.
THEOREM CounterIsExact == Spec => []CounterExact
<1>1. IInv => CounterExact
  BY DEF IInv
<1>2. QED
  BY Invariance, <1>1, PTL

\* A thread inside a handler or a call owns a reference that exists, unless it
\* is in one of the places named by Unowned or a reference was taken.
LEMMA OwnersAlive ==
  ASSUME IInv
  PROVE  UseAfterFreeConfined
<1> USE DEF IInv
<1>1. ASSUME NEW a \in Dispatcher \cup User, pc[a] # "idle", count <= 0, taken = 0
      PROVE  a \in Dispatcher /\ Unowned(a)
  <2>1. /\ Initial = 0 /\ Cardinality(held) = 0 /\ Cardinality(At("written")) = 0
    BY <1>1, NoneLeft
  <2>2. a \notin held /\ a \notin At("written")
    <3>1. IsFiniteSet(held) /\ IsFiniteSet(At("written"))
      BY OwnersFinite
    <3>2. a \in held => Cardinality(held) > 0
      BY <3>1, OneLess
    <3>3. a \in At("written") => Cardinality(At("written")) > 0
      BY <3>1, OneLess
    <3>4. QED
      BY <2>1, <3>2, <3>3
  <2>3. a \in Dispatcher /\ pc[a] # "written"
    BY <1>1, <2>2 DEF HeldInv, At
  <2>4. a \notin owner
    <3>1. ASSUME a \in owner PROVE FALSE
      <4>1. owner = {a} /\ read = "none"
        BY <3>1, OnlyOwner
      <4>2. Cardinality(owner) = 1
        BY <4>1, OneOrNone
      <4>3. QED
        BY <2>1, <4>1, <4>2 DEF Initial, Ref
    <3>2. QED
      BY <3>1
  <2>5. QED
    BY <1>1, <2>3, <2>4, ControlTypes
       DEF OwnerInv, Before, Reading, Unowned, DispatcherPc, OpenPc, FailPc
<1>2. taken \in Nat
  BY Counted
<1>3. QED
  BY <1>1, <1>2 DEF UseAfterFreeConfined

\* A connection is deleted under a thread that works on it only where open() or
\* the completion of a partial write works without a reference, or after one
\* of these has released somebody else's.
THEOREM MemorySafety == Spec => []UseAfterFreeConfined
BY Invariance, OwnersAlive, PTL

\* The chain of reads of an open connection does not break before it is closed.
THEOREM ReaderStaysAlive == Spec => []ReaderAlive
<1>1. IInv => ReaderAlive
  BY DEF IInv, ChainInv, ReaderAlive, Reading
<1>2. QED
  BY Invariance, <1>1, PTL

\* CONNECT is announced once; DISCONNECT at most once and only after it, but for
\* the two orders in which the first completion overtakes open().
THEOREM SessionsArePaired == Spec => []SessionPaired
<1>1. IInv => SessionPaired
  BY DEF IInv, NoteInv, SessionPaired, After
<1>2. QED
  BY Invariance, <1>1, PTL
=============================================================================
