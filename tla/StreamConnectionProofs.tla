----------------------- MODULE StreamConnectionProofs -----------------------
(***************************************************************************)
(* Proofs about StreamConnection for any finite sets of dispatchers and    *)
(* users and any number of messages.                                       *)
(***************************************************************************)
EXTENDS StreamConnection, FiniteSetTheorems, SequenceTheorems, TLAPS

AnyPc == OtherPc \cup OpenPc \cup FailPc \cup OutputPc \cup ClosePc

LEMMA OwnersFinite ==
  ASSUME TypeOK
  PROVE  /\ IsFiniteSet(Outputs) /\ Cardinality(Outputs) \in Nat
         /\ IsFiniteSet(held) /\ Cardinality(held) \in Nat
         /\ count \in Int /\ leaked \in Nat /\ notified \in Nat /\ taken \in Nat
         /\ operation \in BOOLEAN /\ listed \in BOOLEAN
<1>1. Outputs \in SUBSET Dispatcher /\ held \in SUBSET User
  BY DEF Outputs, TypeOK
<1>2. IsFiniteSet(Outputs) /\ IsFiniteSet(held)
  BY <1>1, FS_Subset, StreamAssumption
<1>3. QED
  BY <1>2, FS_CardinalityType DEF TypeOK

\* One owner more or less.
LEMMA OneMore ==
  ASSUME NEW S, IsFiniteSet(S), NEW x, x \notin S
  PROVE  Cardinality(S \cup {x}) = Cardinality(S) + 1
BY FS_AddElement

LEMMA OneLess ==
  ASSUME NEW S, IsFiniteSet(S), NEW x \in S
  PROVE  /\ Cardinality(S \ {x}) = Cardinality(S) - 1
         /\ Cardinality(S) > 0
<1>1. Cardinality(S \ {x}) = Cardinality(S) - 1 /\ IsFiniteSet(S \ {x})
  BY FS_RemoveElement
<1>2. Cardinality(S \ {x}) \in Nat /\ Cardinality(S) \in Nat
  BY <1>1, FS_CardinalityType
<1>3. QED
  BY <1>1, <1>2

\* What a queue and its operations give.
LEMMA SequenceFacts ==
  ASSUME NEW S
  PROVE  /\ <<>> \in Seq(S)
         /\ \A s \in Seq(S), x \in S :
              /\ Append(s, x) \in Seq(S)
              /\ DOMAIN Append(s, x) = 1..(Len(s) + 1)
              /\ \A i \in 1..Len(s) : Append(s, x)[i] = s[i]
              /\ Append(s, x)[Len(s) + 1] = x
         /\ \A s \in Seq(S) :
              /\ Len(s) \in Nat /\ DOMAIN s = 1..Len(s)
              /\ \A i \in 1..Len(s) : s[i] \in S
         /\ \A s \in Seq(S) : s # <<>> =>
              /\ Head(s) = s[1] /\ Tail(s) \in Seq(S) /\ Len(s) > 0
              /\ DOMAIN Tail(s) = 1..(Len(s) - 1)
              /\ \A i \in 1..(Len(s) - 1) : Tail(s)[i] = s[i + 1]
OBVIOUS

\* What the step of a dispatcher does to the number of notifications that are
\* being dispatched with a reference of their own.
LEMMA DispatcherMoves ==
  ASSUME TypeOK, NEW d \in Dispatcher, NEW p, Goto(d, p),
         again' \ {d} = again \ {d}
  PROVE  /\ Cardinality(Outputs)' =
              Cardinality(Outputs) + Ref(d \notin again' /\ p \in OutputPc)
                                   - Ref(d \notin again /\ pc[d] \in OutputPc)
         /\ pc'[Opener] = pc[Opener]
<1> DEFINE owns == d \notin again' /\ p \in OutputPc
           owned == d \notin again /\ pc[d] \in OutputPc
<1>1. pc'[Opener] = pc[Opener]
  BY StreamAssumption DEF TypeOK, Goto, Thread
<1>2. /\ d \in Outputs' <=> owns
      /\ d \in Outputs <=> owned
      /\ Outputs' \ {d} = Outputs \ {d}
  <2>1. pc \in [Thread -> AnyPc] /\ pc' = [pc EXCEPT ![d] = p] /\ d \in Thread
    BY DEF TypeOK, Goto, Thread, AnyPc
  <2>2. pc'[d] = p /\ \A e \in Dispatcher \ {d} : pc'[e] = pc[e]
    BY <2>1 DEF Thread
  <2>3. QED
    BY <2>2 DEF Outputs
<1> HIDE DEF owns, owned
<1>3. CASE owns <=> owned
  <2>1. Outputs' = Outputs
    BY <1>2, <1>3
  <2>2. QED
    BY <1>1, <1>3, <2>1, OwnersFinite DEF Ref, owns, owned
<1>4. CASE owns /\ ~owned
  <2>1. Outputs' = Outputs \cup {d} /\ d \notin Outputs
    BY <1>2, <1>4
  <2>2. QED
    BY <1>1, <1>4, <2>1, OneMore, OwnersFinite DEF Ref, owns, owned
<1>5. CASE ~owns /\ owned
  <2>1. Outputs' = Outputs \ {d} /\ d \in Outputs
    BY <1>2, <1>5
  <2>2. QED
    BY <1>1, <1>5, <2>1, OneLess, OwnersFinite DEF Ref, owns, owned
<1>6. QED
  BY <1>3, <1>4, <1>5

\* The other threads dispatch nothing.
LEMMA OthersMove ==
  ASSUME TypeOK, NEW t \in {Opener} \cup User, NEW p, Goto(t, p), again' = again
  PROVE  /\ Outputs' = Outputs
         /\ t # Opener => pc'[Opener] = pc[Opener]
         /\ t = Opener => pc'[Opener] = p
BY StreamAssumption DEF TypeOK, Goto, Thread, Outputs

\* Neither does a thread inside handle_close().
LEMMA CloserMoves ==
  ASSUME TypeOK, NEW t \in Closer, NEW p \in ClosePc \cup {"idle"},
         pc[t] \in ClosePc, Goto(t, p), again' = again
  PROVE  /\ Outputs' = Outputs
         /\ pc[Opener] \in OpenPc \cup FailPc <=> pc'[Opener] \in OpenPc \cup FailPc
<1>1. /\ pc'[t] = p /\ t \in Thread
      /\ \A e \in Thread \ {t} : pc'[e] = pc[e]
  BY DEF TypeOK, Goto, Thread, Closer
<1>2. p \notin OutputPc \cup OpenPc \cup FailPc /\ pc[t] \notin OutputPc \cup OpenPc \cup FailPc
  BY DEF OutputPc, OpenPc, FailPc, ClosePc
<1>3. QED
  BY <1>1, <1>2 DEF Outputs, Thread

LEMMA InitInv == Init => IInv
<1> SUFFICES ASSUME Init PROVE IInv
  OBVIOUS
<1>1. TypeOK
  <2>1. pc \in [Thread -> AnyPc]
    BY DEF Init, AnyPc, OpenPc, OtherPc
  <2>2. sends \in 0..MaxSends /\ parts \in 0..MaxParts
    BY StreamAssumption DEF Init
  <2>3. connects \in Nat /\ disconnects \in Nat /\ taken \in Nat /\ again \subseteq Dispatcher
    BY DEF Init
  <2>4. queue \in Seq(1..MaxSends) /\ wire \in Seq(1..MaxSends)
    BY DEF Init
  <2>5. count \in Int /\ count + taken \in Nat /\ leaked \in Nat /\ notified \in Nat
    BY DEF Init
  <2>6. already_b \in [Closer -> BOOLEAN] /\ decrease_b \in [Closer -> BOOLEAN]
    BY DEF Init
  <2>7. QED
    BY <2>1, <2>2, <2>3, <2>4, <2>5, <2>6 DEF Init, TypeOK, AnyPc
<1>2. RolesInv /\ ClosingInv /\ CloserInv /\ LockInv /\ NoteInv
  <2>1. /\ pc[Opener] = "open" /\ \A t \in Dispatcher \cup User : pc[t] = "idle"
        /\ \A t \in Closer : ~decrease_b[t] /\ (t = Opener \/ t \in Dispatcher)
    BY StreamAssumption DEF Init, Thread, Closer
  <2>2. QED
    BY <2>1, StreamAssumption DEF Init, RolesInv, ClosingInv, CloserInv, LockInv,
       NoteInv, OpenPc, ClosePc, FailPc
<1>3. QueueInv /\ InOrder
  BY DEF Init, QueueInv, InOrder
<1>4. ReferencesExact
  <2>1. Outputs = {} /\ pc[Opener] = "open"
    BY StreamAssumption DEF Init, Outputs, Thread, OutputPc
  <2>2. QED
    BY <2>1, FS_EmptySet DEF Init, ReferencesExact, Ref, OpenPc
<1>5. QED
  BY <1>1, <1>2, <1>3, <1>4 DEF IInv
-----------------------------------------------------------------------------
(* The references.                                                          *)

LEMMA OpenReferences ==
  ASSUME IInv, OpenStep
  PROVE  ReferencesExact'
<1> USE DEF IInv
<1>1. \E p : Goto(Opener, p) /\ again' = again
  BY DEF OpenStep, registerWithReactor, open_status, open_connect, open_return,
     fail_stop, fail_deregister, fail_status, fail_release, partVars
<1>2. /\ Outputs' = Outputs /\ pc[Opener] \in OpenPc \cup FailPc
      /\ UNCHANGED <<operation, notified, held, taken>>
  <2>1. Outputs' = Outputs
    BY <1>1, OthersMove
  <2>2. QED
    BY <2>1 DEF OpenStep, registerWithReactor, open_status, open_connect, open_return,
       fail_stop, fail_deregister, fail_status, fail_release, refVars, outVars,
       userVars, partVars, OpenPc, FailPc
<1>3. CASE registerWithReactor \/ open_status \/ open_connect \/ fail_stop \/ fail_status
  <2>1. pc'[Opener] \in OpenPc \cup FailPc
    BY <1>3, OthersMove DEF registerWithReactor, open_status, open_connect, fail_stop,
       fail_status, partVars, OpenPc, FailPc
  <2>2. UNCHANGED <<count, listed, leaked>>
    BY <1>3 DEF registerWithReactor, open_status, open_connect, fail_stop, fail_status,
       refVars
  <2>3. QED
    BY <1>2, <2>1, <2>2 DEF ReferencesExact, Ref
<1>4. CASE open_return
  <2>1. pc'[Opener] \notin OpenPc \cup FailPc
    BY <1>4, OthersMove DEF open_return, partVars, OpenPc, FailPc
  <2>2. count' = count - 1 /\ UNCHANGED <<listed, leaked>>
    BY <1>4 DEF open_return, decrease, refVars
  <2>3. QED
    BY <1>2, <2>1, <2>2, OwnersFinite DEF ReferencesExact, Ref
<1>5. CASE fail_deregister
  <2>1. pc'[Opener] \in OpenPc \cup FailPc
    BY <1>5, OthersMove DEF fail_deregister, partVars, FailPc
  <2>2. /\ leaked' = leaked
        /\ \/ listed /\ ~listed' /\ count' = count - 1
           \/ UNCHANGED <<listed, count>>
    BY <1>5 DEF fail_deregister, decrease, refVars
  <2>3. QED
    BY <1>2, <2>1, <2>2, OwnersFinite DEF ReferencesExact, Ref
<1>6. CASE fail_release
  <2>1. pc'[Opener] \notin OpenPc \cup FailPc
    BY <1>6, OthersMove DEF fail_release, partVars, OpenPc, FailPc
  <2>2. /\ listed' = listed
        /\ \/ count' = count - 1 /\ leaked' = leaked
           \/ count' = count /\ leaked' = leaked + 1
    BY <1>6 DEF fail_release, decrease
  <2>3. QED
    BY <1>2, <2>1, <2>2, OwnersFinite DEF ReferencesExact, Ref
<1>7. QED
  BY <1>3, <1>4, <1>5, <1>6 DEF OpenStep

LEMMA DispatchReferences ==
  ASSUME IInv, NEW d \in Dispatcher,
         handle_input(d) \/ dispatch_output(d) \/ handle_output(d)
  PROVE  ReferencesExact'
<1> USE DEF IInv, OutputPc
<1>1. CASE handle_input(d) \/ output_lock(d) \/ output_unlock(d)
  <2>1. UNCHANGED <<count, listed, operation, leaked, notified, held, taken>>
    BY <1>1 DEF handle_input, output_lock, output_unlock, refVars, outVars, userVars,
       partVars
  <2>2. Cardinality(Outputs)' = Cardinality(Outputs) /\ pc'[Opener] = pc[Opener]
    BY <1>1, DispatcherMoves, OwnersFinite
       DEF handle_input, output_lock, output_unlock, Ref, partVars
  <2>3. QED
    BY <2>1, <2>2 DEF ReferencesExact
<1>2. CASE dispatch_output(d)
  <2>1. /\ notified' = notified - 1
        /\ UNCHANGED <<count, listed, operation, leaked, held, taken>>
    BY <1>2 DEF dispatch_output, refVars, userVars, partVars
  <2>2. Cardinality(Outputs)' = Cardinality(Outputs) + 1 /\ pc'[Opener] = pc[Opener]
    BY <1>2, DispatcherMoves, OwnersFinite DEF dispatch_output, Ref, partVars, RolesInv
  <2>3. QED
    BY <2>1, <2>2, OwnersFinite DEF ReferencesExact, Ref
<1>3. CASE output_get(d) /\ Goto(d, "write") /\ UNCHANGED <<leaked, again, taken>>
  <2>1. UNCHANGED <<count, listed, operation, leaked, notified, held, taken>>
    BY <1>3 DEF output_get, userVars
  <2>2. Cardinality(Outputs)' = Cardinality(Outputs) /\ pc'[Opener] = pc[Opener]
    BY <1>3, DispatcherMoves, OwnersFinite DEF output_get, Ref
  <2>3. QED
    BY <2>1, <2>2 DEF ReferencesExact
<1>4. CASE (output_get(d) \/ output_write(d)) /\ OutputFails(d) /\ UNCHANGED count
  <2>1. /\ leaked' = leaked + 1 /\ taken' = taken + Ref(d \in again)
        /\ UNCHANGED <<count, listed, operation, notified, held>>
    BY <1>4 DEF output_get, output_write, OutputFails, Ends, userVars, Ref
  <2>2. /\ Cardinality(Outputs)' = Cardinality(Outputs) - Ref(d \notin again)
        /\ pc'[Opener] = pc[Opener]
    BY <1>4, DispatcherMoves, OwnersFinite
       DEF output_get, output_write, OutputFails, Ends, Ref
  <2>3. QED
    BY <2>1, <2>2, OwnersFinite DEF ReferencesExact, Ref
<1>5. CASE /\ output_write(d) /\ decrease /\ Ends(d)
           /\ Goto(d, "unlock") \/ Goto(d, "unlock_again")
           /\ UNCHANGED leaked
  <2>1. /\ count' = count - 1 /\ taken' = taken + Ref(d \in again)
        /\ UNCHANGED <<listed, operation, leaked, notified, held>>
    BY <1>5 DEF output_write, decrease, Ends, userVars, Ref
  <2>2. /\ Cardinality(Outputs)' = Cardinality(Outputs) - Ref(d \notin again)
        /\ pc'[Opener] = pc[Opener]
    BY <1>5, DispatcherMoves, OwnersFinite DEF output_write, Ends, Ref
  <2>3. QED
    BY <2>1, <2>2, OwnersFinite DEF ReferencesExact, Ref
<1>6. QED
  BY <1>1, <1>2, <1>3, <1>4, <1>5 DEF handle_output, output_get, output_write

\* The list and the first handle_close() release one reference each.
LEMMA CloseReferences ==
  ASSUME IInv, NEW t \in Closer, handle_close(t)
  PROVE  ReferencesExact'
<1> USE DEF IInv
<1>1. /\ Outputs' = Outputs
      /\ pc[Opener] \in OpenPc \cup FailPc <=> pc'[Opener] \in OpenPc \cup FailPc
      /\ UNCHANGED <<leaked, notified, held, taken>>
  <2>1. \E p \in ClosePc \cup {"idle"} : Goto(t, p) /\ pc[t] \in ClosePc
    BY DEF handle_close, close_state, close_notify_test, close_notify, close_flush,
     close_idle, close_stop, close_shutdown, close_count, deregister, close_release, ClosePc
  <2>2. UNCHANGED <<leaked, notified, held, taken, again>>
    BY DEF handle_close, close_state, close_notify_test, close_notify, close_flush,
     close_idle, close_stop, close_shutdown, close_count, deregister, close_release, refVars, outVars,
       userVars, partVars
  <2>3. QED
    BY <2>1, <2>2, CloserMoves
<1>2. CASE UNCHANGED <<count, listed, operation>>
  BY <1>1, <1>2 DEF ReferencesExact, Ref
<1>3. CASE deregister(t) /\ listed
  <2>1. count' = count - 1 /\ ~listed' /\ operation' = operation
    BY <1>3 DEF deregister, decrease, refVars
  <2>2. QED
    BY <1>1, <1>3, <2>1, OwnersFinite DEF ReferencesExact, Ref
<1>4. CASE close_release(t) /\ decrease_b[t]
  <2>1. count' = count - 1 /\ listed' = listed /\ operation /\ ~operation'
    BY <1>4 DEF close_release, decrease, ClosingInv
  <2>2. QED
    BY <1>1, <2>1, OwnersFinite DEF ReferencesExact, Ref
<1>5. QED
  BY <1>2, <1>3, <1>4 DEF handle_close, close_state, close_notify_test, close_notify, close_flush,
     close_idle, close_stop, close_shutdown, close_count, deregister, close_release, refVars

LEMMA UserReferences ==
  ASSUME IInv, NEW u \in User,
         \/ get(u) \/ put(u) \/ send(u) \/ notify(u) \/ abort_status(u) \/ abort_socket(u)
  PROVE  ReferencesExact'
<1> USE DEF IInv
<1>1. /\ Outputs' = Outputs /\ pc'[Opener] = pc[Opener]
      /\ UNCHANGED <<listed, operation, leaked, taken>>
  BY StreamAssumption, OthersMove
     DEF get, put, send, notify, abort_status, abort_socket, refVars, partVars
<1>2. CASE get(u)
  <2>1. count' = count + 1 /\ held' = held \cup {u} /\ u \notin held /\ notified' = notified
    BY <1>2 DEF get, increase, RolesInv, outVars
  <2>2. Cardinality(held') = Cardinality(held) + 1
    BY <2>1, OneMore, OwnersFinite
  <2>3. QED
    BY <1>1, <2>1, <2>2, OwnersFinite DEF ReferencesExact, Ref
<1>3. CASE put(u)
  <2>1. count' = count - 1 /\ held' = held \ {u} /\ u \in held /\ notified' = notified
    BY <1>3 DEF put, decrease, RolesInv, outVars
  <2>2. Cardinality(held') = Cardinality(held) - 1
    BY <2>1, OneLess, OwnersFinite
  <2>3. QED
    BY <1>1, <2>1, <2>2, OwnersFinite DEF ReferencesExact, Ref
<1>4. CASE notify(u)
  <2>1. count' = count + 1 /\ notified' = notified + 1 /\ held' = held
    BY <1>4 DEF notify, increase, userVars
  <2>2. QED
    BY <1>1, <2>1, OwnersFinite DEF ReferencesExact, Ref
<1>5. CASE send(u) \/ abort_status(u) \/ abort_socket(u)
  <2>1. UNCHANGED <<count, notified, held>>
    BY <1>5 DEF send, abort_status, abort_socket, outVars, userVars
  <2>2. QED
    BY <1>1, <2>1 DEF ReferencesExact
<1>6. QED
  BY <1>2, <1>3, <1>4, <1>5

LEMMA ReferencesStep ==
  ASSUME IInv, Next
  PROVE  ReferencesExact'
BY OpenReferences, DispatchReferences, CloseReferences, UserReferences DEF Next
-----------------------------------------------------------------------------
(* Types and control states.                                                *)

\* A thread moves on.
LEMMA TypeMove ==
  ASSUME TypeOK, NEW t \in Thread, NEW p \in AnyPc, Goto(t, p)
  PROVE  pc' \in [Thread -> AnyPc]
BY DEF TypeOK, Goto, AnyPc

\* The counters are numbers.
LEMMA CountStep ==
  ASSUME IInv, Next
  PROVE  /\ count' \in Int /\ notified' \in Nat /\ leaked' \in Nat /\ taken' \in Nat
         /\ parts' \in 0..MaxParts /\ connects' \in Nat /\ disconnects' \in Nat
<1>1. /\ count \in Int /\ notified \in Nat /\ leaked \in Nat /\ taken \in Nat
      /\ parts \in 0..MaxParts /\ connects \in Nat /\ disconnects \in Nat
      /\ MaxParts \in Nat
  BY StreamAssumption DEF IInv, TypeOK
<1> USE DEF increase, decrease, noteVars, refVars, partVars, outVars
<1>2. CASE OpenStep
  BY <1>1, <1>2 DEF OpenStep, registerWithReactor, open_status, open_connect,
     open_return, fail_stop, fail_deregister, fail_status, fail_release
<1>3. ASSUME NEW t \in Closer, handle_close(t)
      PROVE  /\ count' \in Int /\ notified' \in Nat /\ leaked' \in Nat /\ taken' \in Nat
             /\ parts' \in 0..MaxParts /\ connects' \in Nat /\ disconnects' \in Nat
  BY <1>1, <1>3 DEF handle_close, close_state, close_notify_test, close_notify, close_flush,
     close_idle, close_stop, close_shutdown, close_count, deregister, close_release
<1>4. ASSUME NEW d \in Dispatcher, handle_input(d) \/ dispatch_output(d) \/ handle_output(d)
      PROVE  /\ count' \in Int /\ notified' \in Nat /\ leaked' \in Nat /\ taken' \in Nat
             /\ parts' \in 0..MaxParts /\ connects' \in Nat /\ disconnects' \in Nat
  BY <1>1, <1>4 DEF handle_input, dispatch_output, handle_output, output_lock,
     output_get, output_write, output_unlock, OutputFails, Ends
<1>5. ASSUME NEW u \in User,
             \/ get(u) \/ put(u) \/ send(u) \/ notify(u)
             \/ abort_status(u) \/ abort_socket(u)
      PROVE  /\ count' \in Int /\ notified' \in Nat /\ leaked' \in Nat /\ taken' \in Nat
             /\ parts' \in 0..MaxParts /\ connects' \in Nat /\ disconnects' \in Nat
  BY <1>1, <1>5 DEF get, put, send, notify, abort_status, abort_socket
<1>6. QED
  BY <1>2, <1>3, <1>4, <1>5 DEF Next

\* The counter is the number of the references that exist, less those taken.
LEMMA BalanceStep ==
  ASSUME IInv, Next
  PROVE  count' + taken' \in Nat
<1>1. held' \in SUBSET User /\ Outputs' \in SUBSET Dispatcher
  <2>1. held' \in SUBSET User
    BY DEF IInv, TypeOK, Next, OpenStep, handle_output, handle_close, registerWithReactor, open_status, open_connect,
     open_return, fail_stop, fail_deregister, fail_status, fail_release,
     handle_input, dispatch_output, output_lock, output_unlock, output_get, output_write,
     close_state, close_notify_test, close_notify, close_flush,
     close_idle, close_stop, close_shutdown, close_count, deregister, close_release,
     get, put, send, notify, abort_status, abort_socket, userVars
  <2>2. QED
    BY <2>1 DEF Outputs
<1>2. Cardinality(held)' \in Nat /\ Cardinality(Outputs)' \in Nat
  <2>1. IsFiniteSet(held') /\ IsFiniteSet(Outputs')
    BY <1>1, FS_Subset, StreamAssumption
  <2>2. QED
    BY <2>1, FS_CardinalityType
<1>3. ReferencesExact'
  BY ReferencesStep
<1>4. notified' \in Nat /\ leaked' \in Nat /\ taken' \in Nat
  BY CountStep
<1>5. QED
  BY <1>2, <1>3, <1>4 DEF ReferencesExact, Ref

\* The message at the head of the queue.
LEMMA NextMessage ==
  ASSUME TypeOK, queue # <<>>
  PROVE  Tail(queue) \in Seq(1..MaxSends) /\ Head(queue) \in 1..MaxSends
<1> DEFINE Message == 1..MaxSends
<1>1. queue \in Seq(Message)
  BY DEF TypeOK
<1> HIDE DEF Message
<1>2. Tail(queue) \in Seq(Message) /\ Head(queue) \in Message
  BY <1>1, SequenceFacts
<1>3. QED
  BY <1>2 DEF Message

\* Nobody but the thread that takes a message from the queue touches it.
LEMMA QueueTypes ==
  ASSUME IInv, Next
  PROVE  /\ queue' \in Seq(1..MaxSends) /\ wire' \in Seq(1..MaxSends)
         /\ writeBuffer_' \in 1..MaxSends \cup {None}
         /\ sends' \in 0..MaxSends
<1> USE DEF IInv
<1>1. /\ queue \in Seq(1..MaxSends) /\ wire \in Seq(1..MaxSends)
      /\ writeBuffer_ \in 1..MaxSends \cup {None}
      /\ sends \in 0..MaxSends /\ MaxSends \in Nat
  BY StreamAssumption DEF TypeOK
<1>2. CASE UNCHANGED <<queue, wire, writeBuffer_, sends>>
  BY <1>1, <1>2
<1>3. ASSUME NEW d \in Dispatcher, output_get(d), queue' = Tail(queue), queue # <<>>,
             writeBuffer_' = Head(queue)
      PROVE  /\ queue' \in Seq(1..MaxSends) /\ writeBuffer_' \in 1..MaxSends
             /\ UNCHANGED <<wire, sends>>
  <2>1. Tail(queue) \in Seq(1..MaxSends) /\ Head(queue) \in 1..MaxSends
    BY <1>3, NextMessage
  <2>2. QED
    BY <1>3, <2>1 DEF output_get, userVars
<1>4. ASSUME NEW d \in Dispatcher, output_write(d)
      PROVE  /\ wire' \in Seq(1..MaxSends) /\ writeBuffer_' \in {writeBuffer_, None}
             /\ UNCHANGED <<queue, sends>>
  <2>1. writeBuffer_ \in 1..MaxSends
    BY <1>1, <1>4 DEF output_write, LockInv
  <2>2. QED
    <3> DEFINE Message == 1..MaxSends
    <3>1. wire \in Seq(Message) /\ writeBuffer_ \in Message
      BY <1>1, <2>1
    <3> HIDE DEF Message
    <3>2. Append(wire, writeBuffer_) \in Seq(Message)
      BY <3>1, SequenceFacts
    <3>3. wire' \in Seq(Message)
      BY <1>4, <3>1, <3>2 DEF output_write
    <3>4. QED
      BY <1>4, <3>3 DEF output_write, userVars, Message
<1>5. ASSUME NEW t \in Closer, close_flush(t)
      PROVE  queue' \in Seq(1..MaxSends) /\ UNCHANGED <<wire, writeBuffer_, sends>>
  BY <1>1, <1>5, SequenceFacts DEF close_flush, userVars
<1>6. ASSUME NEW u \in User, send(u)
      PROVE  /\ queue' \in Seq(1..MaxSends) /\ sends' \in 0..MaxSends
             /\ UNCHANGED <<wire, writeBuffer_>>
  BY <1>1, <1>6 DEF send
<1>7. QED
  BY <1>1, <1>2, <1>3, <1>4, <1>5, <1>6 DEF Next, OpenStep, handle_output, handle_close, registerWithReactor, open_status, open_connect,
     open_return, fail_stop, fail_deregister, fail_status, fail_release,
     handle_input, dispatch_output, output_lock, output_unlock, output_get, output_write,
     close_state, close_notify_test, close_notify, close_flush,
     close_idle, close_stop, close_shutdown, close_count, deregister, close_release,
     get, put, send, notify, abort_status, abort_socket, OutputFails, outVars, userVars

LEMMA TypeStep ==
  ASSUME IInv, Next
  PROVE  TypeOK'
<1> USE DEF IInv, Next, OpenStep, handle_output, handle_close, registerWithReactor, open_status, open_connect,
     open_return, fail_stop, fail_deregister, fail_status, fail_release,
     handle_input, dispatch_output, output_lock, output_unlock, output_get, output_write,
     close_state, close_notify_test, close_notify, close_flush,
     close_idle, close_stop, close_shutdown, close_count, deregister, close_release,
     get, put, send, notify, abort_status, abort_socket
<1>1. /\ status' \in {"initializing", "ok", "closed", "peer_closed", "failed"}
      /\ reactor' \in {"no", "yes", "gone"}
      /\ socket' \in {"open", "shut"}
      /\ stream' \in {"running", "stopped"}
  <2>1. /\ status \in {"initializing", "ok", "closed", "peer_closed", "failed"}
        /\ reactor \in {"no", "yes", "gone"}
        /\ socket \in {"open", "shut"}
        /\ stream \in {"running", "stopped"}
    BY DEF TypeOK
  <2>2. status' \in {status, "ok", "closed", "peer_closed", "failed"}
    BY DEF OutputFails, stateVars
  <2>3. /\ reactor' \in {reactor, "yes", "gone"}
        /\ socket' \in {socket, "shut"}
        /\ stream' \in {stream, "stopped"}
    BY DEF OutputFails, ioVars
  <2>4. QED
    BY <2>1, <2>2, <2>3
<1>2. /\ closed' \in BOOLEAN /\ notify_' \in BOOLEAN
      /\ listed' \in BOOLEAN /\ operation' \in BOOLEAN
  <2>1. /\ closed \in BOOLEAN /\ notify_ \in BOOLEAN
        /\ listed \in BOOLEAN /\ operation \in BOOLEAN
    BY DEF TypeOK
  <2>2. closed' \in {closed, TRUE} /\ notify_' \in {notify_, FALSE}
    BY DEF OutputFails, stateVars, noteVars
  <2>3. listed' \in {listed, FALSE} /\ operation' \in {operation, FALSE}
    BY DEF OutputFails, refVars
  <2>4. QED
    BY <2>1, <2>2, <2>3
<1>3. pc' \in [Thread -> AnyPc]
  <2>1. \E u \in Thread, p \in AnyPc : Goto(u, p)
    BY DEF OutputFails, Thread, Closer, AnyPc, OtherPc, OpenPc, FailPc, OutputPc, ClosePc
  <2>2. QED
    BY <2>1, TypeMove
<1>4. already_b' \in [Closer -> BOOLEAN] /\ decrease_b' \in [Closer -> BOOLEAN]
  <2>1. /\ already_b \in [Closer -> BOOLEAN] /\ decrease_b \in [Closer -> BOOLEAN]
        /\ closed \in BOOLEAN
    BY DEF TypeOK
  <2>2. QED
    BY <2>1 DEF localVars
<1>5. /\ sendLock_' \in Dispatcher \cup {None} /\ held' \subseteq User
      /\ again' \subseteq Dispatcher
  BY DEF TypeOK, OutputFails, Ends, outVars, userVars, partVars
<1>6. QED
  BY <1>1, <1>2, <1>3, <1>4, <1>5, CountStep, BalanceStep, QueueTypes DEF TypeOK, AnyPc

\* The types that the control invariants need.
LEMMA ControlTypes ==
  ASSUME TypeOK
  PROVE  /\ pc \in [Thread -> AnyPc]
         /\ decrease_b \in [Closer -> BOOLEAN]
         /\ closed \in BOOLEAN /\ operation \in BOOLEAN /\ notify_ \in BOOLEAN
         /\ leaked \in Nat /\ held \subseteq User /\ again \subseteq Dispatcher
         /\ connects \in Nat /\ disconnects \in Nat
         /\ queue # <<>> => Head(queue) # None
<1>1. queue # <<>> => Head(queue) # None
  <2>1. 1..MaxSends \subseteq Nat /\ None \notin Nat
    BY StreamAssumption
  <2>2. QED
    BY <2>1, NextMessage
<1>2. QED
  BY <1>1 DEF TypeOK, AnyPc

\* Threads stay in their roles.
LEMMA RolesStep ==
  ASSUME IInv, Next
  PROVE  RolesInv'
<1> USE StreamAssumption, ControlTypes
    DEF IInv, RolesInv, Thread, Closer, OpenPc, FailPc,
       OutputPc, ClosePc, Goto, userVars, partVars
<1>1. CASE OpenStep
  BY <1>1 DEF OpenStep, registerWithReactor, open_status, open_connect,
     open_return, fail_stop, fail_deregister, fail_status, fail_release
<1>2. ASSUME NEW d \in Dispatcher, handle_input(d) \/ dispatch_output(d)
      PROVE  RolesInv'
  BY <1>2 DEF handle_input, dispatch_output
<1>3. ASSUME NEW d \in Dispatcher, output_lock(d) \/ output_unlock(d) PROVE RolesInv'
  BY <1>3 DEF output_lock, output_unlock
<1>4. ASSUME NEW d \in Dispatcher, output_get(d) PROVE RolesInv'
  BY <1>4 DEF output_get, OutputFails, Ends
<1>5. ASSUME NEW d \in Dispatcher, output_write(d) PROVE RolesInv'
  BY <1>5 DEF output_write, OutputFails, Ends
<1>6. ASSUME NEW t \in Closer, handle_close(t) PROVE RolesInv'
  BY <1>6 DEF handle_close, close_state, close_notify_test, close_notify, close_flush,
     close_idle, close_stop, close_shutdown, close_count, deregister, close_release
<1>7. ASSUME NEW u \in User,
             \/ get(u) \/ put(u) \/ send(u) \/ notify(u)
             \/ abort_status(u) \/ abort_socket(u)
      PROVE  RolesInv'
  BY <1>7 DEF get, put, send, notify, abort_status, abort_socket
<1>8. QED
  BY <1>1, <1>2, <1>3, <1>4, <1>5, <1>6, <1>7 DEF Next, handle_output

\* One thread releases the initial reference.
LEMMA ClosingStep ==
  ASSUME IInv, Next
  PROVE  ClosingInv'
<1> USE StreamAssumption, ControlTypes
    DEF IInv, RolesInv, ClosingInv, Thread, Closer, OpenPc, FailPc,
       OutputPc, ClosePc, Goto, stateVars, refVars, localVars
<1>1. CASE OpenStep
  BY <1>1 DEF OpenStep, registerWithReactor, open_status, open_connect,
     open_return, fail_stop, fail_deregister, fail_status, fail_release
<1>2. ASSUME NEW d \in Dispatcher, handle_input(d) \/ dispatch_output(d)
      PROVE  ClosingInv'
  BY <1>2 DEF handle_input, dispatch_output
<1>3. ASSUME NEW d \in Dispatcher, output_lock(d) \/ output_unlock(d) PROVE ClosingInv'
  BY <1>3 DEF output_lock, output_unlock
<1>4. ASSUME NEW d \in Dispatcher, output_get(d) PROVE ClosingInv'
  BY <1>4 DEF output_get, OutputFails, Ends
<1>5. ASSUME NEW d \in Dispatcher, output_write(d) PROVE ClosingInv'
  BY <1>5 DEF output_write, OutputFails, Ends
<1>6. ASSUME NEW t \in Closer, handle_close(t) PROVE ClosingInv'
  BY <1>6 DEF handle_close, close_state, close_notify_test, close_notify, close_flush,
     close_idle, close_stop, close_shutdown, close_count, deregister, close_release
<1>7. ASSUME NEW u \in User,
             \/ get(u) \/ put(u) \/ send(u) \/ notify(u)
             \/ abort_status(u) \/ abort_socket(u)
      PROVE  ClosingInv'
  BY <1>7 DEF get, put, send, notify, abort_status, abort_socket
<1>8. QED
  BY <1>1, <1>2, <1>3, <1>4, <1>5, <1>6, <1>7 DEF Next, handle_output

\* Whoever is inside handle_close() has a reference to rely on.
LEMMA CloserStep ==
  ASSUME IInv, Next
  PROVE  CloserInv'
<1> USE StreamAssumption, ControlTypes
    DEF IInv, RolesInv, ClosingInv, CloserInv, Thread, Closer, OpenPc, FailPc,
       OutputPc, ClosePc, Goto, refVars, ioVars, localVars
<1>1. CASE OpenStep
  BY <1>1 DEF OpenStep, registerWithReactor, open_status, open_connect,
     open_return, fail_stop, fail_deregister, fail_status, fail_release
<1>2. ASSUME NEW d \in Dispatcher, handle_input(d) \/ dispatch_output(d)
      PROVE  CloserInv'
  BY <1>2 DEF handle_input, dispatch_output
<1>3. ASSUME NEW d \in Dispatcher, output_lock(d) \/ output_unlock(d) PROVE CloserInv'
  BY <1>3 DEF output_lock, output_unlock
<1>4. ASSUME NEW d \in Dispatcher, output_get(d) PROVE CloserInv'
  BY <1>4 DEF output_get, OutputFails, Ends
<1>5. ASSUME NEW d \in Dispatcher, output_write(d) PROVE CloserInv'
  BY <1>5 DEF output_write, OutputFails, Ends
<1>6. ASSUME NEW t \in Closer, handle_close(t) PROVE CloserInv'
  BY <1>6 DEF handle_close, close_state, close_notify_test, close_notify, close_flush,
     close_idle, close_stop, close_shutdown, close_count, deregister, close_release
<1>7. ASSUME NEW u \in User,
             \/ get(u) \/ put(u) \/ send(u) \/ notify(u)
             \/ abort_status(u) \/ abort_socket(u)
      PROVE  CloserInv'
  BY <1>7 DEF get, put, send, notify, abort_status, abort_socket
<1>8. QED
  BY <1>1, <1>2, <1>3, <1>4, <1>5, <1>6, <1>7 DEF Next, handle_output

\* Who has announced what.
LEMMA NoteStep ==
  ASSUME IInv, Next
  PROVE  NoteInv'
<1> USE StreamAssumption, ControlTypes
    DEF IInv, RolesInv, CloserInv, NoteInv, Thread, Closer, OpenPc, FailPc,
       OutputPc, ClosePc, Goto, stateVars, noteVars, refVars, ioVars, localVars
<1>1. CASE OpenStep
  BY <1>1 DEF OpenStep, registerWithReactor, open_status, open_connect,
     open_return, fail_stop, fail_deregister, fail_status, fail_release
<1>2. ASSUME NEW d \in Dispatcher, handle_input(d) \/ dispatch_output(d)
      PROVE  NoteInv'
  BY <1>2 DEF handle_input, dispatch_output
<1>3. ASSUME NEW d \in Dispatcher, output_lock(d) \/ output_unlock(d) PROVE NoteInv'
  BY <1>3 DEF output_lock, output_unlock
<1>4. ASSUME NEW d \in Dispatcher, output_get(d) PROVE NoteInv'
  BY <1>4 DEF output_get, OutputFails, Ends
<1>5. ASSUME NEW d \in Dispatcher, output_write(d) PROVE NoteInv'
  BY <1>5 DEF output_write, OutputFails, Ends
<1>6. ASSUME NEW t \in Closer, handle_close(t) PROVE NoteInv'
  <2>1. CASE close_state(t) \/ close_notify_test(t)
    BY <2>1 DEF close_state, close_notify_test
  <2>2. CASE close_notify(t)
    <3>1. t \in Dispatcher
      BY <2>2 DEF close_notify
    <3>2. leaked = 0 => disconnects = 0 /\ reactor = "gone"
      BY <2>2, <3>1 DEF close_notify, TypeOK
    <3>3. QED
      BY <2>2, <3>1, <3>2 DEF close_notify
  <2>3. CASE close_flush(t) \/ close_idle(t) \/ close_stop(t)
    BY <2>3 DEF close_flush, close_idle, close_stop
  <2>4. CASE close_shutdown(t)
    BY <2>4 DEF close_shutdown
  <2>5. CASE close_count(t) \/ deregister(t) \/ close_release(t)
    BY <2>5 DEF close_count, deregister, close_release
  <2>6. QED
    BY <1>6, <2>1, <2>2, <2>3, <2>4, <2>5 DEF handle_close
<1>7. ASSUME NEW u \in User,
             \/ get(u) \/ put(u) \/ send(u) \/ notify(u)
             \/ abort_status(u) \/ abort_socket(u)
      PROVE  NoteInv'
  BY <1>7 DEF get, put, send, notify, abort_status, abort_socket
<1>8. QED
  BY <1>1, <1>2, <1>3, <1>4, <1>5, <1>6, <1>7 DEF Next, handle_output

\* sendLock_ is owned by the thread that holds the message.
LEMMA LockStep ==
  ASSUME IInv, Next
  PROVE  LockInv'
<1> USE StreamAssumption, ControlTypes
    DEF IInv, RolesInv, LockInv, Thread, Closer, OpenPc, FailPc,
       OutputPc, ClosePc, Goto, outVars
<1>1. CASE OpenStep
  BY <1>1 DEF OpenStep, registerWithReactor, open_status, open_connect,
     open_return, fail_stop, fail_deregister, fail_status, fail_release
<1>2. ASSUME NEW d \in Dispatcher, handle_input(d) \/ dispatch_output(d)
      PROVE  LockInv'
  BY <1>2 DEF handle_input, dispatch_output
<1>3. ASSUME NEW d \in Dispatcher, output_lock(d) \/ output_unlock(d) PROVE LockInv'
  BY <1>3 DEF output_lock, output_unlock
<1>4. ASSUME NEW d \in Dispatcher, output_get(d) PROVE LockInv'
  BY <1>4 DEF output_get, OutputFails, Ends
<1>5. ASSUME NEW d \in Dispatcher, output_write(d) PROVE LockInv'
  BY <1>5 DEF output_write, OutputFails, Ends
<1>6. ASSUME NEW t \in Closer, handle_close(t) PROVE LockInv'
  BY <1>6 DEF handle_close, close_state, close_notify_test, close_notify, close_flush,
     close_idle, close_stop, close_shutdown, close_count, deregister, close_release
<1>7. ASSUME NEW u \in User,
             \/ get(u) \/ put(u) \/ send(u) \/ notify(u)
             \/ abort_status(u) \/ abort_socket(u)
      PROVE  LockInv'
  BY <1>7 DEF get, put, send, notify, abort_status, abort_socket
<1>8. QED
  BY <1>1, <1>2, <1>3, <1>4, <1>5, <1>6, <1>7 DEF Next, handle_output
-----------------------------------------------------------------------------
(* The order of the messages.                                               *)

\* The sequences of messages as functions into the numbers.
LEMMA MessageTypes ==
  ASSUME TypeOK
  PROVE  /\ queue \in Seq(Nat) /\ wire \in Seq(Nat)
         /\ sends \in Nat
         /\ writeBuffer_ \in Nat \cup {None} /\ None \notin Nat
<1>1. 1..MaxSends \subseteq Nat /\ 0..MaxSends \subseteq Nat /\ None \notin Nat
  BY StreamAssumption
<1>2. ASSUME NEW s \in Seq(1..MaxSends) PROVE s \in Seq(Nat)
  BY <1>1, SeqMonotonic
<1>3. QED
  BY <1>1, <1>2 DEF TypeOK

LEMMA OrderStep ==
  ASSUME IInv, Next
  PROVE  QueueInv' /\ InOrder'
<1> USE DEF IInv
<1>1. /\ queue \in Seq(Nat) /\ wire \in Seq(Nat)
      /\ sends \in Nat
      /\ writeBuffer_ \in Nat \cup {None} /\ None \notin Nat
  BY MessageTypes
<1>2. CASE UNCHANGED <<queue, wire, writeBuffer_, sends>>
  BY <1>2 DEF QueueInv, InOrder
\* What has been taken from the head precedes what is left.
<1>3. ASSUME NEW d \in Dispatcher, output_get(d), queue # <<>>,
             queue' = Tail(queue), writeBuffer_' = Head(queue)
      PROVE  QueueInv' /\ InOrder'
  <2>1. /\ writeBuffer_' = queue[1] /\ queue' = Tail(queue)
        /\ UNCHANGED <<wire, sends>>
    BY <1>1, <1>3, SequenceFacts DEF output_get, userVars
  <2>2. /\ Len(queue) \in Nat /\ Len(queue) > 0 /\ DOMAIN queue = 1..Len(queue)
        /\ DOMAIN queue' = 1..(Len(queue) - 1)
        /\ \A i \in 1..(Len(queue) - 1) : queue'[i] = queue[i + 1]
        /\ \A i \in 1..Len(queue) : queue[i] \in Nat
    BY <1>1, <1>3, <2>1, SequenceFacts
  <2>3. \A i \in DOMAIN queue' : i + 1 \in DOMAIN queue /\ queue'[i] = queue[i + 1]
    BY <2>2
  <2>4. \A i, j \in DOMAIN queue' : i < j => i + 1 < j + 1
    BY <2>2
  <2>5. /\ \A i, j \in DOMAIN queue' : i < j => queue'[i] < queue'[j]
        /\ \A i \in DOMAIN queue' : queue'[i] <= sends'
    BY <2>1, <2>3, <2>4 DEF QueueInv
  <2>6. \A i \in DOMAIN wire', j \in DOMAIN queue' : wire'[i] < queue'[j]
    BY <1>1, <2>1, <2>2 DEF QueueInv
  <2>7. /\ writeBuffer_' <= sends'
        /\ \A i \in DOMAIN wire' : wire'[i] < writeBuffer_'
        /\ \A j \in DOMAIN queue' : writeBuffer_' < queue'[j]
    <3>1. 1 \in DOMAIN queue /\ \A j \in DOMAIN queue' : 1 < j + 1
      BY <2>2
    <3>2. QED
      BY <2>1, <2>3, <3>1 DEF QueueInv
  <2>8. QED
    BY <2>1, <2>5, <2>6, <2>7 DEF QueueInv, InOrder
\* The message that has been taken is appended to what has been written.
<1>4. ASSUME NEW d \in Dispatcher, output_write(d), writeBuffer_' = None
      PROVE  QueueInv' /\ InOrder'
  <2>1. writeBuffer_ \in Nat /\ writeBuffer_' = None /\ UNCHANGED <<queue, sends>>
    BY <1>1, <1>4 DEF output_write, LockInv, userVars
  <2>2. CASE wire' = wire
    BY <1>1, <2>1, <2>2 DEF QueueInv, InOrder
  <2>3. CASE wire' = Append(wire, writeBuffer_)
    <3>1. /\ Len(wire) \in Nat /\ DOMAIN wire = 1..Len(wire)
          /\ DOMAIN wire' = 1..(Len(wire) + 1)
          /\ \A i \in 1..Len(wire) : wire'[i] = wire[i] /\ wire[i] \in Nat
          /\ wire'[Len(wire) + 1] = writeBuffer_
      BY <1>1, <2>1, <2>3, SequenceFacts
    <3>2. /\ \A i \in DOMAIN wire' : \/ i \in DOMAIN wire /\ wire'[i] = wire[i]
                                     \/ i = Len(wire) + 1 /\ wire'[i] = writeBuffer_
          /\ \A i, j \in DOMAIN wire' : i < j => i \in DOMAIN wire
      BY <3>1
    <3>3. \A i \in DOMAIN wire' : wire'[i] <= sends'
      BY <1>1, <2>1, <3>1 DEF QueueInv
    <3>4. \A i \in DOMAIN wire', j \in DOMAIN queue' : wire'[i] < queue'[j]
      BY <1>1, <2>1, <3>2 DEF QueueInv
    <3>5. \A i, j \in DOMAIN wire' : i < j => wire'[i] < wire'[j]
      <4>1. SUFFICES ASSUME NEW i \in DOMAIN wire', NEW j \in DOMAIN wire', i < j
                     PROVE  wire'[i] < wire'[j]
        OBVIOUS
      <4>2. i \in DOMAIN wire /\ wire'[i] = wire[i]
        BY <3>1, <3>2, <4>1
      <4>3. CASE j \in DOMAIN wire
        BY <3>1, <4>1, <4>2, <4>3 DEF InOrder
      <4>4. CASE j \notin DOMAIN wire
        BY <1>1, <2>1, <3>2, <4>1, <4>2, <4>4 DEF QueueInv
      <4>5. QED
        BY <4>3, <4>4
    <3>6. QED
      BY <1>1, <2>1, <3>3, <3>4, <3>5 DEF QueueInv, InOrder
  <2>4. QED
    BY <1>4, <2>2, <2>3 DEF output_write
<1>5. ASSUME NEW t \in Closer, close_flush(t)
      PROVE  QueueInv' /\ InOrder'
  <2>1. UNCHANGED <<wire, writeBuffer_, sends>> /\ queue' \in {queue, <<>>}
    BY <1>5 DEF close_flush, userVars
  <2>2. QED
    BY <1>1, <2>1 DEF QueueInv, InOrder
\* A new message has the highest number.
<1>6. ASSUME NEW u \in User, send(u)
      PROVE  QueueInv' /\ InOrder'
  <2>1. /\ UNCHANGED <<wire, writeBuffer_>> /\ sends' = sends + 1
        /\ queue' = Append(queue, sends + 1)
    BY <1>6 DEF send
  <2>2. /\ Len(queue) \in Nat /\ DOMAIN queue = 1..Len(queue)
        /\ DOMAIN queue' = 1..(Len(queue) + 1)
        /\ \A i \in 1..Len(queue) : queue'[i] = queue[i] /\ queue[i] \in Nat
        /\ queue'[Len(queue) + 1] = sends + 1
    BY <1>1, <2>1, SequenceFacts
  <2>3. \A i \in DOMAIN wire : wire[i] \in Nat
    BY <1>1
  <2>4. /\ \A i, j \in DOMAIN queue' : i < j => queue'[i] < queue'[j]
        /\ \A i \in DOMAIN queue' : queue'[i] <= sends'
    BY <1>1, <2>1, <2>2 DEF QueueInv
  <2>5. /\ \A i \in DOMAIN wire' : wire'[i] <= sends'
        /\ \A i \in DOMAIN wire', j \in DOMAIN queue' : wire'[i] < queue'[j]
    BY <1>1, <2>1, <2>2, <2>3 DEF QueueInv
  <2>6. writeBuffer_' # None =>
          /\ writeBuffer_' <= sends'
          /\ \A i \in DOMAIN wire' : wire'[i] < writeBuffer_'
          /\ \A j \in DOMAIN queue' : writeBuffer_' < queue'[j]
    BY <1>1, <2>1, <2>2 DEF QueueInv
  <2>7. QED
    BY <2>1, <2>4, <2>5, <2>6 DEF QueueInv, InOrder
<1>7. QED
  BY <1>2, <1>3, <1>4, <1>5, <1>6 DEF Next, OpenStep, handle_output, handle_close, registerWithReactor, open_status, open_connect,
     open_return, fail_stop, fail_deregister, fail_status, fail_release,
     handle_input, dispatch_output, output_lock, output_unlock, output_get, output_write,
     close_state, close_notify_test, close_notify, close_flush,
     close_idle, close_stop, close_shutdown, close_count, deregister, close_release,
     get, put, send, notify, abort_status, abort_socket, OutputFails, outVars, userVars
-----------------------------------------------------------------------------
(* The theorems.                                                            *)

LEMMA NextInv == IInv /\ [Next]_vars => IInv'
<1> SUFFICES ASSUME IInv, [Next]_vars PROVE IInv'
  OBVIOUS
<1>1. CASE Next
  BY <1>1, TypeStep, RolesStep, ReferencesStep, ClosingStep, CloserStep, NoteStep,
     LockStep, OrderStep DEF IInv
<1>2. CASE UNCHANGED vars
  BY <1>2 DEF IInv, vars, TypeOK, RolesInv, ReferencesExact, ClosingInv, CloserInv,
     NoteInv, LockInv, QueueInv, InOrder, Outputs
<1>3. QED
  BY <1>1, <1>2

\* The invariant holds throughout.
THEOREM Invariance == Spec => []IInv
BY InitInv, NextInv, PTL DEF Spec

\* The control states, counters and queues of a reactor connection have their
\* types.
THEOREM TypeCorrect == Spec => []TypeOK
BY Invariance, PTL DEF IInv

\* At every moment the counter equals the number of references that the reactor's
\* registration, open(), the manager, the users, the write notifications and the
\* failed writes own, less those used up by calls of handle_output() that own none.
THEOREM ReferencesAreExact == Spec => []ReferencesExact
BY Invariance, PTL DEF IInv

\* A sum of owners that is not positive has no owner.
LEMMA NoneLeft ==
  ASSUME NEW a \in Nat, NEW b \in Nat, NEW c \in Nat, NEW h \in Nat, NEW n \in Nat,
         NEW o \in Nat, NEW l \in Nat, a + b + c + h + n + o + l <= 0
  PROVE  a = 0 /\ b = 0 /\ c = 0 /\ h = 0 /\ n = 0 /\ o = 0 /\ l = 0
OBVIOUS

\* Whoever runs inside a handler owns a reference, or relies on one that nobody
\* else can release before it has left.
LEMMA OwnersAlive ==
  ASSUME IInv
  PROVE  UseAfterFreeConfined
<1> USE DEF IInv
<1> SUFFICES ASSUME count <= 0, ~(taken > 0)
    PROVE  /\ notified = 0
           /\ \A t \in Thread :
                pc[t] # "idle" => pc[t] \in {"unlock", "unlock_again"} \/ t \in again
  BY DEF UseAfterFreeConfined
<1>1. /\ leaked \in Nat /\ notified \in Nat /\ taken = 0
      /\ Cardinality(held) \in Nat /\ Cardinality(Outputs) \in Nat
      /\ Ref(operation) \in Nat /\ Ref(listed) \in Nat
      /\ Ref(pc[Opener] \in OpenPc \cup FailPc) \in Nat
  BY OwnersFinite DEF Ref
<1>2. Ref(operation) + Ref(pc[Opener] \in OpenPc \cup FailPc) + Ref(listed)
        + Cardinality(held) + notified + Cardinality(Outputs) + leaked <= 0
  BY <1>1, OwnersFinite DEF ReferencesExact
<1>3. /\ Ref(operation) = 0 /\ Ref(pc[Opener] \in OpenPc \cup FailPc) = 0
      /\ Cardinality(held) = 0 /\ notified = 0 /\ Cardinality(Outputs) = 0
      /\ leaked = 0
  <2> DEFINE a == Ref(operation)
             b == Ref(pc[Opener] \in OpenPc \cup FailPc)
             c == Ref(listed)
             h == Cardinality(held)
             o == Cardinality(Outputs)
  <2>1. a \in Nat /\ b \in Nat /\ c \in Nat /\ h \in Nat /\ o \in Nat
    BY <1>1
  <2>2. a + b + c + h + notified + o + leaked <= 0
    BY <1>2
  <2> HIDE DEF a, b, c, h, o
  <2>3. a = 0 /\ b = 0 /\ h = 0 /\ notified = 0 /\ o = 0 /\ leaked = 0
    BY <1>1, <2>1, <2>2, NoneLeft
  <2>4. QED
    BY <2>3 DEF a, b, h, o
<1>4. ~operation /\ pc[Opener] \notin OpenPc \cup FailPc /\ leaked = 0
  BY <1>3 DEF Ref
<1>5. held = {} /\ Outputs = {}
  BY <1>3, OwnersFinite, FS_EmptySet
<1>6. \A t \in Closer : pc[t] \notin ClosePc
  BY <1>4 DEF CloserInv
<1>7. pc[Opener] = "idle"
  BY <1>4, <1>6 DEF RolesInv, Closer
<1>8. \A u \in User : pc[u] = "idle"
  BY <1>5 DEF RolesInv
<1>9. \A d \in Dispatcher :
        pc[d] # "idle" => pc[d] \in {"unlock", "unlock_again"} \/ d \in again
  BY <1>5, <1>6 DEF RolesInv, Outputs, Closer
<1>10. QED
  BY <1>3, <1>7, <1>8, <1>9 DEF Thread

\* A thread works on a connection after its last reference has been released in two
\* cases only: in the destructor of the guard at the end of handle_output(), and
\* when handle_output() is called again after a partial write.
THEOREM MemorySafety == Spec => []UseAfterFreeConfined
BY Invariance, OwnersAlive, PTL

\* Once open() is over, and unless a write has failed, no end of a session is
\* announced whose begin was not, and none twice.
LEMMA NotesPaired ==
  ASSUME IInv
  PROVE  SessionPaired
<1> SUFFICES ASSUME leaked = 0, pc[Opener] \notin {"open", "ok", "connect"}
    PROVE  disconnects <= connects
  <2>1. leaked \in Nat /\ connects \in Nat /\ disconnects \in Nat
    BY ControlTypes DEF IInv
  <2>2. QED
    BY <2>1 DEF SessionPaired
<1>1. connects \in {0, 1} /\ disconnects \in Nat /\ disconnects <= 1
  BY ControlTypes DEF IInv, NoteInv
<1>2. CASE connects = 1
  BY <1>1, <1>2
<1>3. CASE connects = 0
  <2>1. pc[Opener] \in {"idle"} \cup FailPc \cup ClosePc
    BY <1>3 DEF IInv, RolesInv, NoteInv, OpenPc
  <2>2. CASE pc[Opener] \in FailPc
    <3>1. reactor = "no"
      BY <2>2 DEF IInv, CloserInv
    <3>2. disconnects = 0
      BY <3>1 DEF IInv, NoteInv
    <3>3. QED
      BY <1>3, <3>2
  <2>3. CASE pc[Opener] \in {"idle"} \cup ClosePc
    <3>1. disconnects = 0
      BY <1>3, <2>3 DEF IInv, NoteInv
    <3>2. QED
      BY <1>3, <3>1
  <2>4. QED
    BY <2>1, <2>2, <2>3
<1>4. QED
  BY <1>1, <1>2, <1>3

\* The stream is told of the end of a session at most once and not before its
\* begin, except while open() runs or when a write has failed.
THEOREM SessionsArePaired == Spec => []SessionPaired
BY Invariance, NotesPaired, PTL

\* Several dispatchers write what several users send, some of it in parts: the
\* messages reach the socket in order, each at most once.
THEOREM MessagesInOrder == Spec => []InOrder
BY Invariance, PTL DEF IInv
=============================================================================
