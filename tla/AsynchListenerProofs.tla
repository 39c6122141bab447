------------------------ MODULE AsynchListenerProofs ------------------------
(***************************************************************************)
(* Proofs about AsynchListener for any finite sets of clients and          *)
(* dispatchers, any Backlog and any number of start()s and faults.         *)
(***************************************************************************)
EXTENDS AsynchListener, FiniteSetTheorems, SequenceTheorems, TLAPS

-----------------------------------------------------------------------------
(* Counting the elements of a queue that belong to a set.                   *)

Hits(q, K) == {i \in DOMAIN q : q[i] \in K}

LEMMA HitsFinite ==
  ASSUME NEW S, NEW q \in Seq(S), NEW K
  PROVE  IsFiniteSet(Hits(q, K)) /\ Cardinality(Hits(q, K)) \in Nat
<1>1. Len(q) \in Nat /\ DOMAIN q = 1..Len(q)
  BY LenProperties
<1>2. IsFiniteSet(1..Len(q))
  BY <1>1, FS_Interval
<1>3. Hits(q, K) \in SUBSET (1..Len(q))
  BY <1>1 DEF Hits
<1>4. QED
  BY <1>2, <1>3, FS_Subset, FS_CardinalityType

LEMMA OneMore ==
  ASSUME NEW S, IsFiniteSet(S), NEW x, x \notin S
  PROVE  Cardinality(S \cup {x}) = Cardinality(S) + 1
BY FS_AddElement

LEMMA OneLess ==
  ASSUME NEW S, IsFiniteSet(S), NEW x \in S
  PROVE  /\ Cardinality(S \ {x}) = Cardinality(S) - 1
         /\ Cardinality(S) > 0
<1>1. Cardinality(S \ {x}) = Cardinality(S) - 1 /\ IsFiniteSet(S \ {x})
  BY FS_RemoveElement
<1>2. Cardinality(S \ {x}) \in Nat /\ Cardinality(S) \in Nat
  BY <1>1, FS_CardinalityType
<1>3. QED
  BY <1>1, <1>2

\* A queue grows at its end.
LEMMA HitsAppend ==
  ASSUME NEW S, NEW q \in Seq(S), NEW x \in S, NEW K
  PROVE  Cardinality(Hits(Append(q, x), K)) =
           Cardinality(Hits(q, K)) + (IF x \in K THEN 1 ELSE 0)
<1>1. /\ Len(q) \in Nat /\ DOMAIN q = 1..Len(q)
      /\ DOMAIN Append(q, x) = 1..(Len(q) + 1)
      /\ \A i \in 1..Len(q) : Append(q, x)[i] = q[i]
      /\ Append(q, x)[Len(q) + 1] = x
  OBVIOUS
<1>2. \A i \in 1..(Len(q) + 1) : i \in 1..Len(q) \/ i = Len(q) + 1
  BY <1>1
<1>3. Len(q) + 1 \notin 1..Len(q) /\ Len(q) + 1 \in 1..(Len(q) + 1)
      /\ 1..Len(q) \subseteq 1..(Len(q) + 1)
  BY <1>1
<1>4. CASE x \in K
  <2>1. /\ Hits(Append(q, x), K) = Hits(q, K) \cup {Len(q) + 1}
        /\ Len(q) + 1 \notin Hits(q, K)
    BY <1>1, <1>2, <1>3, <1>4 DEF Hits
  <2>2. QED
    BY <1>4, <2>1, HitsFinite, OneMore
<1>5. CASE x \notin K
  <2>1. Hits(Append(q, x), K) = Hits(q, K)
    BY <1>1, <1>2, <1>3, <1>5 DEF Hits
  <2>2. QED
    BY <1>5, <2>1, HitsFinite
<1>6. QED
  BY <1>4, <1>5

\* A queue shrinks at its head.
LEMMA HitsTail ==
  ASSUME NEW S, NEW q \in Seq(S), q # <<>>, NEW K
  PROVE  Cardinality(Hits(q, K)) =
           Cardinality(Hits(Tail(q), K)) + (IF Head(q) \in K THEN 1 ELSE 0)
<1>1. /\ Len(q) \in Nat /\ Len(q) > 0 /\ DOMAIN q = 1..Len(q)
      /\ DOMAIN Tail(q) = 1..(Len(q) - 1)
      /\ \A i \in 1..(Len(q) - 1) : Tail(q)[i] = q[i + 1]
      /\ Head(q) = q[1] /\ Tail(q) \in Seq(S)
  OBVIOUS
<1> DEFINE A == Hits(Tail(q), K)
           B == Hits(q, K) \ {1}
           f == [i \in A |-> i + 1]
<1>2. /\ \A i \in A : i \in Int /\ i + 1 \in B
      /\ \A j \in B : j \in Int /\ j - 1 \in A /\ (j - 1) + 1 = j
  BY <1>1 DEF Hits
<1>3. f \in [A -> B]
  BY <1>2
<1>4. \A i, j \in A : f[i] = f[j] => i = j
  BY <1>2
<1>5. \A j \in B : \E i \in A : f[i] = j
  BY <1>2
<1>6. f \in Bijection(A, B)
  <2>1. DOMAIN f = A
    OBVIOUS
  <2> HIDE DEF f, A, B
  <2>2. QED
    BY <1>3, <1>4, <1>5, <2>1 DEF Bijection, Injection, Surjection, IsInjective
<1>7. Cardinality(A) = Cardinality(B)
  <2>1. IsFiniteSet(A) /\ Cardinality(A) \in Nat
    BY <1>1, HitsFinite
  <2> HIDE DEF f, A, B
  <2>2. ExistsBijection(A, B)
    BY <1>6 DEF ExistsBijection
  <2>3. QED
    BY <2>1, <2>2, FS_Bijection
<1>8. CASE Head(q) \in K
  <2>1. 1 \in Hits(q, K)
    BY <1>1, <1>8 DEF Hits
  <2>2. Cardinality(B) = Cardinality(Hits(q, K)) - 1
    BY <2>1, HitsFinite, OneLess
  <2>3. QED
    BY <1>7, <1>8, <2>2, HitsFinite
<1>9. CASE Head(q) \notin K
  <2>1. 1 \notin Hits(q, K)
    BY <1>1, <1>9 DEF Hits
  <2>2. B = Hits(q, K)
    BY <2>1
  <2>3. Cardinality(A) \in Nat
    BY <1>1, HitsFinite
  <2> HIDE DEF A, B
  <2>4. Cardinality(Hits(q, K)) = Cardinality(A) + 0
    BY <1>7, <2>2, <2>3
  <2>5. QED
    BY <1>9, <2>4 DEF A
<1>10. QED
  BY <1>8, <1>9

LEMMA Repeated ==
  ASSUME NEW S, NEW n \in Nat, NEW x \in S
  PROVE  /\ [i \in 1..n |-> x] \in Seq(S)
         /\ DOMAIN [i \in 1..n |-> x] = 1..n
         /\ \A j \in 1..n : [i \in 1..n |-> x][j] = x
OBVIOUS

\* Elements of another kind do not count.
LEMMA HitsConcat ==
  ASSUME NEW S, NEW q \in Seq(S), NEW r \in Seq(S)
  PROVE  /\ q \o r \in Seq(S)
         /\ \A j \in DOMAIN (q \o r) : \/ j \in DOMAIN q /\ (q \o r)[j] = q[j]
                                       \/ \E i \in DOMAIN r : (q \o r)[j] = r[i]
         /\ \A K : (\A i \in DOMAIN r : r[i] \notin K) => Hits(q \o r, K) = Hits(q, K)
<1>1. /\ Len(q) \in Nat /\ DOMAIN q = 1..Len(q)
      /\ Len(r) \in Nat /\ DOMAIN r = 1..Len(r)
  BY LenProperties
<1>2. /\ q \o r \in Seq(S) /\ Len(q \o r) = Len(q) + Len(r)
      /\ \A i \in 1..(Len(q) + Len(r)) :
           (q \o r)[i] = IF i <= Len(q) THEN q[i] ELSE r[i - Len(q)]
  BY ConcatProperties
<1>3. DOMAIN (q \o r) = 1..(Len(q) + Len(r))
  BY <1>2, LenProperties
<1>4. \A i \in 1..(Len(q) + Len(r)) : i > Len(q) => i - Len(q) \in 1..Len(r)
  BY <1>1
<1>5. \A i \in DOMAIN (q \o r) : \/ i \in DOMAIN q /\ (q \o r)[i] = q[i]
                               \/ \E j \in DOMAIN r : (q \o r)[i] = r[j] /\ i \notin DOMAIN q
  BY <1>1, <1>2, <1>3, <1>4
<1>6. \A i \in DOMAIN q : i \in DOMAIN (q \o r)
  BY <1>1, <1>3
<1>7. ASSUME NEW K, \A i \in DOMAIN r : r[i] \notin K
      PROVE  Hits(q \o r, K) = Hits(q, K)
  BY <1>5, <1>6, <1>7 DEF Hits
<1>8. QED
  BY <1>2, <1>5, <1>7
-----------------------------------------------------------------------------
(* The completions of a socket and of a client, and the dispatchers.        *)

LiveOn(s)   == {r \in Completion : r.socket = s /\ ~r.cancelled}
Holding(c)  == {r \in Completion : r.client = c}

LEMMA CountedInQueue ==
  ASSUME TypeOK
  PROVE  /\ results \in Seq(Completion)
         /\ \A s : Completed(s) = Hits(results, LiveOn(s))
         /\ \A c : Accepted(c) = Hits(results, Holding(c))
<1>1. results \in Seq(Completion)
  BY DEF TypeOK
<1>2. \A i \in DOMAIN results : results[i] \in Completion
  BY <1>1
<1>3. QED
  BY <1>1, <1>2 DEF Completed, Accepted, Hits, LiveOn, Holding

LEMMA CountsFinite ==
  ASSUME TypeOK
  PROVE  /\ \A s : /\ Cardinality(Completed(s)) \in Nat
                   /\ IsFiniteSet(Reissuing(s)) /\ Cardinality(Reissuing(s)) \in Nat
         /\ \A c : /\ Cardinality(Accepted(c)) \in Nat
                   /\ IsFiniteSet(Serving(c)) /\ Cardinality(Serving(c)) \in Nat
<1>1. /\ \A s : Cardinality(Completed(s)) \in Nat
      /\ \A c : Cardinality(Accepted(c)) \in Nat
  BY CountedInQueue, HitsFinite
<1>2. /\ \A s : Reissuing(s) \in SUBSET Dispatcher
      /\ \A c : Serving(c) \in SUBSET Dispatcher
  BY DEF Reissuing, Serving
<1>3. /\ \A s : IsFiniteSet(Reissuing(s))
      /\ \A c : IsFiniteSet(Serving(c))
  BY <1>2, FS_Subset, ListenerAssumption
<1>4. QED
  BY <1>1, <1>3, FS_CardinalityType

LEMMA OperationsTypes ==
  ASSUME TypeOK, NEW s \in Socket
  PROVE  /\ Operations(s) \in Nat /\ lost[s] \in Nat /\ pending[s] \in Nat
         /\ Cardinality(Completed(s)) \in Nat /\ Cardinality(Reissuing(s)) \in Nat
<1>1. lost[s] \in Nat /\ pending[s] \in Nat
  BY DEF TypeOK
<1>2. QED
  BY <1>1, CountsFinite DEF Operations

\* What the queue loses or gains.
LEMMA QueueAppend ==
  ASSUME TypeOK, NEW r \in Completion, results' = Append(results, r)
  PROVE  /\ results' \in Seq(Completion)
         /\ \A s : Cardinality(Completed(s))' = Cardinality(Completed(s))
                     + (IF r.socket = s /\ ~r.cancelled THEN 1 ELSE 0)
         /\ \A c : Cardinality(Accepted(c))' = Cardinality(Accepted(c))
                     + (IF r.client = c THEN 1 ELSE 0)
<1> SUFFICES ASSUME NEW s, NEW c
             PROVE  /\ results' \in Seq(Completion)
                    /\ Cardinality(Completed(s))' = Cardinality(Completed(s))
                         + (IF r.socket = s /\ ~r.cancelled THEN 1 ELSE 0)
                    /\ Cardinality(Accepted(c))' = Cardinality(Accepted(c))
                         + (IF r.client = c THEN 1 ELSE 0)
  OBVIOUS
<1>1. results \in Seq(Completion)
  BY DEF TypeOK
<1>2. results' \in Seq(Completion) /\ \A i \in DOMAIN results' : results'[i] \in Completion
  BY <1>1
<1>3. /\ Completed(s)' = Hits(Append(results, r), LiveOn(s))
      /\ Accepted(c)' = Hits(Append(results, r), Holding(c))
  BY <1>2 DEF Completed, Accepted, Hits, LiveOn, Holding
<1>4. /\ r \in LiveOn(s) <=> r.socket = s /\ ~r.cancelled
      /\ r \in Holding(c) <=> r.client = c
  BY DEF LiveOn, Holding
<1>5. /\ Cardinality(Completed(s)') = Cardinality(Completed(s))
           + (IF r \in LiveOn(s) THEN 1 ELSE 0)
      /\ Cardinality(Accepted(c)') = Cardinality(Accepted(c))
           + (IF r \in Holding(c) THEN 1 ELSE 0)
  BY <1>1, <1>3, CountedInQueue, HitsAppend
<1>6. QED
  BY <1>2, <1>4, <1>5

LEMMA QueueTail ==
  ASSUME TypeOK, results # <<>>, results' = Tail(results)
  PROVE  /\ results' \in Seq(Completion) /\ Head(results) \in Completion
         /\ \A s : /\ Cardinality(Completed(s))' \in Nat
                   /\ Cardinality(Completed(s)) = Cardinality(Completed(s))'
                        + (IF Head(results).socket = s /\ ~Head(results).cancelled
                           THEN 1 ELSE 0)
         /\ \A c : /\ Cardinality(Accepted(c))' \in Nat
                   /\ Cardinality(Accepted(c)) = Cardinality(Accepted(c))'
                        + (IF Head(results).client = c THEN 1 ELSE 0)
<1> SUFFICES ASSUME NEW s, NEW c
             PROVE  /\ results' \in Seq(Completion) /\ Head(results) \in Completion
                    /\ Cardinality(Completed(s))' \in Nat
                    /\ Cardinality(Accepted(c))' \in Nat
                    /\ Cardinality(Completed(s)) = Cardinality(Completed(s))'
                         + (IF Head(results).socket = s /\ ~Head(results).cancelled
                            THEN 1 ELSE 0)
                    /\ Cardinality(Accepted(c)) = Cardinality(Accepted(c))'
                         + (IF Head(results).client = c THEN 1 ELSE 0)
  OBVIOUS
<1>1. results \in Seq(Completion)
  BY DEF TypeOK
<1>2. /\ results' \in Seq(Completion) /\ Head(results) \in Completion
      /\ \A i \in DOMAIN results' : results'[i] \in Completion
  BY <1>1
<1>3. /\ Completed(s)' = Hits(Tail(results), LiveOn(s))
      /\ Accepted(c)' = Hits(Tail(results), Holding(c))
  BY <1>2 DEF Completed, Accepted, Hits, LiveOn, Holding
<1>4. /\ Head(results) \in LiveOn(s) <=>
           Head(results).socket = s /\ ~Head(results).cancelled
      /\ Head(results) \in Holding(c) <=> Head(results).client = c
  BY <1>2 DEF LiveOn, Holding
<1>5. /\ Cardinality(Completed(s)) = Cardinality(Completed(s)')
           + (IF Head(results) \in LiveOn(s) THEN 1 ELSE 0)
      /\ Cardinality(Accepted(c)) = Cardinality(Accepted(c)')
           + (IF Head(results) \in Holding(c) THEN 1 ELSE 0)
  BY <1>1, <1>3, CountedInQueue, HitsTail
<1>6. Cardinality(Completed(s)') \in Nat /\ Cardinality(Accepted(c)') \in Nat
  BY <1>2, <1>3, HitsFinite
<1>7. QED
  BY <1>2, <1>4, <1>5, <1>6

\* Cancelled operations carry no client.
LEMMA QueueCancelled ==
  ASSUME TypeOK, NEW t \in Socket, results' = Cancelled(t)
  PROVE  /\ results' \in Seq(Completion)
         /\ \A c \in Client : Accepted(c)' = Accepted(c)
         /\ \A i \in DOMAIN results' : \/ i \in DOMAIN results /\ results'[i] = results[i]
                                       \/ results'[i].socket = t
<1> DEFINE x == [socket |-> t, client |-> None, cancelled |-> TRUE]
           r == [i \in 1..pending[t] |-> x]
<1>1. /\ results \in Seq(Completion) /\ pending[t] \in Nat /\ results' = results \o r
  BY DEF TypeOK, Cancelled
<1>2. /\ x \in Completion /\ x.socket = t
      /\ \A c \in Client : x \notin Holding(c)
  BY ListenerAssumption DEF Holding, Completion
<1> HIDE DEF x
<1>3. r \in Seq(Completion) /\ DOMAIN r = 1..pending[t] /\ \A i \in DOMAIN r : r[i] = x
  <2>1. pending[t] \in Nat /\ x \in Completion
    BY <1>1, <1>2
  <2>2. QED
    BY <2>1, Repeated
<1> HIDE DEF r
<1>4. results' \in Seq(Completion)
  BY <1>1, <1>3, HitsConcat
<1>5. \A i \in DOMAIN results' : results'[i] \in Completion
  BY <1>4
<1>6. ASSUME NEW c \in Client PROVE Accepted(c)' = Accepted(c)
  <2>1. Hits(results \o r, Holding(c)) = Hits(results, Holding(c))
    BY <1>1, <1>2, <1>3, HitsConcat
  <2>2. Accepted(c)' = Hits(results', Holding(c))
    BY <1>5 DEF Accepted, Hits, Holding
  <2>3. QED
    BY <1>1, <2>1, <2>2, CountedInQueue
<1>7. \A i \in DOMAIN results' : \/ i \in DOMAIN results /\ results'[i] = results[i]
                                 \/ results'[i].socket = t
  BY <1>1, <1>2, <1>3, HitsConcat
<1>8. QED
  BY <1>4, <1>6, <1>7
-----------------------------------------------------------------------------
LEMMA InitInv == Init => IInv
<1> SUFFICES ASSUME Init PROVE IInv
  OBVIOUS
<1>1. TypeOK
  <2>1. /\ pending \in [Socket -> Nat] /\ lost \in [Socket -> Nat]
        /\ results \in Seq(Completion)
    BY DEF Init
  <2>2. made \in 0..MaxStarts /\ started \in 0..Backlog /\ faults \in 0..MaxFaults
    BY ListenerAssumption DEF Init
  <2>3. QED
    BY <2>1, <2>2 DEF Init, TypeOK
<1>2. HandlesInv /\ MadeInv /\ DispatchInv /\ PoolInv
  BY DEF Init, HandlesInv, MadeInv, DispatchInv, PoolInv, PoolKept, Active, NoResult,
     INVALID
<1>3. SocketsOwned
  <2> SUFFICES ASSUME NEW c \in Client
               PROVE  Carriers(c) = IF client[c] = "accepted" THEN 1 ELSE 0
    BY DEF SocketsOwned
  <2>1. Accepted(c) = {} /\ Serving(c) = {} /\ client[c] = "away"
    BY DEF Init, Accepted, Serving
  <2>2. QED
    BY <2>1, FS_EmptySet DEF Carriers
<1>4. QED
  BY <1>1, <1>2, <1>3 DEF IInv
-----------------------------------------------------------------------------
(* Accepted sockets and their owners.                                       *)

\* Nobody gets or gives away an accepted socket.
LEMMA SameCarriers ==
  ASSUME IInv,
         \A c \in Client : /\ Cardinality(Accepted(c))' = Cardinality(Accepted(c))
                           /\ Serving(c)' = Serving(c)
                           /\ client'[c] = "accepted" <=> client[c] = "accepted"
  PROVE  SocketsOwned'
BY DEF IInv, SocketsOwned, Carriers

LEMMA CancelledSockets ==
  ASSUME IInv, NEW t \in Socket, results' = Cancelled(t), UNCHANGED <<dpc, result>>,
         client' \in {client, Refused(t)}
  PROVE  SocketsOwned'
<1>1. \A c \in Client : Accepted(c)' = Accepted(c)
  BY QueueCancelled DEF IInv
<1>2. \A c \in Client : /\ Serving(c)' = Serving(c)
                        /\ client'[c] = "accepted" <=> client[c] = "accepted"
  BY DEF Serving, Refused
<1>3. QED
  BY <1>1, <1>2, SameCarriers

LEMMA SocketsStep ==
  ASSUME IInv, Next
  PROVE  SocketsOwned'
<1> USE DEF IInv
<1>1. CASE start \/ open_listen \/ open_accept \/ open_done \/ open_close
  <2>1. /\ UNCHANGED <<results, dpc, result>>
        /\ \A c \in Client : client'[c] = "accepted" <=> client[c] = "accepted"
    BY <1>1 DEF start, open_listen, open_accept, open_done, open_close, Refused,
       kernelVars, clientVars, dispVars, TypeOK
  <2>2. QED
    BY <2>1, SameCarriers DEF Accepted, Serving
<1>2. CASE open_socket /\ accept_ = INVALID
  <2>1. UNCHANGED <<results, dpc, result, client>>
    BY <1>2 DEF open_socket, clientVars, dispVars
  <2>2. QED
    BY <2>1, SameCarriers DEF Accepted, Serving
<1>3. CASE open_socket /\ accept_ # INVALID
  <2>1. accept_ \in Socket /\ results' = Cancelled(accept_) /\ UNCHANGED <<dpc, result, client>>
    BY <1>3 DEF open_socket, clientVars, dispVars, TypeOK
  <2>2. QED
    BY <2>1, CancelledSockets
<1>4. CASE open_cancel
  <2>1. handle_ \in Socket /\ results' = Cancelled(handle_) /\ UNCHANGED <<dpc, result, client>>
    BY <1>4 DEF open_cancel, clientVars, dispVars, HandlesInv
  <2>2. QED
    BY <2>1, CancelledSockets
<1>5. CASE stop
  <2>1. /\ accept_ \in Socket /\ results' = Cancelled(accept_)
        /\ client' = Refused(accept_) /\ UNCHANGED <<dpc, result>>
    BY <1>5 DEF stop, dispVars, HandlesInv, Active
  <2>2. QED
    BY <2>1, CancelledSockets
<1>6. ASSUME NEW c \in Client, client_connect(c) PROVE SocketsOwned'
  <2>1. /\ UNCHANGED <<results, dpc, result>>
        /\ \A x \in Client : client'[x] = "accepted" <=> client[x] = "accepted"
    BY <1>6 DEF client_connect, kernelVars, dispVars, TypeOK
  <2>2. QED
    BY <2>1, SameCarriers DEF Accepted, Serving
\* The kernel accepts a connection: the completion owns it.
<1>7. ASSUME NEW s \in Socket, complete_accept(s) PROVE SocketsOwned'
  <2>1. PICK c \in Client :
          /\ client[c] = "waiting"
          /\ \/ /\ results' = Append(results, [socket |-> s, client |-> c,
                                               cancelled |-> FALSE])
                /\ client' = [client EXCEPT ![c] = "accepted"]
             \/ /\ results' = Append(results, [socket |-> s, client |-> None,
                                               cancelled |-> FALSE])
                /\ client' = client
    BY <1>7 DEF complete_accept
  <2>2. UNCHANGED <<dpc, result>>
    BY <1>7 DEF complete_accept, dispVars
  <2>3. ASSUME NEW k \in Client \cup {None},
               results' = Append(results, [socket |-> s, client |-> k,
                                           cancelled |-> FALSE]),
               \A x \in Client : client'[x] = IF x = k THEN "accepted" ELSE client[x],
               k \in Client => client[k] = "waiting",
               NEW x \in Client
        PROVE  Carriers(x)' = IF client'[x] = "accepted" THEN 1 ELSE 0
    <3>1. [socket |-> s, client |-> k, cancelled |-> FALSE] \in Completion
      BY DEF Completion
    <3>2. Cardinality(Accepted(x))' = Cardinality(Accepted(x)) + (IF k = x THEN 1 ELSE 0)
      BY <2>3, <3>1, QueueAppend
    <3>3. Serving(x)' = Serving(x)
      BY <2>2 DEF Serving
    <3>4. Carriers(x) = IF client[x] = "accepted" THEN 1 ELSE 0
      BY DEF SocketsOwned
    <3>5. QED
      BY <2>3, <3>2, <3>3, <3>4, CountsFinite DEF Carriers
  <2>4. CASE /\ results' = Append(results, [socket |-> s, client |-> c,
                                            cancelled |-> FALSE])
             /\ client' = [client EXCEPT ![c] = "accepted"]
    <3>1. \A x \in Client : client'[x] = IF x = c THEN "accepted" ELSE client[x]
      BY <2>4 DEF TypeOK
    <3>2. QED
      BY <2>1, <2>3, <2>4, <3>1 DEF SocketsOwned
  <2>5. CASE /\ results' = Append(results, [socket |-> s, client |-> None,
                                            cancelled |-> FALSE])
             /\ client' = client
    <3>1. \A x \in Client : client'[x] = IF x = None THEN "accepted" ELSE client[x]
      BY <2>5, ListenerAssumption
    <3>2. QED
      BY <2>1, <2>3, <2>5, <3>1, ListenerAssumption DEF SocketsOwned
  <2>6. QED
    BY <2>1, <2>4, <2>5
\* The dispatcher takes the completion over.
<1>8. ASSUME NEW d \in Dispatcher, handle_accept(d) PROVE SocketsOwned'
  <2>1. /\ results # <<>> /\ results' = Tail(results) /\ client' = client
        /\ dpc[d] = "idle" /\ dpc' = [dpc EXCEPT ![d] = "open"]
        /\ result' = [result EXCEPT ![d] = Head(results)]
    BY <1>8 DEF handle_accept, Goto, clientVars
  <2>2. ASSUME NEW c \in Client PROVE Carriers(c)' = Carriers(c)
    <3>1. Cardinality(Accepted(c)) = Cardinality(Accepted(c))'
            + (IF Head(results).client = c THEN 1 ELSE 0)
      BY <2>1, QueueTail
    <3>2. CASE Head(results).client = c
      <4>1. Serving(c)' = Serving(c) \cup {d} /\ d \notin Serving(c)
        BY <2>1, <3>2 DEF Serving, TypeOK
      <4>2. Cardinality(Serving(c)') = Cardinality(Serving(c)) + 1
        BY <4>1, OneMore, CountsFinite
      <4>3. Cardinality(Accepted(c))' = Cardinality(Accepted(c)) - 1
        BY <2>1, <3>1, <3>2, QueueTail
      <4>4. QED
        BY <4>2, <4>3, CountsFinite DEF Carriers
    <3>3. CASE Head(results).client # c
      <4>1. Serving(c)' = Serving(c)
        BY <2>1, <3>3 DEF Serving, TypeOK
      <4>2. Cardinality(Accepted(c))' = Cardinality(Accepted(c))
        BY <2>1, <3>1, <3>3, QueueTail
      <4>3. QED
        BY <4>1, <4>2 DEF Carriers
    <3>4. QED
      BY <3>2, <3>3
  <2>3. QED
    BY <2>1, <2>2 DEF SocketsOwned
\* A handler takes the connection over, or its socket is closed.
<1>9. ASSUME NEW d \in Dispatcher, handle_accept_open(d) PROVE SocketsOwned'
  <2>1. /\ results' = results /\ result' = result
        /\ dpc[d] = "open" /\ dpc' = [dpc EXCEPT ![d] = "reissue"]
    BY <1>9 DEF handle_accept_open, Goto, kernelVars
  <2>2. ASSUME NEW c \in Client
        PROVE  Carriers(c)' = IF client'[c] = "accepted" THEN 1 ELSE 0
    <3>1. Carriers(c) = IF client[c] = "accepted" THEN 1 ELSE 0
      BY DEF SocketsOwned
    <3>2. Accepted(c)' = Accepted(c)
      BY <2>1 DEF Accepted
    <3>3. CASE result[d].client = c
      <4>1. Serving(c)' = Serving(c) \ {d} /\ d \in Serving(c)
        BY <2>1, <3>3 DEF Serving, TypeOK
      <4>2. Cardinality(Serving(c)') = Cardinality(Serving(c)) - 1 /\ Cardinality(Serving(c)) > 0
        BY <4>1, OneLess, CountsFinite
      <4>3. client'[c] \in {"open", "closed"}
        BY <1>9, <3>3, ListenerAssumption DEF handle_accept_open, TypeOK
      <4>4. Carriers(c) > 0
        BY <4>2, CountsFinite DEF Carriers
      <4>5. Carriers(c)' = Carriers(c) - 1
        BY <3>2, <4>2, CountsFinite DEF Carriers
      <4>6. QED
        BY <3>1, <4>3, <4>4, <4>5
    <3>4. CASE result[d].client # c
      <4>1. Serving(c)' = Serving(c)
        BY <2>1, <3>4 DEF Serving, TypeOK
      <4>2. client'[c] = client[c]
        BY <1>9, <3>4 DEF handle_accept_open, TypeOK
      <4>3. QED
        BY <3>1, <3>2, <4>1, <4>2 DEF Carriers
    <3>5. QED
      BY <3>3, <3>4
  <2>3. QED
    BY <2>2 DEF SocketsOwned
<1>10. ASSUME NEW d \in Dispatcher, handle_accept_reissue(d) \/ handle_accept_notify(d)
       PROVE  SocketsOwned'
  <2>1. UNCHANGED <<results, client>>
    BY <1>10 DEF handle_accept_reissue, handle_accept_notify, kernelVars, clientVars
  <2>2. \A c \in Client : Serving(c)' = Serving(c)
    BY <1>10 DEF handle_accept_reissue, handle_accept_notify, Goto, Serving, TypeOK
  <2>3. QED
    BY <2>1, <2>2, SameCarriers DEF Accepted
<1>11. ASSUME NEW d \in Dispatcher, NEW c \in Client, connection_close(d, c)
       PROVE  SocketsOwned'
  <2>1. /\ UNCHANGED <<results, dpc, result>>
        /\ \A x \in Client : client'[x] = "accepted" <=> client[x] = "accepted"
    BY <1>11 DEF connection_close, kernelVars, dispVars, TypeOK
  <2>2. QED
    BY <2>1, SameCarriers DEF Accepted, Serving
<1>12. QED
  BY <1>1, <1>2, <1>3, <1>4, <1>5, <1>6, <1>7, <1>8, <1>9, <1>10, <1>11
     DEF Next, OpenStep, HandlerStep
-----------------------------------------------------------------------------
(* The pool of accept operations.                                           *)

\* A step that costs the present socket no operation.
LEMMA PoolNotSmaller ==
  ASSUME IInv, UNCHANGED <<isListening_, apc, started, accept_>>,
         \A s \in Socket : Active /\ s = accept_ =>
           /\ Operations(s)' \in Nat /\ lost'[s] \in Nat
           /\ Operations(s)' + lost'[s] >= Operations(s) + lost[s]
  PROVE  PoolInv'
<1> SUFFICES ASSUME isListening_ \/ apc = "accept" PROVE PoolInv'
  BY DEF PoolInv, PoolKept
<1>1. Active
  BY DEF Active
<1>2. PICK s \in Socket : s = accept_
  BY <1>1 DEF IInv, HandlesInv
<1>3. Operations(s) \in Nat /\ lost[s] \in Nat
  BY OperationsTypes DEF IInv
<1>4. started \in Nat /\ Backlog \in Nat
  BY ListenerAssumption DEF IInv, TypeOK
<1>5. /\ apc = "accept" => Operations(s) + lost[s] >= started
      /\ isListening_ => Operations(s) + lost[s] >= Backlog
  BY <1>2 DEF IInv, PoolInv, PoolKept
<1>6. /\ Operations(s)' \in Nat /\ lost'[s] \in Nat
      /\ Operations(s)' + lost'[s] >= Operations(s) + lost[s]
  BY <1>1, <1>2
<1>7. /\ apc = "accept" => Operations(s)' + lost'[s] >= started
      /\ isListening_ => Operations(s)' + lost'[s] >= Backlog
  BY <1>3, <1>4, <1>5, <1>6
<1>8. Operations(accept_)' = Operations(s)' /\ lost[accept_]' = lost'[s]
  BY <1>2 DEF Operations, Completed, Reissuing
<1>9. QED
  BY <1>7, <1>8 DEF PoolInv, PoolKept

LEMMA SamePool ==
  ASSUME IInv, UNCHANGED <<isListening_, apc, started, accept_, pending, results,
                           dpc, result, lost>>
  PROVE  PoolInv'
BY DEF IInv, PoolInv, PoolKept, Operations, Completed, Reissuing

\* accept() on the present socket.
LEMMA AcceptCounts ==
  ASSUME TypeOK, NEW ok \in BOOLEAN, Accept(ok)
  PROVE  /\ pending' \in [Socket -> Nat]
         /\ \A s \in Socket :
              pending'[s] = pending[s] + (IF ok /\ s = accept_ THEN 1 ELSE 0)
         /\ faults' \in 0..MaxFaults
<1>1. /\ pending \in [Socket -> Nat] /\ accept_ \in Socket \cup {INVALID}
      /\ faults \in 0..MaxFaults /\ MaxFaults \in Nat
  BY ListenerAssumption DEF TypeOK
<1>2. INVALID \notin Socket
  BY DEF Socket, INVALID
<1>3. faults' \in 0..MaxFaults
  BY <1>1 DEF Accept, Fault
<1>4. CASE ok /\ accept_ # INVALID /\ pending' = [pending EXCEPT ![accept_] = @ + 1]
  BY <1>1, <1>3, <1>4
<1>5. CASE ~ok /\ pending' = pending
  <2>1. \A s \in Socket : pending'[s] = pending[s] + 0
    BY <1>1, <1>5
  <2>2. QED
    BY <1>1, <1>3, <1>5, <2>1
<1>6. QED
  BY <1>4, <1>5 DEF Accept

LEMMA PoolStep ==
  ASSUME IInv, Next
  PROVE  PoolInv'
<1> USE DEF IInv
<1>1. CASE start \/ open_socket \/ open_cancel \/ open_close \/ stop
  <2>1. ~isListening_' /\ apc' # "accept"
    BY <1>1 DEF start, open_socket, open_cancel, open_close, stop, HandlesInv
  <2>2. QED
    BY <2>1 DEF PoolInv, PoolKept
<1>2. CASE open_listen
  <2>1. CASE apc' = "cancel"
    BY <1>2, <2>1 DEF open_listen, HandlesInv, PoolInv, PoolKept
  <2>2. CASE started' = 0
    <3>1. PICK s \in Socket : s = accept_
      BY <1>2 DEF open_listen, HandlesInv, Active
    <3>2. Operations(s) \in Nat /\ lost[s] \in Nat
      BY OperationsTypes
    <3>3. Operations(accept_)' = Operations(s) /\ lost[accept_]' = lost[s]
      BY <1>2, <3>1 DEF open_listen, dispVars, Operations, Completed, Reissuing
    <3>4. Operations(accept_)' + lost[accept_]' >= started'
      BY <2>2, <3>2, <3>3
    <3>5. QED
      BY <1>2, <3>4 DEF open_listen, HandlesInv, PoolInv, PoolKept
  <2>3. QED
    BY <1>2, <2>1, <2>2 DEF open_listen
\* Every turn of the loop starts one operation more.
<1>3. CASE open_accept
  <2>1. PICK ok \in BOOLEAN : /\ Accept(ok)
                              /\ started' = IF ok THEN started + 1 ELSE started
                              /\ apc' = IF ok THEN "accept" ELSE "cancel"
    BY <1>3 DEF open_accept
  <2>2. ~isListening_'
    BY <1>3 DEF open_accept, HandlesInv
  <2>3. CASE ~ok
    BY <2>1, <2>2, <2>3 DEF PoolInv, PoolKept
  <2>4. CASE ok
    <3>1. PICK s \in Socket : s = accept_
      BY <1>3 DEF open_accept, HandlesInv, Active
    <3>2. Operations(s) \in Nat /\ lost[s] \in Nat /\ pending[s] \in Nat /\ started \in Nat
      BY OperationsTypes, ListenerAssumption DEF TypeOK
    <3>3. pending'[s] = pending[s] + 1
      BY <2>1, <2>4, <3>1, AcceptCounts
    <3>4. UNCHANGED <<accept_, results, dpc, result, lost>>
      BY <1>3 DEF open_accept, dispVars
    <3>5. Operations(s)' = Operations(s) + 1
      <4>1. Completed(s)' = Completed(s) /\ Reissuing(s)' = Reissuing(s)
        BY <3>4 DEF Completed, Reissuing
      <4>2. QED
        BY <3>3, <4>1, OperationsTypes DEF Operations
    <3>6. Operations(s) + lost[s] >= started
      BY <1>3, <3>1 DEF open_accept, PoolInv
    <3>7. Operations(s)' + lost'[s] >= started'
      BY <2>1, <2>4, <3>2, <3>4, <3>5, <3>6
    <3>8. Operations(accept_)' = Operations(s)' /\ lost[accept_]' = lost'[s]
      BY <3>1, <3>4 DEF Operations, Completed, Reissuing
    <3>9. QED
      BY <2>2, <3>7, <3>8 DEF PoolInv, PoolKept
  <2>5. QED
    BY <2>3, <2>4
<1>4. CASE open_done
  <2>1. UNCHANGED <<accept_, pending, results, dpc, result, lost>>
    BY <1>4 DEF open_done, kernelVars, dispVars
  <2>2. Operations(accept_)' = Operations(accept_) /\ lost[accept_]' = lost[accept_]
    BY <2>1 DEF Operations, Completed, Reissuing
  <2>3. Operations(accept_) + lost[accept_] >= Backlog
    BY <1>4 DEF open_done, PoolInv
  <2>4. QED
    BY <1>4, <2>2, <2>3 DEF open_done, PoolInv, PoolKept
<1>5. ASSUME NEW c \in Client, client_connect(c) PROVE PoolInv'
  BY <1>5, SamePool DEF client_connect, kernelVars, adminVars, dispVars
<1>6. ASSUME NEW d \in Dispatcher, NEW c \in Client, connection_close(d, c)
      PROVE  PoolInv'
  BY <1>6, SamePool DEF connection_close, kernelVars, adminVars, dispVars
\* A completed operation waits to be dispatched, whatever its result.
<1>7. ASSUME NEW t \in Socket, complete_accept(t) PROVE PoolInv'
  <2>1. PICK k \in Client \cup {None} :
          results' = Append(results, [socket |-> t, client |-> k, cancelled |-> FALSE])
    BY <1>7 DEF complete_accept
  <2>2. /\ pending[t] > 0 /\ pending' = [pending EXCEPT ![t] = @ - 1]
        /\ UNCHANGED <<isListening_, apc, started, accept_, dpc, result, lost>>
    BY <1>7 DEF complete_accept, adminVars, dispVars
  <2>3. ASSUME NEW s \in Socket
        PROVE  /\ Operations(s)' = Operations(s) /\ Operations(s) \in Nat
               /\ lost'[s] = lost[s] /\ lost[s] \in Nat
    <3>1. [socket |-> t, client |-> k, cancelled |-> FALSE] \in Completion
      BY DEF Completion
    <3>2. Cardinality(Completed(s))' = Cardinality(Completed(s)) + (IF t = s THEN 1 ELSE 0)
      BY <2>1, <3>1, QueueAppend
    <3>3. Reissuing(s)' = Reissuing(s)
      BY <2>2 DEF Reissuing
    <3>4. /\ pending[s] \in Nat
          /\ pending'[s] = pending[s] - (IF t = s THEN 1 ELSE 0)
      BY <2>2 DEF TypeOK
    <3>5. lost[s] \in Nat
      BY DEF TypeOK
    <3>6. QED
      BY <2>2, <3>2, <3>3, <3>4, <3>5, OperationsTypes DEF Operations
  <2>4. QED
    BY <2>2, <2>3, PoolNotSmaller
\* A dispatched one is about to be started again.
<1>8. ASSUME NEW d \in Dispatcher, handle_accept(d) PROVE PoolInv'
  <2>1. /\ results # <<>> /\ results' = Tail(results)
        /\ dpc[d] = "idle" /\ dpc' = [dpc EXCEPT ![d] = "open"]
        /\ result' = [result EXCEPT ![d] = Head(results)]
        /\ UNCHANGED <<isListening_, apc, started, accept_, pending, lost>>
    BY <1>8 DEF handle_accept, Goto, adminVars
  <2>2. ASSUME NEW s \in Socket
        PROVE  /\ Operations(s)' = Operations(s) /\ Operations(s) \in Nat
               /\ lost'[s] = lost[s] /\ lost[s] \in Nat
    <3>1. pending[s] \in Nat /\ lost[s] \in Nat
      BY DEF TypeOK
    <3>2. CASE Head(results).socket = s /\ ~Head(results).cancelled
      <4>1. Cardinality(Completed(s))' = Cardinality(Completed(s)) - 1
        BY <2>1, <3>2, QueueTail, CountsFinite
      <4>2. Reissuing(s)' = Reissuing(s) \cup {d} /\ d \notin Reissuing(s)
        BY <2>1, <3>2 DEF Reissuing, TypeOK
      <4>3. Cardinality(Reissuing(s)') = Cardinality(Reissuing(s)) + 1
        BY <4>2, OneMore, CountsFinite
      <4>4. QED
        BY <2>1, <3>1, <4>1, <4>3, OperationsTypes DEF Operations
    <3>3. CASE ~(Head(results).socket = s /\ ~Head(results).cancelled)
      <4>1. Cardinality(Completed(s))' = Cardinality(Completed(s))
        BY <2>1, <3>3, QueueTail, CountsFinite
      <4>2. Reissuing(s)' = Reissuing(s)
        BY <2>1, <3>3 DEF Reissuing, TypeOK
      <4>3. QED
        BY <2>1, <3>1, <4>1, <4>2, OperationsTypes DEF Operations
    <3>4. QED
      BY <3>2, <3>3
  <2>3. QED
    BY <2>1, <2>2, PoolNotSmaller
<1>9. ASSUME NEW d \in Dispatcher, handle_accept_open(d) \/ handle_accept_notify(d)
      PROVE  PoolInv'
  <2>1. UNCHANGED <<isListening_, apc, started, accept_, pending, results, lost>>
    BY <1>9 DEF handle_accept_open, handle_accept_notify, kernelVars, adminVars
  <2>2. \A s \in Socket : Reissuing(s)' = Reissuing(s)
    BY <1>9 DEF handle_accept_open, handle_accept_notify, Goto, Reissuing, TypeOK
  <2>3. ASSUME NEW s \in Socket
        PROVE  /\ Operations(s)' = Operations(s) /\ Operations(s) \in Nat
               /\ lost'[s] = lost[s] /\ lost[s] \in Nat
    <3>1. Completed(s)' = Completed(s)
      BY <2>1 DEF Completed
    <3>2. QED
      BY <2>1, <2>2, <3>1, OperationsTypes DEF Operations
  <2>4. QED
    BY <2>1, <2>3, PoolNotSmaller
\* It is started again, or lost.
<1>10. ASSUME NEW d \in Dispatcher, handle_accept_reissue(d) PROVE PoolInv'
  <2>1. /\ dpc[d] = "reissue" /\ dpc' = [dpc EXCEPT ![d] = "notify"]
        /\ UNCHANGED <<isListening_, apc, started, accept_, results, result>>
    BY <1>10 DEF handle_accept_reissue, Goto, adminVars
  <2>2. ASSUME NEW s \in Socket, Active, s = accept_
        PROVE  /\ Operations(s)' \in Nat /\ lost'[s] \in Nat
               /\ Operations(s)' + lost'[s] >= Operations(s) + lost[s]
    <3>1. /\ pending[s] \in Nat /\ lost[s] \in Nat
          /\ Completed(s)' = Completed(s)
      BY <2>1 DEF TypeOK, Completed
    <3>2. \/ /\ result[d].socket = s /\ ~result[d].cancelled
             /\ Reissuing(s)' = Reissuing(s) \ {d} /\ d \in Reissuing(s)
          \/ /\ ~(result[d].socket = s /\ ~result[d].cancelled)
             /\ Reissuing(s)' = Reissuing(s)
      BY <2>1 DEF Reissuing, TypeOK
    <3>3. \/ /\ result[d].socket = s /\ ~result[d].cancelled
             /\ Cardinality(Reissuing(s)') = Cardinality(Reissuing(s)) - 1
             /\ Cardinality(Reissuing(s)) > 0
          \/ /\ ~(result[d].socket = s /\ ~result[d].cancelled)
             /\ Reissuing(s)' = Reissuing(s)
      BY <3>2, OneLess, CountsFinite
    <3>4. CASE ~(listen[d] # INVALID /\ ~result[d].cancelled)
      <4>1. pending' = pending /\ lost' = lost
        BY <1>10, <3>4 DEF handle_accept_reissue
      <4>2. ~(result[d].socket = s /\ ~result[d].cancelled)
        BY <2>1, <2>2, <3>4 DEF DispatchInv
      <4>3. QED
        BY <3>1, <3>3, <4>1, <4>2, OperationsTypes DEF Operations
    <3>5. CASE listen[d] # INVALID /\ ~result[d].cancelled
      <4>1. PICK ok \in BOOLEAN :
              /\ Accept(ok)
              /\ lost' = IF ok THEN lost ELSE [lost EXCEPT ![result[d].socket] = @ + 1]
        BY <1>10, <3>5 DEF handle_accept_reissue
      <4>2. pending'[s] = pending[s] + (IF ok THEN 1 ELSE 0)
        BY <2>2, <4>1, AcceptCounts
      <4>3. \/ ok /\ lost'[s] = lost[s]
            \/ ~ok /\ lost'[s] = lost[s] + (IF result[d].socket = s THEN 1 ELSE 0)
        BY <3>1, <4>1 DEF TypeOK
      <4>4. QED
        BY <3>1, <3>3, <3>5, <4>2, <4>3, OperationsTypes DEF Operations
    <3>6. QED
      BY <3>4, <3>5
  <2>3. QED
    BY <2>1, <2>2, PoolNotSmaller
<1>11. QED
  BY <1>1, <1>2, <1>3, <1>4, <1>5, <1>6, <1>7, <1>8, <1>9, <1>10
     DEF Next, OpenStep, HandlerStep
-----------------------------------------------------------------------------
(* Types, handles and dispatchers.                                          *)

\* What a step does to the queue of completions.
LEMMA QueueStep ==
  ASSUME IInv, Next
  PROVE  /\ results' \in Seq(Completion)
         /\ \A i \in DOMAIN results' : results'[i].socket <= made'
<1> USE DEF IInv
<1>1. /\ results \in Seq(Completion) /\ made \in Nat
      /\ \A i \in DOMAIN results : results[i].socket <= made
      /\ \A i \in DOMAIN results : results[i] \in Completion
  <2>1. results \in Seq(Completion)
    BY DEF TypeOK
  <2>2. QED
    BY <2>1, ListenerAssumption DEF TypeOK, MadeInv
<1>2. \A r \in Completion : r.socket \in Nat
  BY ListenerAssumption DEF Completion, Socket
<1>3. made' = made \/ made' = made + 1
  BY DEF Next, OpenStep, HandlerStep, start, open_socket, open_listen,
     open_accept, open_done, open_cancel, open_close, stop, client_connect,
     complete_accept, handle_accept, handle_accept_open, handle_accept_reissue,
     handle_accept_notify, connection_close, kernelVars
<1>4. ASSUME results' \in Seq(Completion),
             \A i \in DOMAIN results' :
               \/ \E j \in DOMAIN results : results'[i] = results[j]
               \/ results'[i].socket \in Socket /\ results'[i].socket <= made
      PROVE  \A i \in DOMAIN results' : results'[i].socket <= made'
  <2>1. Socket \subseteq Nat
    BY ListenerAssumption DEF Socket
  <2>2. \A i \in DOMAIN results' : results'[i].socket \in Nat /\ results'[i].socket <= made
    BY <1>1, <1>2, <1>4, <2>1
  <2>3. QED
    BY <1>1, <1>3, <2>2
<1>5. CASE results' = results
  BY <1>1, <1>4, <1>5
<1>6. ASSUME NEW t \in Socket, t <= made, results' = Cancelled(t)
      PROVE  /\ results' \in Seq(Completion)
             /\ \A i \in DOMAIN results' : results'[i].socket <= made'
  <2>1. /\ results' \in Seq(Completion)
        /\ \A i \in DOMAIN results' : \/ i \in DOMAIN results /\ results'[i] = results[i]
                                      \/ results'[i].socket = t
    BY <1>6, QueueCancelled
  <2>2. QED
    BY <1>4, <1>6, <2>1
<1>7. ASSUME NEW s \in Socket, complete_accept(s)
      PROVE  /\ results' \in Seq(Completion)
             /\ \A i \in DOMAIN results' : results'[i].socket <= made'
  <2>1. PICK k \in Client \cup {None} :
          results' = Append(results, [socket |-> s, client |-> k, cancelled |-> FALSE])
    BY <1>7 DEF complete_accept
  <2>2. PICK r \in Completion : r.socket = s /\ results' = Append(results, r)
    <3>1. /\ [socket |-> s, client |-> k, cancelled |-> FALSE] \in Completion
          /\ [socket |-> s, client |-> k, cancelled |-> FALSE].socket = s
      BY DEF Completion
    <3>2. QED
      BY <2>1, <3>1
  <2>3. s <= made
    BY <1>7 DEF complete_accept, MadeInv
  <2>4. /\ results' \in Seq(Completion)
        /\ \A i \in DOMAIN results' : \/ i \in DOMAIN results /\ results'[i] = results[i]
                                      \/ results'[i] = r
    BY <1>1, <2>2
  <2>5. QED
    BY <1>4, <2>2, <2>3, <2>4
<1>8. ASSUME results # <<>>, results' = Tail(results)
      PROVE  /\ results' \in Seq(Completion)
             /\ \A i \in DOMAIN results' : results'[i].socket <= made'
  <2>1. /\ results' \in Seq(Completion)
        /\ \A i \in DOMAIN results' : i + 1 \in DOMAIN results /\ results'[i] = results[i + 1]
    BY <1>1, <1>8
  <2>2. QED
    BY <1>4, <2>1
<1>9. CASE open_socket \/ open_cancel \/ stop
  <2>1. \/ results' = results
        \/ accept_ \in Socket /\ results' = Cancelled(accept_)
        \/ handle_ \in Socket /\ results' = Cancelled(handle_)
    BY <1>9 DEF open_socket, open_cancel, stop, HandlesInv, Active, TypeOK
  <2>2. handle_ <= made /\ accept_ <= made
    BY DEF MadeInv
  <2>3. QED
    BY <1>1, <1>5, <1>6, <2>1, <2>2
<1>10. QED
  BY <1>5, <1>7, <1>8, <1>9 DEF Next, OpenStep, HandlerStep, start, open_listen,
     open_accept, open_done, open_close, client_connect, handle_accept,
     handle_accept_open, handle_accept_reissue, handle_accept_notify,
     connection_close, kernelVars

\* The types that the other parts of the invariant need.
LEMMA ControlTypes ==
  ASSUME TypeOK
  PROVE  /\ isListening_ \in BOOLEAN
         /\ handle_ \in Nat /\ accept_ \in Nat /\ made \in Nat /\ MaxStarts \in Nat
         /\ made <= MaxStarts
         /\ handle_ \in Socket \cup {INVALID} /\ accept_ \in Socket \cup {INVALID}
         /\ listening \subseteq Socket /\ Socket \subseteq Nat /\ INVALID = 0
         /\ INVALID \notin Socket
         /\ made < MaxStarts => made + 1 \in Socket
         /\ apc \in {"idle", "socket", "listen", "accept", "cancel", "close"}
         /\ dpc \in [Dispatcher -> {"idle", "open", "reissue", "notify"}]
         /\ result \in [Dispatcher -> Completion \cup {NoResult}]
         /\ listen \in [Dispatcher -> Socket \cup {INVALID}]
         /\ \A d \in Dispatcher : result[d].socket \in Nat
<1>1. Socket \subseteq Nat /\ INVALID = 0 /\ INVALID \notin Socket
  BY ListenerAssumption DEF Socket, INVALID
<1>2. \A r \in Completion \cup {NoResult} : r.socket \in Nat
  <2>1. \A r \in Completion : r.socket \in Socket
    BY DEF Completion
  <2>2. NoResult.socket = INVALID
    BY DEF NoResult
  <2>3. ASSUME NEW r \in Completion PROVE r.socket \in Nat
    BY <1>1, <2>1
  <2>4. NoResult.socket \in Nat
    BY <1>1, <2>2
  <2>5. QED
    BY <2>3, <2>4, Zenon
<1>3. \A d \in Dispatcher : result[d].socket \in Nat
  BY <1>2 DEF TypeOK
<1>4. made < MaxStarts => made + 1 \in Socket
  BY ListenerAssumption DEF TypeOK, Socket
<1>5. QED
  BY <1>1, <1>3, <1>4, ListenerAssumption DEF TypeOK

LEMMA HandlesStep ==
  ASSUME IInv, Next
  PROVE  HandlesInv'
<1> USE DEF IInv
<1>1. CASE open_socket
  BY <1>1, ControlTypes DEF open_socket, HandlesInv, Active
<1>2. CASE start \/ open_listen \/ open_accept \/ open_done
  BY <1>2 DEF start, open_listen, open_accept, open_done, kernelVars, HandlesInv,
     Active
<1>3. CASE open_cancel \/ open_close \/ stop
  BY <1>3 DEF open_cancel, open_close, stop, HandlesInv, Active
<1>4. CASE UNCHANGED <<accept_, made>> /\ UNCHANGED adminVars
  BY <1>4 DEF adminVars, HandlesInv, Active
<1>5. QED
  BY <1>1, <1>2, <1>3, <1>4 DEF Next, OpenStep, HandlerStep, client_connect,
     complete_accept, handle_accept, handle_accept_open, handle_accept_reissue,
     handle_accept_notify, connection_close, kernelVars

LEMMA MadeStep ==
  ASSUME IInv, Next
  PROVE  MadeInv'
<1> USE DEF IInv
<1>1. handle_' <= made' /\ accept_' <= made' /\ \A s \in listening' : s <= made'
  <2>1. CASE open_socket
    BY <2>1, ControlTypes DEF open_socket, MadeInv
  <2>2. CASE made' = made /\ accept_' = accept_ /\ handle_' \in {handle_, INVALID}
             /\ listening' \subseteq listening \cup {handle_}
    BY <2>2, ControlTypes DEF MadeInv
  <2>3. CASE stop
    <3>1. made' = made /\ handle_' = handle_ /\ accept_' = INVALID
          /\ listening' \subseteq listening
      BY <2>3 DEF stop
    <3>2. QED
      BY <3>1, ControlTypes DEF MadeInv
  <2>4. QED
    BY <2>1, <2>2, <2>3 DEF Next, OpenStep, HandlerStep, start, open_listen,
     open_accept, open_done, open_cancel, open_close, client_connect,
     complete_accept, handle_accept, handle_accept_open, handle_accept_reissue,
     handle_accept_notify, connection_close, kernelVars, adminVars
<1>2. \A d \in Dispatcher : result'[d].socket <= made'
  <2>1. made \in Nat /\ made' \in {made, made + 1}
    BY ControlTypes DEF Next, OpenStep, HandlerStep, start, open_socket, open_listen,
     open_accept, open_done, open_cancel, open_close, stop, client_connect,
     complete_accept, handle_accept, handle_accept_open, handle_accept_reissue,
     handle_accept_notify, connection_close,
       kernelVars
  <2>2. \A d \in Dispatcher : \/ result'[d] = result[d]
                              \/ results # <<>> /\ result'[d] = Head(results)
                              \/ result'[d] = NoResult
    BY ControlTypes DEF Next, OpenStep, HandlerStep, start, open_socket, open_listen,
     open_accept, open_done, open_cancel, open_close, stop, client_connect,
     complete_accept, handle_accept, handle_accept_open, handle_accept_reissue,
     handle_accept_notify, connection_close,
       dispVars
  <2>3. results # <<>> => 1 \in DOMAIN results /\ Head(results) = results[1]
    <3>1. results \in Seq(Completion)
      BY DEF TypeOK
    <3>2. QED
      BY <3>1
  <2>4. results # <<>> => Head(results).socket \in Nat /\ Head(results).socket <= made
    <3>1. results # <<>> => Head(results) \in Completion
      BY DEF TypeOK
    <3>2. QED
      BY <2>3, <3>1, ControlTypes DEF MadeInv, Completion
  <2>5. NoResult.socket = 0
    BY DEF NoResult, INVALID
  <2>6. \A d \in Dispatcher : result'[d].socket \in Nat /\ result'[d].socket <= made
    BY <2>1, <2>2, <2>4, <2>5, ControlTypes DEF MadeInv
  <2>7. QED
    BY <2>1, <2>6
<1>3. QED
  BY <1>1, <1>2, QueueStep DEF MadeInv

\* A new socket has no completions yet.
LEMMA DispatchStep ==
  ASSUME IInv, Next
  PROVE  DispatchInv'
<1> USE DEF IInv
<1>1. CASE open_socket
  <2>1. accept_' = made + 1 /\ UNCHANGED <<dpc, result, listen>>
    BY <1>1 DEF open_socket, dispVars
  <2>2. \A d \in Dispatcher : result[d].socket # made + 1
    BY ControlTypes DEF MadeInv
  <2>3. QED
    BY <2>1, <2>2 DEF DispatchInv
<1>2. ASSUME NEW d \in Dispatcher, handle_accept(d) PROVE DispatchInv'
  <2>1. /\ results # <<>> /\ dpc' = [dpc EXCEPT ![d] = "open"]
        /\ result' = [result EXCEPT ![d] = Head(results)]
        /\ listen' = [listen EXCEPT ![d] = handle_]
        /\ UNCHANGED <<isListening_, apc, handle_, accept_>>
    BY <1>2 DEF handle_accept, Goto, adminVars
  <2>2. Head(results) \in Completion
    BY <2>1 DEF TypeOK
  <2>3. Active => handle_ # INVALID
    BY ControlTypes DEF HandlesInv
  <2>4. QED
    BY <2>1, <2>2, <2>3, ControlTypes DEF DispatchInv, Active
<1>3. ASSUME NEW d \in Dispatcher, HandlerStep(d) PROVE DispatchInv'
  BY <1>3, ControlTypes DEF HandlerStep, handle_accept_open, handle_accept_reissue,
     handle_accept_notify, Goto, adminVars, kernelVars, DispatchInv, Active
<1>4. CASE UNCHANGED dispVars /\ UNCHANGED accept_ /\ (Active' => Active)
  BY <1>4 DEF DispatchInv, dispVars
<1>5. CASE stop
  <2>1. UNCHANGED dispVars /\ ~Active'
    BY <1>5 DEF stop, Active
  <2>2. QED
    BY <2>1 DEF DispatchInv, dispVars
<1>6. CASE start \/ open_listen \/ open_accept \/ open_done \/ open_cancel
           \/ open_close
  <2>1. UNCHANGED dispVars /\ UNCHANGED accept_
    BY <1>6 DEF start, open_listen, open_accept, open_done, open_cancel,
       open_close, kernelVars
  <2>2. Active' => Active
    BY <1>6 DEF start, open_listen, open_accept, open_done, open_cancel,
       open_close, Active
  <2>3. QED
    BY <1>4, <2>1, <2>2
<1>7. ASSUME UNCHANGED dispVars, UNCHANGED accept_, UNCHANGED adminVars
      PROVE  DispatchInv'
  BY <1>4, <1>7 DEF adminVars, Active
<1>8. ASSUME NEW c \in Client, client_connect(c) PROVE DispatchInv'
  BY <1>7, <1>8 DEF client_connect, kernelVars
<1>9. ASSUME NEW s \in Socket, complete_accept(s) PROVE DispatchInv'
  BY <1>7, <1>9 DEF complete_accept
<1>10. ASSUME NEW d \in Dispatcher, NEW c \in Client, connection_close(d, c)
       PROVE  DispatchInv'
  BY <1>7, <1>10 DEF connection_close, kernelVars
<1>11. QED
  BY <1>1, <1>2, <1>3, <1>5, <1>6, <1>8, <1>9, <1>10 DEF Next, OpenStep

LEMMA TypeStep ==
  ASSUME IInv, Next
  PROVE  TypeOK'
<1> USE DEF IInv
<1>1. /\ isListening_' \in BOOLEAN
      /\ apc' \in {"idle", "socket", "listen", "accept", "cancel", "close"}
  BY ControlTypes DEF Next, OpenStep, HandlerStep, start, open_socket, open_listen,
     open_accept, open_done, open_cancel, open_close, stop, client_connect,
     complete_accept, handle_accept, handle_accept_open, handle_accept_reissue,
     handle_accept_notify, connection_close,
     adminVars
<1>2. made' = made \/ (made < MaxStarts /\ made' = made + 1)
  <2>1. apc = "socket" => made < MaxStarts
    BY DEF HandlesInv
  <2>2. QED
    BY <2>1 DEF Next, OpenStep, HandlerStep, start, open_socket, open_listen,
     open_accept, open_done, open_cancel, open_close, stop, client_connect,
     complete_accept, handle_accept, handle_accept_open, handle_accept_reissue,
     handle_accept_notify, connection_close,
     kernelVars
<1>3. /\ handle_' \in Socket \cup {INVALID} /\ accept_' \in Socket \cup {INVALID}
      /\ made' \in 0..MaxStarts /\ listening' \subseteq Socket
  <2>1. /\ handle_' \in {handle_, INVALID} \/ (apc = "socket" /\ handle_' = made + 1)
        /\ accept_' \in {accept_, INVALID} \/ (apc = "socket" /\ accept_' = made + 1)
    BY DEF Next, OpenStep, HandlerStep, start, open_socket, open_listen,
     open_accept, open_done, open_cancel, open_close, stop, client_connect,
     complete_accept, handle_accept, handle_accept_open, handle_accept_reissue,
     handle_accept_notify, connection_close,
     kernelVars, adminVars
  <2>2. \/ listening' \subseteq listening
        \/ apc = "listen" /\ listening' = listening \cup {handle_}
    BY DEF Next, OpenStep, HandlerStep, start, open_socket, open_listen,
     open_accept, open_done, open_cancel, open_close, stop, client_connect,
     complete_accept, handle_accept, handle_accept_open, handle_accept_reissue,
     handle_accept_notify, connection_close,
     kernelVars
  <2>3. apc = "socket" => made + 1 \in Socket
    BY ControlTypes, ListenerAssumption DEF HandlesInv, Socket
  <2>4. apc = "listen" => handle_ \in Socket
    BY DEF HandlesInv, Active
  <2>5. /\ handle_ \in Socket \cup {INVALID} /\ accept_ \in Socket \cup {INVALID}
        /\ made \in 0..MaxStarts /\ listening \subseteq Socket
    BY DEF TypeOK
  <2>6. handle_' \in Socket \cup {INVALID} /\ accept_' \in Socket \cup {INVALID}
    BY <2>1, <2>3, <2>5
  <2>7. listening' \subseteq Socket
    BY <2>2, <2>4, <2>5
  <2>8. made' \in 0..MaxStarts
    BY <1>2, <2>5, ListenerAssumption
  <2>9. QED
    BY <2>6, <2>7, <2>8
<1>4. pending' \in [Socket -> Nat] /\ faults' \in 0..MaxFaults
  <2>1. /\ pending \in [Socket -> Nat]
        /\ faults \in 0..MaxFaults /\ MaxFaults \in Nat
    BY ListenerAssumption DEF TypeOK
  <2>2. ASSUME NEW ok \in BOOLEAN, Accept(ok)
        PROVE  pending' \in [Socket -> Nat] /\ faults' \in 0..MaxFaults
    BY <2>2, AcceptCounts
  <2>3. ASSUME NEW s \in Socket, complete_accept(s)
        PROVE  pending' \in [Socket -> Nat] /\ faults' \in 0..MaxFaults
    BY <2>1, <2>3 DEF complete_accept, Fault
  <2>4. CASE UNCHANGED pending /\ (UNCHANGED faults \/ Fault)
    BY <2>1, <2>4 DEF Fault
  <2>5. ASSUME NEW s, pending' = [pending EXCEPT ![s] = 0], UNCHANGED faults
        PROVE  pending' \in [Socket -> Nat] /\ faults' \in 0..MaxFaults
    BY <2>1, <2>5
  <2>6. QED
    BY <2>2, <2>3, <2>4, <2>5 DEF Next, OpenStep, HandlerStep, start, open_socket,
       open_listen, open_accept, open_done, open_cancel, open_close, stop,
       client_connect, handle_accept, handle_accept_open, handle_accept_reissue,
       handle_accept_notify, connection_close, kernelVars
<1>5. client' \in [Client -> {"away", "waiting", "accepted", "open", "closed"}]
  <2>1. client \in [Client -> {"away", "waiting", "accepted", "open", "closed"}]
    BY DEF TypeOK
  <2>2. QED
    BY <2>1 DEF Next, OpenStep, HandlerStep, start, open_socket, open_listen,
     open_accept, open_done, open_cancel, open_close, stop, client_connect,
     complete_accept, handle_accept, handle_accept_open, handle_accept_reissue,
     handle_accept_notify, connection_close,
       clientVars, Refused
<1>6. at' \in [Client -> Socket \cup {INVALID}]
  BY ControlTypes DEF TypeOK, Next, OpenStep, HandlerStep, start, open_socket, open_listen,
     open_accept, open_done, open_cancel, open_close, stop, client_connect,
     complete_accept, handle_accept, handle_accept_open, handle_accept_reissue,
     handle_accept_notify, connection_close,
     clientVars
<1>7. started' \in 0..Backlog
  <2>1. started \in 0..Backlog /\ Backlog \in Nat
    BY ListenerAssumption DEF TypeOK
  <2>2. started' \in {started, 0} \/ (started < Backlog /\ started' = started + 1)
    BY DEF Next, OpenStep, HandlerStep, start, open_socket, open_listen,
     open_accept, open_done, open_cancel, open_close, stop, client_connect,
     complete_accept, handle_accept, handle_accept_open, handle_accept_reissue,
     handle_accept_notify, connection_close,
       adminVars
  <2>3. QED
    BY <2>1, <2>2
<1>8. dpc' \in [Dispatcher -> {"idle", "open", "reissue", "notify"}]
  <2>1. \/ dpc' = dpc
        \/ \E d \in Dispatcher, p \in {"idle", "open", "reissue", "notify"} :
             dpc' = [dpc EXCEPT ![d] = p]
    BY DEF Next, OpenStep, HandlerStep, start, open_socket, open_listen,
     open_accept, open_done, open_cancel, open_close, stop, client_connect,
     complete_accept, handle_accept, handle_accept_open, handle_accept_reissue,
     handle_accept_notify, connection_close,
     Goto, dispVars
  <2>2. dpc \in [Dispatcher -> {"idle", "open", "reissue", "notify"}]
    BY DEF TypeOK
  <2>3. QED
    BY <2>1, <2>2
<1>9. /\ listen' \in [Dispatcher -> Socket \cup {INVALID}]
      /\ result' \in [Dispatcher -> Completion \cup {NoResult}]
  <2>1. \/ listen' = listen
        \/ \E d \in Dispatcher : \/ listen' = [listen EXCEPT ![d] = handle_]
                                 \/ listen' = [listen EXCEPT ![d] = INVALID]
    BY DEF Next, OpenStep, HandlerStep, start, open_socket, open_listen,
     open_accept, open_done, open_cancel, open_close, stop, client_connect,
     complete_accept, handle_accept, handle_accept_open, handle_accept_reissue,
     handle_accept_notify, connection_close,
     dispVars
  <2>2. \/ result' = result
        \/ \E d \in Dispatcher :
             \/ results # <<>> /\ result' = [result EXCEPT ![d] = Head(results)]
             \/ result' = [result EXCEPT ![d] = NoResult]
    BY DEF Next, OpenStep, HandlerStep, start, open_socket, open_listen,
     open_accept, open_done, open_cancel, open_close, stop, client_connect,
     complete_accept, handle_accept, handle_accept_open, handle_accept_reissue,
     handle_accept_notify, connection_close,
     dispVars
  <2>3. /\ listen \in [Dispatcher -> Socket \cup {INVALID}]
        /\ result \in [Dispatcher -> Completion \cup {NoResult}]
        /\ handle_ \in Socket \cup {INVALID}
        /\ results # <<>> => Head(results) \in Completion
    BY DEF TypeOK
  <2>4. listen' \in [Dispatcher -> Socket \cup {INVALID}]
    BY <2>1, <2>3
  <2>5. result' \in [Dispatcher -> Completion \cup {NoResult}]
    BY <2>2, <2>3
  <2>6. QED
    BY <2>4, <2>5
<1>10. error' \in [Dispatcher -> BOOLEAN]
  <2>1. error \in [Dispatcher -> BOOLEAN]
    BY DEF TypeOK
  <2>2. QED
    BY <2>1 DEF Next, OpenStep, HandlerStep, start, open_socket, open_listen,
     open_accept, open_done, open_cancel, open_close, stop, client_connect,
     complete_accept, handle_accept, handle_accept_open, handle_accept_reissue,
     handle_accept_notify, connection_close,
       dispVars
<1>11. lost' \in [Socket -> Nat]
  <2>1. lost \in [Socket -> Nat]
    BY DEF TypeOK
  <2>2. lost' = lost \/ \E s : lost' = [lost EXCEPT ![s] = @ + 1]
    BY DEF Next, OpenStep, HandlerStep, start, open_socket, open_listen,
     open_accept, open_done, open_cancel, open_close, stop, client_connect,
     complete_accept, handle_accept, handle_accept_open, handle_accept_reissue,
     handle_accept_notify, connection_close
  <2>3. QED
    BY <2>1, <2>2
<1>12. failed' \subseteq Client
  <2>1. failed \subseteq Client
    BY DEF TypeOK
  <2>2. ASSUME NEW d \in Dispatcher, handle_accept_open(d) PROVE failed' \subseteq Client
    <3>1. result[d] \in Completion
      BY <2>2 DEF handle_accept_open, DispatchInv
    <3>2. result[d].client \in Client \cup {None}
      BY <3>1 DEF Completion
    <3>3. QED
      BY <2>1, <2>2, <3>2 DEF handle_accept_open
  <2>3. QED
    BY <2>1, <2>2 DEF Next, OpenStep, HandlerStep, start, open_socket,
       open_listen, open_accept, open_done, open_cancel, open_close, stop,
       client_connect, complete_accept, handle_accept, handle_accept_reissue,
       handle_accept_notify, connection_close
<1>13. QED
  BY <1>1, <1>2, <1>3, <1>4, <1>5, <1>6, <1>7, <1>8, <1>9, <1>10, <1>11, <1>12,
     QueueStep DEF TypeOK
-----------------------------------------------------------------------------
(* The theorems.                                                            *)

LEMMA NextInv == IInv /\ [Next]_vars => IInv'
<1> SUFFICES ASSUME IInv, [Next]_vars PROVE IInv'
  OBVIOUS
<1>1. CASE Next
  BY <1>1, TypeStep, HandlesStep, MadeStep, DispatchStep, PoolStep, SocketsStep
     DEF IInv
<1>2. CASE UNCHANGED vars
  BY <1>2 DEF IInv, vars, kernelVars, clientVars, adminVars, dispVars, TypeOK,
     HandlesInv, MadeInv, DispatchInv, PoolInv, PoolKept, SocketsOwned, Active,
     Operations, Completed, Reissuing, Carriers, Accepted, Serving
<1>3. QED
  BY <1>1, <1>2

\* The invariant holds throughout.
THEOREM Invariance == Spec => []IInv
BY InitInv, NextInv, PTL DEF Spec

\* Handles, completions and the numbers of operations have their types.
THEOREM TypeCorrect == Spec => []TypeOK
BY Invariance, PTL DEF IInv

\* A listener that listens has all the accept operations it began with, but for
\* those accept() could not start: whatever the order of completions, errors,
\* stop() and start().
THEOREM PoolIsKept == Spec => []PoolKept
BY Invariance, PTL DEF IInv, PoolInv

\* Every socket the kernel has accepted is in the hands of exactly one completion
\* or dispatcher, until a handler owns it or it is closed.
THEOREM SocketsHaveOneOwner == Spec => []SocketsOwned
BY Invariance, PTL DEF IInv
=============================================================================
