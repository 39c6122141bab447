---------------------- MODULE BitTorrentSessionProofs ----------------------
(***************************************************************************)
(* Proofs about BitTorrentSession for any finite sets of connections,      *)
(* peers, pieces and blocks, whatever the peers have.                      *)
(***************************************************************************)
EXTENDS BitTorrentSession, FiniteSetTheorems, TLAPS

-----------------------------------------------------------------------------
(* Counting.                                                                *)

\* The places of the queues q of the connections in S.
Places(q, S) == UNION {{c} \X DOMAIN q[c] : c \in S}

LEMMA PlacesMember ==
  ASSUME NEW T, NEW S, NEW q, \A c \in S : q[c] \in Seq(T)
  PROVE  \A x : x \in Places(q, S) <=>
                  \E c \in S : \E k \in 1..Len(q[c]) : x = <<c, k>>
BY DEF Places

LEMMA PlacesFinite ==
  ASSUME NEW T, NEW S, IsFiniteSet(S), NEW q, \A c \in S : q[c] \in Seq(T)
  PROVE  IsFiniteSet(Places(q, S)) /\ Cardinality(Places(q, S)) \in Nat
<1> DEFINE f == [c \in S |-> {c} \X DOMAIN q[c]]
           U == {{c} \X DOMAIN q[c] : c \in S}
<1>1. f \in Surjection(S, U)
  BY DEF Surjection
<1>2. IsFiniteSet(U)
  <2> HIDE DEF f, U
  <2>1. QED
    BY <1>1, FS_Surjection
<1>3. ASSUME NEW u \in U PROVE IsFiniteSet(u)
  <2>1. PICK c \in S : u = {c} \X DOMAIN q[c]
    BY <1>3
  <2>2. DOMAIN q[c] = 1..Len(q[c]) /\ Len(q[c]) \in Nat
    OBVIOUS
  <2>3. IsFiniteSet(1..Len(q[c]))
    BY <2>2, FS_Interval
  <2>4. IsFiniteSet({c})
    BY FS_Singleton
  <2>5. QED
    BY <2>1, <2>2, <2>3, <2>4, FS_Product
<1>4. IsFiniteSet(UNION U)
  <2> HIDE DEF U
  <2>1. QED
    BY <1>2, <1>3, FS_UNION
<1>5. QED
  BY <1>4, FS_CardinalityType DEF Places

LEMMA PlacesSame ==
  ASSUME NEW S, NEW q, NEW r, \A c \in S : r[c] = q[c]
  PROVE  Places(r, S) = Places(q, S)
<1>1. \A c \in S : {c} \X DOMAIN r[c] = {c} \X DOMAIN q[c]
  OBVIOUS
<1>2. {{c} \X DOMAIN r[c] : c \in S} = {{c} \X DOMAIN q[c] : c \in S}
  BY <1>1
<1>3. QED
  BY <1>2 DEF Places

\* One entry more in one queue is one place more.
LEMMA PlacesGrow ==
  ASSUME NEW T, NEW S, IsFiniteSet(S), NEW q, NEW r, NEW c \in S,
         \A d \in S : q[d] \in Seq(T) /\ r[d] \in Seq(T),
         Len(r[c]) = Len(q[c]) + 1, \A d \in S \ {c} : r[d] = q[d]
  PROVE  Cardinality(Places(r, S)) = Cardinality(Places(q, S)) + 1
<1> DEFINE n == Len(q[c]) + 1
<1>1. Len(r[c]) = n /\ n \in Nat /\ Len(q[c]) = n - 1 /\ n > 0
  OBVIOUS
<1> HIDE DEF n
<1>2. <<c, n>> \notin Places(q, S)
  BY <1>1, PlacesMember
<1>3. Places(r, S) = Places(q, S) \cup {<<c, n>>}
  <2>1. ASSUME NEW y PROVE y \in Places(r, S) <=> y \in Places(q, S) \cup {<<c, n>>}
    <3>1. \A d \in S \ {c} : Len(r[d]) = Len(q[d])
      OBVIOUS
    <3>2. ASSUME NEW d \in S, NEW k \in 1..Len(r[d]), y = <<d, k>>
          PROVE  (\E e \in S : \E j \in 1..Len(q[e]) : y = <<e, j>>) \/ y = <<c, n>>
      <4>1. CASE d = c /\ k = n
        BY <3>2, <4>1
      <4>2. CASE ~(d = c /\ k = n)
        <5>1. k \in 1..Len(q[d])
          BY <1>1, <3>1, <3>2, <4>2
        <5>2. QED
          BY <3>2, <5>1
      <4>3. QED
        BY <4>1, <4>2
    <3>3. ASSUME NEW d \in S, NEW k \in 1..Len(q[d]), y = <<d, k>>
          PROVE  \E e \in S : \E j \in 1..Len(r[e]) : y = <<e, j>>
      <4>1. k \in 1..Len(r[d])
        BY <1>1, <3>1
      <4>2. QED
        BY <3>3, <4>1
    <3>4. n \in 1..Len(r[c])
      BY <1>1
    <3>5. (\E d \in S : \E k \in 1..Len(r[d]) : y = <<d, k>>)
            <=> (\E d \in S : \E k \in 1..Len(q[d]) : y = <<d, k>>) \/ y = <<c, n>>
      BY <3>2, <3>3, <3>4
    <3>6. QED
      BY <3>5, PlacesMember
  <2>2. QED
    BY <2>1
<1>4. QED
  BY <1>2, <1>3, PlacesFinite, FS_AddElement

LEMMA Upto ==
  ASSUME NEW n \in Nat
  PROVE  IsFiniteSet(1..n) /\ Cardinality(1..n) = n
BY FS_Interval

\* A queue is emptied.
LEMMA PlacesClear ==
  ASSUME NEW T, NEW S, IsFiniteSet(S), NEW c \in S,
         \A d \in S : pending[d] \in Seq(T) /\ pending'[d] \in Seq(T),
         NEW n \in Nat, Len(pending[c]) = n, Len(pending'[c]) = 0,
         \A d \in S \ {c} : pending'[d] = pending[d]
  PROVE  Cardinality(Places(pending, S)) = Cardinality(Places(pending', S)) + n
<1> DEFINE K == {c} \X (1..n)
<1>1. \A d \in S : pending'[d] \in Seq(T)
  OBVIOUS
<1>2. Cardinality(K) = n /\ IsFiniteSet(K)
  <2>1. IsFiniteSet({c}) /\ Cardinality({c}) = 1
    BY FS_Singleton
  <2>2. IsFiniteSet(1..n) /\ Cardinality(1..n) = n
    BY Upto
  <2>3. IsFiniteSet(K) /\ Cardinality(K) = Cardinality({c}) * Cardinality(1..n)
    BY <2>1, <2>2, FS_Product
  <2>4. QED
    BY <2>1, <2>2, <2>3
<1>3. Places(pending', S) \cap K = {} /\ Places(pending, S) = Places(pending', S) \cup K
  <2>1. ASSUME NEW y
        PROVE  /\ y \in Places(pending, S) <=> y \in Places(pending', S) \/ y \in K
               /\ ~(y \in Places(pending', S) /\ y \in K)
    <3>1. y \in K <=> \E k \in 1..n : y = <<c, k>>
      OBVIOUS
    <3> HIDE DEF K
    <3>2. y \in Places(pending, S) <=> \E d \in S : \E k \in 1..Len(pending[d]) : y = <<d, k>>
      BY PlacesMember
    <3>3. y \in Places(pending', S) <=> \E d \in S : \E k \in 1..Len(pending'[d]) : y = <<d, k>>
      BY <1>1, PlacesMember
    <3>4. /\ \A k : ~(k \in 1..Len(pending'[c]))
          /\ \A d \in S \ {c} : Len(pending'[d]) = Len(pending[d])
      OBVIOUS
    <3>5. y \in Places(pending', S) <=> \E d \in S \ {c} : \E k \in 1..Len(pending[d]) : y = <<d, k>>
      BY <3>3, <3>4
    <3>6. QED
      BY <3>1, <3>2, <3>5
  <2> HIDE DEF K
  <2>2. QED
    BY <2>1
<1>4. IsFiniteSet(Places(pending', S)) /\ Cardinality(Places(pending', S)) \in Nat
  BY <1>1, PlacesFinite
<1> HIDE DEF K
<1>5. Cardinality(Places(pending', S) \cup K)
       = Cardinality(Places(pending', S)) + Cardinality(K) - Cardinality({})
  BY <1>2, <1>3, <1>4, FS_Union
<1>6. QED
  BY <1>2, <1>3, <1>4, <1>5, FS_EmptySet

\* Queues that are empty have no places.
LEMMA PlacesNone ==
  ASSUME NEW T, NEW S, NEW q, \A c \in S : q[c] = <<>>
  PROVE  Cardinality(Places(q, S)) = 0
<1>1. \A c \in S : DOMAIN q[c] = {}
  OBVIOUS
<1>2. Places(q, S) = {}
  BY <1>1 DEF Places
<1>3. QED
  BY <1>2, FS_EmptySet

\* There are at least as many places as queues that are not empty.
LEMMA PlacesMany ==
  ASSUME NEW T, NEW S, IsFiniteSet(S), NEW q, \A c \in S : q[c] \in Seq(T),
         NEW N \in SUBSET S, \A c \in N : q[c] # <<>>
  PROVE  Cardinality(N) <= Cardinality(Places(q, S)) /\ Cardinality(N) \in Nat
<1> DEFINE f == [c \in N |-> <<c, 1>>]
<1>1. \A c \in N : 1 \in 1..Len(q[c])
  OBVIOUS
<1>2. \A c \in N : <<c, 1>> \in Places(q, S)
  BY <1>1, PlacesMember
<1>3. f \in Injection(N, Places(q, S))
  BY <1>2 DEF Injection, IsInjective
<1>4. IsFiniteSet(N)
  BY FS_Subset
<1> HIDE DEF f
<1>5. QED
  BY <1>3, <1>4, PlacesFinite, FS_Injection, FS_CardinalityType

\* Sets of connections are finite.
LEMMA Finite ==
  ASSUME NEW X \in SUBSET Connection
  PROVE  IsFiniteSet(X) /\ Cardinality(X) \in Nat
BY BitTorrentAssumption, FS_Subset, FS_CardinalityType

LEMMA OneMore ==
  ASSUME NEW X \in SUBSET Connection, NEW Y \in SUBSET Connection,
         NEW c \in Y, c \notin X, \A d : d # c => (d \in X <=> d \in Y)
  PROVE  Cardinality(Y) = Cardinality(X) + 1
<1>1. Y = X \cup {c}
  OBVIOUS
<1>2. QED
  BY <1>1, Finite, FS_AddElement
-----------------------------------------------------------------------------
(* What a step does to the control states.                                  *)

\* A thread at one of these is between connect_state() and the end of its
\* session.
Served == {"idle"} \cup NotifyPc
            \cup {"populate", "handshake", "bitfield", "send_bitfield"}

\* The steps of such a thread that neither make nor end a connection.
Serve(c) ==
  \/ populatePeerPiecesBitfield(c) \/ connect_handshake(c)
  \/ connect_bitfield(c) \/ connect_send_bitfield(c)
  \/ requestNextPiece(c) \/ request(c) \/ count(c)
  \/ send_not_interested(c) \/ send_interested(c) \/ notify_have_test(c)
  \/ have(c) \/ notify_piece_count(c) \/ notify_complete(c)
  \/ notify_unchoke(c) \/ notify_bitfield(c)
  \/ \E i \in Piece : notify_have(c, i)
  \/ \E data \in {"good", "bad"} : notify_piece(c, data)

\* Steps that move no thread.
Still(c) == notify_choke(c) \/ remote_choke(c) \/ remote_unchoke(c)

LEMMA Cases ==
  ASSUME Next
  PROVE  \/ setup_done
         \/ \E c \in Connection :
              \/ setup_connect(c) \/ connect_inherited(c) \/ connect_state(c)
              \/ disconnect_inherited(c) \/ disconnect_state(c)
              \/ disconnect_notify(c) \/ notify_have_connect(c)
              \/ Serve(c) \/ Still(c)
BY Zenon DEF Next, Setup, Thread, Message, Serve, Still

\* Every block the session stores belongs to a piece it has asked for, and a
\* piece is saved once; it never keeps all the blocks of a piece.
LEMMA Stored ==
  ASSUME IInv, NEW c \in Connection, NEW data \in {"good", "bad"},
         notify_piece(c, data)
  PROVE  \E i \in Piece : \E now \in [Block -> {"none", "good", "bad"}] :
         \E isSaved \in BOOLEAN :
           /\ Store(c, i, now, isSaved)
           /\ isSaved => i \notin saved
           /\ \E b \in Block : now[b] = "none"
<1> USE DEF IInv
<1> DEFINE i == Head(pending[c])[1]
           b == Head(pending[c])[2]
<1>1. pending[c] # <<>> /\ pending[c] \in Seq(Piece \X Block)
  BY DEF notify_piece, Answer, TypeOK
<1>2. i \in Piece /\ b \in Block
  <2>1. Head(pending[c]) \in Piece \X Block
    BY <1>1
  <2>2. QED
    BY <2>1
<1>3. chunks \in [Piece -> [Block -> {"none", "good", "bad"}]]
  BY DEF TypeOK
<1>4. \E e \in Block : chunks[i][e] = "none"
  BY <1>2 DEF ChunksInv, isPieceComplete
<1>5. Absent \in [Block -> {"none", "good", "bad"}] /\ \E e \in Block : Absent[e] = "none"
  BY BitTorrentAssumption DEF Absent
<1>6. CASE i \in saved
  <2>1. Store(c, i, chunks[i], FALSE)
    BY <1>6 DEF notify_piece
  <2>2. chunks[i] \in [Block -> {"none", "good", "bad"}]
    BY <1>2, <1>3
  <2> HIDE DEF i, b
  <2>3. QED
    BY <1>2, <1>4, <2>1, <2>2
<1>7. CASE i \notin saved
  <2>1. PICK now \in Add(i, b, data) :
          CASE \E e \in Block : now[e] = "none" -> Store(c, i, now, FALSE)
            [] validatePieceHash(now) -> Store(c, i, Absent, TRUE)
            [] OTHER                  -> Store(c, i, Absent, FALSE)
    <3>1. ~isPieceComplete(i)
      BY <1>2 DEF ChunksInv
    <3>2. QED
      BY <1>7, <3>1 DEF notify_piece
  <2>2. now \in [Block -> {"none", "good", "bad"}]
    BY <1>2, <1>3 DEF Add
  <2> HIDE DEF i, b
  <2>3. validatePieceHash(now) => ~\E e \in Block : now[e] = "none"
    BY DEF validatePieceHash
  <2>4. \/ Store(c, i, now, FALSE) /\ \E e \in Block : now[e] = "none"
        \/ Store(c, i, Absent, TRUE)
        \/ Store(c, i, Absent, FALSE)
    BY <2>1, <2>3
  <2>5. QED
    BY <1>2, <1>5, <1>7, <2>2, <2>4
<1>8. QED
  BY <1>6, <1>7

\* What the other lemmas need to know of notify_piece().
LEMMA StoredFrame ==
  ASSUME IInv, NEW c \in Connection, NEW data \in {"good", "bad"},
         notify_piece(c, data)
  PROVE  /\ pc[c] = "idle" /\ pending[c] # <<>>
         /\ pending' = [pending EXCEPT ![c] = Tail(@)]
         /\ pc' \in {[pc EXCEPT ![c] = "have"], [pc EXCEPT ![c] = "piece_count"]}
         /\ UNCHANGED <<setupVars, stateVars, sentVars, eventVars, choking,
                        delivered, interested, heard, dropped>>
<1>1. PICK i \in Piece, now \in [Block -> {"none", "good", "bad"}],
           isSaved \in BOOLEAN : Store(c, i, now, isSaved)
  BY Stored
<1>2. Answer(c, data)
  BY DEF notify_piece
<1>3. QED
  BY <1>1, <1>2 DEF Store, Goto, Answer

\* A serving thread stays one, and no other thread moves.
LEMMA Serving ==
  ASSUME IInv, NEW c \in Connection, Serve(c)
  PROVE  /\ pc[c] \in Served
         /\ \E s \in Served : pc' = [pc EXCEPT ![c] = s]
         /\ UNCHANGED <<connecting, todo, connections, conns>>
<1> USE DEF Served, NotifyPc, setupVars, stateVars
<1>1. CASE populatePeerPiecesBitfield(c) \/ connect_handshake(c)
           \/ connect_bitfield(c) \/ connect_send_bitfield(c)
  BY <1>1 DEF populatePeerPiecesBitfield, connect_handshake, connect_bitfield,
     connect_send_bitfield, Goto, Return
<1>2. CASE requestNextPiece(c) \/ request(c) \/ count(c)
           \/ send_not_interested(c) \/ send_interested(c)
  BY <1>2 DEF requestNextPiece, request, count, send_not_interested,
     send_interested, Goto, Return
<1>3. CASE have(c) \/ notify_piece_count(c) \/ notify_complete(c)
  BY <1>3 DEF have, notify_piece_count, notify_complete, Goto, Return
<1>4. CASE notify_have_test(c) \/ notify_unchoke(c) \/ notify_bitfield(c)
  BY <1>4 DEF notify_have_test, notify_unchoke, notify_bitfield, Goto
<1>5. ASSUME NEW i \in Piece, notify_have(c, i)
      PROVE  /\ pc[c] \in Served
             /\ \E s \in Served : pc' = [pc EXCEPT ![c] = s]
             /\ UNCHANGED <<connecting, todo, connections, conns>>
  BY <1>5 DEF notify_have, Goto
<1>6. ASSUME NEW data \in {"good", "bad"}, notify_piece(c, data)
      PROVE  /\ pc[c] \in Served
             /\ \E s \in Served : pc' = [pc EXCEPT ![c] = s]
             /\ UNCHANGED <<connecting, todo, connections, conns>>
  BY <1>6, StoredFrame
<1>7. QED
  BY <1>1, <1>2, <1>3, <1>4, <1>5, <1>6 DEF Serve
-----------------------------------------------------------------------------
(* Who is connected.                                                        *)

\* The set of connections and those of each peer follow the control states.
LEMMA SameMembers ==
  ASSUME TypeOK, MembersInv, UNCHANGED <<connections, conns>>, todo' \subseteq todo,
         \A c \in Connection :
           /\ pc'[c] \in Away \cup LeavePc \cup {"connect"}
                <=> pc[c] \in Away \cup LeavePc \cup {"connect"}
           /\ pc'[c] \in Away \cup {"connect", "state", "no_more"}
                <=> pc[c] \in Away \cup {"connect", "state", "no_more"},
         \A c \in todo' : pc'[c] = pc[c]
  PROVE  MembersInv'
<1>1. connections' = {c \in Connection : pc'[c] \notin Away \cup LeavePc \cup {"connect"}}
  BY DEF MembersInv
<1>2. ASSUME NEW p \in Peer
      PROVE  conns'[p] = {c \in ConnectionsTo(p) :
                            pc'[c] \notin Away \cup {"connect", "state", "no_more"}}
  BY DEF MembersInv, ConnectionsTo
<1>3. \A c \in todo' : pc'[c] = "none"
  BY DEF MembersInv
<1>4. QED
  BY <1>1, <1>2, <1>3 DEF MembersInv, ConnectionsTo

LEMMA MembersStep ==
  ASSUME IInv, Next
  PROVE  MembersInv'
<1> USE DEF IInv
<1>1. /\ DOMAIN pc = Connection /\ DOMAIN conns = Peer /\ PeerOf \in [Connection -> Peer]
      /\ todo \subseteq Initial /\ Initial \subseteq Connection
  BY BitTorrentAssumption DEF TypeOK
<1>2. CASE setup_done
  BY <1>2, SameMembers DEF setup_done, stateVars
<1>3. ASSUME NEW c \in Connection, setup_connect(c) PROVE MembersInv'
  <2>1. /\ pc[c] = "none" /\ todo' = todo \ {c} /\ UNCHANGED <<connections, conns>>
        /\ pc' \in {[pc EXCEPT ![c] = "connect"], [pc EXCEPT ![c] = "closed"]}
    BY <1>3 DEF setup_connect, MembersInv, Goto, stateVars
  <2>2. QED
    BY <1>1, <2>1, SameMembers DEF Away, LeavePc
<1>4. ASSUME NEW c \in Connection, connect_inherited(c) PROVE MembersInv'
  <2>1. /\ pc[c] = "connect" /\ pc' = [pc EXCEPT ![c] = "state"]
        /\ connections' = connections \cup {c} /\ UNCHANGED <<todo, conns>>
    BY <1>4 DEF connect_inherited, Goto, setupVars
  <2>2. connections' = {d \in Connection : pc'[d] \notin Away \cup LeavePc \cup {"connect"}}
    BY <1>1, <2>1 DEF MembersInv, Away, LeavePc
  <2>3. \A p \in Peer :
          conns'[p] = {d \in ConnectionsTo(p) :
                         pc'[d] \notin Away \cup {"connect", "state", "no_more"}}
    BY <1>1, <2>1 DEF MembersInv, Away, ConnectionsTo
  <2>4. \A d \in todo' : pc'[d] = "none"
    BY <1>1, <2>1 DEF MembersInv
  <2>5. QED
    BY <2>2, <2>3, <2>4 DEF MembersInv, ConnectionsTo
<1>5. ASSUME NEW c \in Connection, connect_state(c) PROVE MembersInv'
  <2>1. /\ pc[c] = "state" /\ UNCHANGED <<todo, connections>>
        /\ pc' \in {[pc EXCEPT ![c] = "handshake"], [pc EXCEPT ![c] = "populate"]}
        /\ conns' = [conns EXCEPT ![PeerOf[c]] = @ \cup {c}]
    BY <1>5 DEF connect_state, Goto, setupVars
  <2>2. connections' = {d \in Connection : pc'[d] \notin Away \cup LeavePc \cup {"connect"}}
    BY <1>1, <2>1 DEF MembersInv, Away, LeavePc
  <2>3. ASSUME NEW p \in Peer
        PROVE  conns'[p] = {d \in ConnectionsTo(p) :
                              pc'[d] \notin Away \cup {"connect", "state", "no_more"}}
    <3>1. CASE p = PeerOf[c]
      BY <1>1, <2>1, <3>1 DEF MembersInv, Away, ConnectionsTo
    <3>2. CASE p # PeerOf[c]
      BY <1>1, <2>1, <3>2 DEF MembersInv, ConnectionsTo
    <3>3. QED
      BY <3>1, <3>2
  <2>4. \A d \in todo' : pc'[d] = "none"
    BY <1>1, <2>1 DEF MembersInv
  <2>5. QED
    BY <2>2, <2>3, <2>4 DEF MembersInv, ConnectionsTo
<1>6. ASSUME NEW c \in Connection, disconnect_inherited(c) PROVE MembersInv'
  <2>1. /\ pc[c] = "idle" /\ pc' = [pc EXCEPT ![c] = "disconnect"]
        /\ connections' = connections \ {c} /\ UNCHANGED <<todo, conns>>
    BY <1>6 DEF disconnect_inherited, Goto, setupVars
  <2>2. connections' = {d \in Connection : pc'[d] \notin Away \cup LeavePc \cup {"connect"}}
    BY <1>1, <2>1 DEF MembersInv, Away, LeavePc
  <2>3. \A p \in Peer :
          conns'[p] = {d \in ConnectionsTo(p) :
                         pc'[d] \notin Away \cup {"connect", "state", "no_more"}}
    BY <1>1, <2>1 DEF MembersInv, Away, ConnectionsTo
  <2>4. \A d \in todo' : pc'[d] = "none"
    BY <1>1, <2>1 DEF MembersInv
  <2>5. QED
    BY <2>2, <2>3, <2>4 DEF MembersInv, ConnectionsTo
<1>7. ASSUME NEW c \in Connection, disconnect_state(c) PROVE MembersInv'
  <2>1. /\ pc[c] = "disconnect" /\ UNCHANGED <<todo, connections>>
        /\ pc' \in {[pc EXCEPT ![c] = "no_more"], [pc EXCEPT ![c] = "closed"]}
        /\ conns' = [conns EXCEPT ![PeerOf[c]] = @ \ {c}]
    BY <1>7 DEF disconnect_state, Goto, setupVars
  <2>2. connections' = {d \in Connection : pc'[d] \notin Away \cup LeavePc \cup {"connect"}}
    BY <1>1, <2>1 DEF MembersInv, Away, LeavePc
  <2>3. ASSUME NEW p \in Peer
        PROVE  conns'[p] = {d \in ConnectionsTo(p) :
                              pc'[d] \notin Away \cup {"connect", "state", "no_more"}}
    <3>1. CASE p = PeerOf[c]
      BY <1>1, <2>1, <3>1 DEF MembersInv, Away, ConnectionsTo
    <3>2. CASE p # PeerOf[c]
      BY <1>1, <2>1, <3>2 DEF MembersInv, ConnectionsTo
    <3>3. QED
      BY <3>1, <3>2
  <2>4. \A d \in todo' : pc'[d] = "none"
    BY <1>1, <2>1 DEF MembersInv
  <2>5. QED
    BY <2>2, <2>3, <2>4 DEF MembersInv, ConnectionsTo
<1>8. ASSUME NEW c \in Connection, disconnect_notify(c) PROVE MembersInv'
  <2>1. /\ pc[c] = "no_more" /\ pc' = [pc EXCEPT ![c] = "closed"]
        /\ UNCHANGED <<todo, connections, conns>> /\ c \notin todo
    BY <1>8 DEF disconnect_notify, Goto, setupVars, stateVars, MembersInv
  <2>2. QED
    BY <1>1, <2>1, SameMembers DEF Away, LeavePc
<1>9. ASSUME NEW c \in Connection, notify_have_connect(c) PROVE MembersInv'
  <2>1. pc[c] = "have_connect" /\ UNCHANGED <<todo, connections, conns>> /\ c \notin todo
    BY <1>9 DEF notify_have_connect, setupVars, stateVars, MembersInv
  <2>2. ASSUME NEW d \in Connection \ Initial, pc[d] = "none",
               pc' = [pc EXCEPT ![c] = "idle", ![d] = "connect"]
        PROVE  MembersInv'
    BY <1>1, <2>1, <2>2, SameMembers DEF Away, LeavePc
  <2>3. CASE pc' = [pc EXCEPT ![c] = "idle"]
    BY <1>1, <2>1, <2>3, SameMembers DEF Away, LeavePc
  <2>4. QED
    BY <1>9, <2>2, <2>3 DEF notify_have_connect, Goto
<1>10. ASSUME NEW c \in Connection, Serve(c) PROVE MembersInv'
  <2>1. PICK s \in Served : pc' = [pc EXCEPT ![c] = s]
    BY <1>10, Serving
  <2>2. \A r \in Served : /\ r \notin Away \cup LeavePc \cup {"connect"}
                          /\ r \notin Away \cup {"connect", "state", "no_more"}
                          /\ r # "none"
    BY DEF Served, NotifyPc, Away, LeavePc
  <2>3. pc[c] \in Served /\ UNCHANGED <<todo, connections, conns>>
    BY <1>10, Serving
  <2>4. c \notin todo
    BY <2>2, <2>3 DEF MembersInv
  <2>5. QED
    BY <1>1, <2>1, <2>2, <2>3, <2>4, SameMembers
<1>11. ASSUME NEW c \in Connection, Still(c) PROVE MembersInv'
  <2>1. UNCHANGED <<pc, todo, connections, conns>>
    BY <1>11 DEF Still, notify_choke, remote_choke, remote_unchoke, setupVars,
       stateVars
  <2>2. QED
    BY <2>1, SameMembers
<1>12. QED
  BY <1>2, <1>3, <1>4, <1>5, <1>6, <1>7, <1>8, <1>9, <1>10, <1>11, Cases
-----------------------------------------------------------------------------
(* The pieces, and who announces them.                                      *)

\* Only notify_piece() changes the blocks and the pieces that are saved.
LEMMA SamePieces ==
  ASSUME Next, ~\E c \in Connection, data \in {"good", "bad"} : notify_piece(c, data)
  PROVE  UNCHANGED pieceVars
<1>1. CASE setup_done
  BY <1>1 DEF setup_done
<1>2. ASSUME NEW c \in Connection,
             \/ setup_connect(c) \/ connect_inherited(c) \/ connect_state(c)
             \/ disconnect_inherited(c) \/ disconnect_state(c)
             \/ disconnect_notify(c) \/ notify_have_connect(c)
      PROVE  UNCHANGED pieceVars
  BY <1>2 DEF setup_connect, connect_inherited, connect_state,
     disconnect_inherited, disconnect_state, disconnect_notify,
     notify_have_connect
<1>3. ASSUME NEW c \in Connection, Still(c) PROVE UNCHANGED pieceVars
  BY <1>3 DEF Still, notify_choke, remote_choke, remote_unchoke
<1>4. ASSUME NEW c \in Connection,
             \/ populatePeerPiecesBitfield(c) \/ connect_handshake(c)
             \/ connect_bitfield(c) \/ connect_send_bitfield(c)
             \/ requestNextPiece(c) \/ request(c) \/ count(c)
             \/ send_not_interested(c) \/ send_interested(c)
      PROVE  UNCHANGED pieceVars
  BY <1>4 DEF populatePeerPiecesBitfield, connect_handshake, connect_bitfield,
     connect_send_bitfield, requestNextPiece, request, count,
     send_not_interested, send_interested
<1>5. ASSUME NEW c \in Connection,
             \/ notify_have_test(c) \/ have(c) \/ notify_piece_count(c)
             \/ notify_complete(c) \/ notify_unchoke(c) \/ notify_bitfield(c)
             \/ \E i \in Piece : notify_have(c, i)
      PROVE  UNCHANGED pieceVars
  BY <1>5 DEF notify_have_test, have, notify_piece_count, notify_complete,
     notify_unchoke, notify_bitfield, notify_have
<1>6. QED
  BY <1>1, <1>2, <1>3, <1>4, <1>5, Cases DEF Serve

\* A complete piece is saved or forgotten in the step that completes it.
LEMMA ChunksStep ==
  ASSUME IInv, Next
  PROVE  ChunksInv'
<1> USE DEF IInv
<1>1. DOMAIN chunks = Piece
  BY DEF TypeOK
<1>2. ASSUME NEW c \in Connection, NEW data \in {"good", "bad"}, notify_piece(c, data)
      PROVE  ChunksInv'
  <2>1. PICK i \in Piece, now \in [Block -> {"none", "good", "bad"}],
             isSaved \in BOOLEAN :
               /\ Store(c, i, now, isSaved)
               /\ \E b \in Block : now[b] = "none"
    BY <1>2, Stored
  <2>2. chunks' = [chunks EXCEPT ![i] = now]
    BY <2>1 DEF Store
  <2>3. QED
    BY <1>1, <2>1, <2>2 DEF ChunksInv, isPieceComplete
<1>3. CASE UNCHANGED pieceVars
  BY <1>3 DEF ChunksInv, isPieceComplete, pieceVars
<1>4. QED
  BY <1>2, <1>3, SamePieces

\* In every step but one of notify_piece(), a thread that will complete the
\* download has been one before, and its event is raised when it ends.
LEMMA CompletingStep ==
  ASSUME IInv, Next, ~\E c \in Connection, data \in {"good", "bad"} : notify_piece(c, data)
  PROVE  \/ Completing' \subseteq Completing /\ UNCHANGED completions
         \/ \E c \in Completing : /\ Completing' \subseteq Completing \ {c}
                                  /\ completions' = completions + 1
<1> USE DEF IInv
<1>1. DOMAIN pc = Connection /\ DOMAIN local = Connection
  BY DEF TypeOK
<1>2. ASSUME NEW c \in Connection, notify_complete(c)
      PROVE  /\ c \in Completing /\ Completing' \subseteq Completing \ {c}
             /\ completions' = completions + 1
  BY <1>1, <1>2 DEF notify_complete, Return, Goto, Completing
<1>3. ASSUME NEW c \in Connection, notify_piece_count(c)
      PROVE  Completing' \subseteq Completing /\ UNCHANGED completions
  BY <1>1, <1>3 DEF notify_piece_count, Goto, Completing, eventVars
<1>4. ASSUME NEW c \in Connection, have(c)
      PROVE  Completing' \subseteq Completing /\ UNCHANGED completions
  BY <1>1, <1>4 DEF have, Goto, Completing, eventVars
<1>5. ASSUME NEW c \in Connection, NEW s, s \notin {"have", "piece_count", "complete"},
             pc' = [pc EXCEPT ![c] = s],
             \A d \in Connection \ {c} : local'[d] = local[d]
      PROVE  Completing' \subseteq Completing
  BY <1>1, <1>5 DEF Completing
<1>6. CASE UNCHANGED <<pc, local, completions>>
  BY <1>6 DEF Completing
<1>7. ASSUME NEW c \in Connection,
             \/ setup_connect(c) \/ connect_inherited(c) \/ connect_state(c)
             \/ disconnect_inherited(c) \/ disconnect_state(c)
             \/ disconnect_notify(c)
      PROVE  Completing' \subseteq Completing /\ UNCHANGED completions
  BY <1>5, <1>7 DEF setup_connect, connect_inherited, connect_state,
     disconnect_inherited, disconnect_state, disconnect_notify, Goto, eventVars
<1>8. ASSUME NEW c \in Connection, notify_have_connect(c)
      PROVE  Completing' \subseteq Completing /\ UNCHANGED completions
  BY <1>1, <1>8 DEF notify_have_connect, Goto, Completing, eventVars
<1>9. ASSUME NEW c \in Connection,
             \/ populatePeerPiecesBitfield(c) \/ connect_handshake(c)
             \/ connect_bitfield(c) \/ connect_send_bitfield(c)
             \/ requestNextPiece(c) \/ request(c) \/ count(c)
             \/ send_not_interested(c) \/ send_interested(c)
      PROVE  Completing' \subseteq Completing /\ UNCHANGED completions
  <2>1. /\ \E s : s \notin {"have", "piece_count", "complete"} /\ pc' = [pc EXCEPT ![c] = s]
        /\ UNCHANGED completions
    BY <1>9 DEF populatePeerPiecesBitfield, connect_handshake, connect_bitfield,
       connect_send_bitfield, requestNextPiece, request, count,
       send_not_interested, send_interested, Goto, Return, eventVars
  <2>2. \A d \in Connection \ {c} : local'[d] = local[d]
    BY <1>1, <1>9 DEF populatePeerPiecesBitfield, connect_handshake,
       connect_bitfield, connect_send_bitfield, requestNextPiece, request, count,
       send_not_interested, send_interested, Return
  <2>3. QED
    BY <1>5, <2>1, <2>2
<1>10. ASSUME NEW c \in Connection,
             \/ notify_have_test(c) \/ notify_unchoke(c) \/ notify_bitfield(c)
             \/ \E i \in Piece : notify_have(c, i)
      PROVE  Completing' \subseteq Completing /\ UNCHANGED completions
  <2>1. /\ \E s : s \notin {"have", "piece_count", "complete"} /\ pc' = [pc EXCEPT ![c] = s]
        /\ UNCHANGED completions
    BY <1>10 DEF notify_have_test, notify_unchoke, notify_bitfield, notify_have,
       Goto, eventVars
  <2>2. \A d \in Connection \ {c} : local'[d] = local[d]
    BY <1>1, <1>10 DEF notify_have_test, notify_unchoke, notify_bitfield, notify_have
  <2>3. QED
    BY <1>5, <2>1, <2>2
<1>11. ASSUME NEW c \in Connection, Still(c)
       PROVE  Completing' \subseteq Completing /\ UNCHANGED completions
  BY <1>6, <1>11 DEF Still, notify_choke, remote_choke, remote_unchoke, eventVars
<1>12. CASE setup_done
  BY <1>6, <1>12 DEF setup_done, eventVars
<1>13. QED
  BY <1>2, <1>3, <1>4, <1>7, <1>8, <1>9, <1>10, <1>11, <1>12, Cases DEF Serve

LEMMA CompleteStep ==
  ASSUME IInv, Next
  PROVE  CompleteInv'
<1> USE DEF IInv
<1>1. ASSUME NEW c \in Connection, NEW data \in {"good", "bad"}, notify_piece(c, data)
      PROVE  CompleteInv'
  <2>1. PICK i \in Piece, now \in [Block -> {"none", "good", "bad"}],
             isSaved \in BOOLEAN :
               Store(c, i, now, isSaved) /\ (isSaved => i \notin saved)
    BY <1>1, Stored
  <2>2. UNCHANGED completions /\ pc[c] = "idle"
    BY <1>1, StoredFrame DEF eventVars
  <2> DEFINE complete == isSaved /\ \A j \in Piece \ {i} :
                                      j \in saved \/ isPieceComplete(j)
  <2>3. DOMAIN pc = Connection /\ DOMAIN local = Connection /\ saved \subseteq Piece
    BY DEF TypeOK
  <2>4. /\ \A d \in Connection \ {c} : pc'[d] = pc[d] /\ local'[d] = local[d]
        /\ pc'[c] \in {"have", "piece_count"}
        /\ local'[c].then = "complete" => complete
    <3>1. local'[c] = [Fresh EXCEPT !.index = i,
                         !.then = CASE complete -> "complete"
                                    [] ~peer[PeerOf[c]].am_choking /\ ~complete -> "next"
                                    [] OTHER -> "none"]
      BY <2>1, <2>3 DEF Store
    <3>2. local'[c].then = CASE complete -> "complete"
                             [] ~peer[PeerOf[c]].am_choking /\ ~complete -> "next"
                             [] OTHER -> "none"
      BY <3>1 DEF Fresh
    <3>3. local'[c].then = "complete" => complete
      <4> HIDE DEF complete
      <4>1. QED
        BY <3>2
    <3>4. QED
      BY <2>1, <2>3, <3>3 DEF Store, Goto
  <2>5. Completing' \subseteq Completing \cup {c} /\ c \notin Completing
    BY <2>2, <2>4 DEF Completing
  <2>6. saved \subseteq saved' /\ saved' \subseteq Piece
    BY <2>1, <2>3 DEF Store
  <2>7. CASE ~complete
    <3>1. Completing' \subseteq Completing
      BY <2>2, <2>4, <2>5, <2>7 DEF Completing
    <3>2. QED
      BY <2>2, <2>6, <3>1 DEF CompleteInv
  <2>8. CASE complete
    <3>1. saved' = Piece
      BY <2>1, <2>3, <2>8 DEF Store, ChunksInv
    <3>2. saved # Piece
      BY <2>1, <2>8
    <3>3. Completing = {} /\ completions = 0
      BY <3>2 DEF CompleteInv
    <3>4. QED
      BY <2>2, <2>5, <3>1, <3>3 DEF CompleteInv
  <2>9. QED
    BY <2>7, <2>8
<1>2. CASE ~\E c \in Connection, data \in {"good", "bad"} : notify_piece(c, data)
  <2>1. saved' = saved
    BY <1>2, SamePieces DEF pieceVars
  <2>2. CASE Completing' \subseteq Completing /\ UNCHANGED completions
    BY <2>1, <2>2 DEF CompleteInv
  <2>3. ASSUME NEW c \in Completing, Completing' \subseteq Completing \ {c},
               completions' = completions + 1
        PROVE  CompleteInv'
    <3>1. completions = 0 /\ Completing = {c} /\ saved = Piece
      BY DEF CompleteInv
    <3>2. QED
      BY <2>1, <2>3, <3>1 DEF CompleteInv
  <2>4. QED
    BY <1>2, <2>2, <2>3, CompletingStep
<1>3. QED
  BY <1>1, <1>2

\* A connection a message was not sent on stays one.
LEMMA FailStep ==
  ASSUME IInv, Next
  PROVE  /\ unsent \subseteq unsent' /\ unsent' \subseteq Connection
         /\ faults' \in 0..MaxFaults
<1> USE DEF IInv
<1> DEFINE Goal == /\ unsent \subseteq unsent' /\ unsent' \subseteq Connection
                   /\ faults' \in 0..MaxFaults
<1>1. /\ unsent \subseteq Connection /\ faults \in 0..MaxFaults /\ MaxFaults \in Nat
      /\ connections \subseteq Connection
  BY BitTorrentAssumption DEF TypeOK
<1>2. ASSUME UNCHANGED <<unsent, faults>> PROVE Goal
  BY <1>1, <1>2
<1>3. ASSUME UNCHANGED unsent, faults < MaxFaults, faults' = faults + 1 PROVE Goal
  BY <1>1, <1>3
<1>4. ASSUME NEW C \in SUBSET Connection, Fail(C) PROVE Goal
  BY <1>1, <1>4 DEF Fail
<1> HIDE DEF Goal
<1>5. ASSUME NEW c \in Connection, Sent \/ Fail({c}) PROVE Goal
  BY <1>2, <1>4, <1>5 DEF Sent
<1>6. ASSUME NEW c \in Connection,
             \/ connect_handshake(c) \/ connect_send_bitfield(c) \/ request(c)
             \/ send_not_interested(c) \/ send_interested(c)
      PROVE  Goal
  <2>1. Sent \/ Fail({c})
    BY <1>6 DEF connect_handshake, connect_send_bitfield, request,
       send_not_interested, send_interested
  <2>2. QED
    BY <1>5, <2>1
<1>7. ASSUME NEW c \in Connection, have(c) PROVE Goal
  <2>1. PICK skipped \in SUBSET connections : IF skipped = {} THEN Sent ELSE Fail(skipped)
    BY <1>7 DEF have
  <2>2. skipped \in SUBSET Connection
    BY <1>1
  <2>3. QED
    BY <1>2, <1>4, <2>1, <2>2 DEF Sent
<1>8. ASSUME NEW c \in Connection, NEW data \in {"good", "bad"}, notify_piece(c, data)
      PROVE  Goal
  <2>1. \/ UNCHANGED <<unsent, faults>>
        \/ UNCHANGED unsent /\ faults < MaxFaults /\ faults' = faults + 1
    BY <1>8 DEF notify_piece, Answer
  <2>2. QED
    BY <1>2, <1>3, <2>1
<1>9. ASSUME NEW c \in Connection, remote_choke(c) PROVE Goal
  BY <1>3, <1>9 DEF remote_choke
<1>10. ASSUME NEW c \in Connection,
              \/ setup_connect(c) \/ connect_inherited(c) \/ connect_state(c)
              \/ disconnect_inherited(c) \/ disconnect_state(c)
              \/ disconnect_notify(c) \/ notify_have_connect(c)
       PROVE  Goal
  BY <1>2, <1>10 DEF setup_connect, connect_inherited, connect_state,
     disconnect_inherited, disconnect_state, disconnect_notify,
     notify_have_connect, remoteVars
<1>11. ASSUME NEW c \in Connection,
              \/ populatePeerPiecesBitfield(c) \/ connect_bitfield(c)
              \/ requestNextPiece(c) \/ count(c) \/ notify_have_test(c)
              \/ notify_piece_count(c) \/ notify_complete(c)
       PROVE  Goal
  BY <1>2, <1>11 DEF populatePeerPiecesBitfield, connect_bitfield,
     requestNextPiece, count, notify_have_test, notify_piece_count,
     notify_complete, remoteVars
<1>12. ASSUME NEW c \in Connection,
              \/ notify_choke(c) \/ notify_unchoke(c) \/ notify_bitfield(c)
              \/ remote_unchoke(c) \/ \E i \in Piece : notify_have(c, i)
       PROVE  Goal
  BY <1>2, <1>12 DEF notify_choke, notify_unchoke, notify_bitfield,
     remote_unchoke, notify_have
<1>13. ASSUME setup_done PROVE Goal
  BY <1>2, <1>13 DEF setup_done, remoteVars
<1>14. ASSUME NEW c \in Connection, Serve(c) PROVE Goal
  BY <1>6, <1>7, <1>8, <1>11, <1>12, <1>14, Zenon DEF Serve
<1>15. ASSUME NEW c \in Connection, Still(c) PROVE Goal
  BY <1>9, <1>12, <1>15, Zenon DEF Still
<1>16. Goal
  BY <1>10, <1>13, <1>14, <1>15, Cases, Zenon
<1>17. QED
  BY <1>16 DEF Goal

\* The thread of a connection that hears of every saved piece, now or when it
\* sends its bitfield.
Hearing == {"idle", "send_bitfield"} \cup NotifyPc

Listed(c, i) ==
  \/ i \in told[c] \cup (IF pc[c] = "send_bitfield" THEN local[c].bitfield ELSE {})
  \/ \E d \in Connection : pc[d] = "have" /\ local[d].index = i

AllListed ==
  \A c \in Connection \ unsent :
    pc[c] \in Hearing => \A i \in saved : Listed(c, i)

LEMMA Announced == AnnouncedToAll /\ AnnounceInv <=> AllListed
BY DEF AnnouncedToAll, AnnounceInv, AllListed, Listed, Hearing, NotifyPc

\* A step that announces nothing and in which nothing is saved.
LEMMA SameListed ==
  ASSUME AllListed, UNCHANGED <<told, saved>>, unsent \subseteq unsent',
         \A c \in Connection :
           /\ pc'[c] \in Hearing => pc[c] \in Hearing
           /\ pc[c] = "have" => pc'[c] = "have" /\ local'[c] = local[c]
           /\ pc[c] = "send_bitfield" => pc'[c] = "send_bitfield" /\ local'[c] = local[c]
  PROVE  AllListed'
<1> SUFFICES ASSUME NEW c \in Connection \ unsent', pc'[c] \in Hearing, NEW i \in saved
             PROVE  Listed(c, i)'
  BY DEF AllListed
<1>1. Listed(c, i)
  BY DEF AllListed
<1>2. CASE i \in told[c] \cup (IF pc[c] = "send_bitfield" THEN local[c].bitfield ELSE {})
  BY <1>2 DEF Listed
<1>3. CASE \E d \in Connection : pc[d] = "have" /\ local[d].index = i
  BY <1>3 DEF Listed
<1>4. QED
  BY <1>1, <1>2, <1>3 DEF Listed

LEMMA AnnounceStep ==
  ASSUME IInv, Next
  PROVE  (AnnouncedToAll /\ AnnounceInv)'
<1> USE DEF IInv
<1>1. /\ DOMAIN pc = Connection /\ DOMAIN local = Connection
      /\ DOMAIN told = Connection /\ saved \subseteq Piece
  BY DEF TypeOK
<1>2. AllListed /\ unsent \subseteq unsent'
  BY Announced, FailStep
<1>3. ASSUME NEW c \in Connection, have(c) PROVE AllListed'
  <2>1. /\ pc[c] = "have" /\ pc' = [pc EXCEPT ![c] = "piece_count"]
        /\ UNCHANGED <<local, saved>>
        /\ \A d \in Connection : told[d] \subseteq told'[d]
        /\ \A d \in connections \ unsent' : d \in Connection => local[c].index \in told'[d]
    BY <1>3 DEF have, Goto, pieceVars, Sent, Fail
  <2>2. \A d \in Connection : pc'[d] \in Hearing => pc[d] \in Hearing /\ d \in connections
    BY <1>1, <2>1 DEF Hearing, NotifyPc, MembersInv, Away, LeavePc
  <2> SUFFICES ASSUME NEW e \in Connection \ unsent', pc'[e] \in Hearing, NEW i \in saved
               PROVE  Listed(e, i)'
    BY <2>1 DEF AllListed
  <2>3. Listed(e, i)
    BY <1>2, <2>2 DEF AllListed
  <2>4. CASE i \in told[e] \cup (IF pc[e] = "send_bitfield" THEN local[e].bitfield ELSE {})
    BY <1>1, <2>1, <2>4 DEF Listed
  <2>5. ASSUME NEW d \in Connection, pc[d] = "have", local[d].index = i
        PROVE  Listed(e, i)'
    <3>1. CASE d = c
      BY <2>1, <2>2, <2>5, <3>1 DEF Listed
    <3>2. CASE d # c
      BY <1>1, <2>1, <2>5, <3>2 DEF Listed
    <3>3. QED
      BY <3>1, <3>2
  <2>6. QED
    BY <2>3, <2>4, <2>5 DEF Listed
<1>4. ASSUME NEW c \in Connection, NEW data \in {"good", "bad"}, notify_piece(c, data)
      PROVE  AllListed'
  <2>1. PICK j \in Piece, now \in [Block -> {"none", "good", "bad"}],
             isSaved \in BOOLEAN : Store(c, j, now, isSaved)
    BY <1>4, Stored
  <2>2. /\ pc[c] = "idle" /\ UNCHANGED told
        /\ pc' = [pc EXCEPT ![c] = IF isSaved THEN "have" ELSE "piece_count"]
        /\ \A d \in Connection \ {c} : local'[d] = local[d]
        /\ saved' = IF isSaved THEN saved \cup {j} ELSE saved
    BY <1>1, <1>4, <2>1, StoredFrame DEF Store, Goto, sentVars
  <2>3. local'[c].index = j
    BY <1>1, <2>1 DEF Store, Fresh
  <2> SUFFICES ASSUME NEW e \in Connection \ unsent', pc'[e] \in Hearing, NEW i \in saved'
               PROVE  Listed(e, i)'
    BY DEF AllListed
  <2>4. CASE i \in saved
    <3>1. pc[e] \in Hearing
      BY <1>1, <2>2 DEF Hearing
    <3>2. Listed(e, i)
      BY <1>2, <2>4, <3>1 DEF AllListed
    <3>3. CASE i \in told[e] \cup (IF pc[e] = "send_bitfield" THEN local[e].bitfield ELSE {})
      BY <1>1, <2>2, <3>3 DEF Listed
    <3>4. CASE \E d \in Connection : pc[d] = "have" /\ local[d].index = i
      BY <1>1, <2>2, <3>4 DEF Listed
    <3>5. QED
      BY <3>2, <3>3, <3>4 DEF Listed
  <2>5. CASE i \notin saved
    <3>1. i = j /\ isSaved
      BY <2>2, <2>5
    <3>2. pc'[c] = "have" /\ local'[c].index = i
      BY <1>1, <2>2, <2>3, <3>1
    <3>3. QED
      BY <3>2 DEF Listed
  <2>6. QED
    BY <2>4, <2>5
<1>5. ASSUME NEW c \in Connection, connect_bitfield(c) PROVE AllListed'
  <2> DEFINE all == Piece \ Missing
  <2>1. /\ pc[c] = "bitfield" /\ UNCHANGED <<told, saved>>
        /\ local' = [local EXCEPT ![c].bitfield = all]
        /\ pc' = [pc EXCEPT ![c] = IF all # {} THEN "send_bitfield" ELSE "idle"]
    BY <1>5 DEF connect_bitfield, Goto, sentVars, pieceVars
  <2>2. saved \subseteq all
    BY <1>1 DEF Missing
  <2>3. local'[c].bitfield = all
    <3>1. local[c] \in [index : Piece \cup {None}, block : Block \cup {None},
                        then : {"none", "missing", "next", "complete"},
                        bitfield : SUBSET Piece]
      BY DEF TypeOK
    <3>2. QED
      BY <1>1, <2>1, <3>1
  <2> HIDE DEF all
  <2> SUFFICES ASSUME NEW e \in Connection \ unsent', pc'[e] \in Hearing, NEW i \in saved
               PROVE  Listed(e, i)'
    BY <2>1 DEF AllListed
  <2>4. CASE e = c
    <3>1. all # {} /\ pc'[c] = "send_bitfield"
      BY <1>1, <2>1, <2>2
    <3>2. QED
      BY <2>2, <2>3, <2>4, <3>1 DEF Listed
  <2>5. CASE e # c
    <3>1. Listed(e, i)
      BY <1>1, <1>2, <2>1, <2>5 DEF AllListed
    <3>2. /\ pc'[e] = pc[e] /\ local'[e] = local[e]
          /\ \A d \in Connection : pc[d] = "have" => pc'[d] = "have" /\ local'[d] = local[d]
      BY <1>1, <2>1, <2>5
    <3>3. CASE i \in told[e] \cup (IF pc[e] = "send_bitfield" THEN local[e].bitfield ELSE {})
      BY <2>1, <3>2, <3>3 DEF Listed
    <3>4. CASE \E d \in Connection : pc[d] = "have" /\ local[d].index = i
      BY <3>2, <3>4 DEF Listed
    <3>5. QED
      BY <3>1, <3>3, <3>4 DEF Listed
  <2>6. QED
    BY <2>4, <2>5
<1>6. ASSUME NEW c \in Connection, connect_send_bitfield(c) PROVE AllListed'
  <2>1. /\ pc[c] = "send_bitfield" /\ UNCHANGED saved
        /\ \A d \in Connection : told[d] \subseteq told'[d]
        /\ c \notin unsent' => local[c].bitfield \subseteq told'[c]
        /\ pc' = [pc EXCEPT ![c] = "idle"]
        /\ local' = [local EXCEPT ![c] = Fresh]
    BY <1>1, <1>6 DEF connect_send_bitfield, Return, Goto, pieceVars, Sent, Fail
  <2> SUFFICES ASSUME NEW e \in Connection \ unsent', pc'[e] \in Hearing, NEW i \in saved
               PROVE  Listed(e, i)'
    BY <2>1 DEF AllListed
  <2>2. pc[e] \in Hearing
    BY <1>1, <2>1 DEF Hearing
  <2>3. Listed(e, i)
    BY <1>2, <2>2 DEF AllListed
  <2>4. CASE i \in told[e] \cup (IF pc[e] = "send_bitfield" THEN local[e].bitfield ELSE {})
    BY <1>1, <2>1, <2>4 DEF Listed
  <2>5. CASE \E d \in Connection : pc[d] = "have" /\ local[d].index = i
    BY <1>1, <2>1, <2>5 DEF Listed
  <2>6. QED
    BY <2>3, <2>4, <2>5 DEF Listed
<1>7. ASSUME NEW c \in Connection, NEW r,
             pc[c] \notin {"have", "send_bitfield"}, pc' = [pc EXCEPT ![c] = r],
             r \in Hearing => pc[c] \in Hearing,
             UNCHANGED <<told, saved>>, \A d \in Connection \ {c} : local'[d] = local[d]
      PROVE  AllListed'
  BY <1>1, <1>2, <1>7, SameListed
<1>8. ASSUME NEW c \in Connection,
             \/ setup_connect(c) \/ connect_inherited(c) \/ connect_state(c)
             \/ disconnect_inherited(c) \/ disconnect_state(c)
             \/ disconnect_notify(c)
      PROVE  AllListed'
  <2>1. /\ \E r : r \notin Hearing /\ pc' = [pc EXCEPT ![c] = r]
        /\ UNCHANGED <<told, saved, local>>
    BY <1>8 DEF setup_connect, connect_inherited, connect_state,
       disconnect_inherited, disconnect_state, disconnect_notify, Goto,
       pieceVars, sentVars, Hearing, NotifyPc
  <2>2. pc[c] \notin {"have", "send_bitfield"}
    BY <1>8 DEF setup_connect, connect_inherited, connect_state,
       disconnect_inherited, disconnect_state, disconnect_notify, MembersInv
  <2>3. QED
    BY <1>7, <2>1, <2>2
<1>9. ASSUME NEW c \in Connection, notify_have_connect(c) PROVE AllListed'
  <2>1. pc[c] = "have_connect" /\ UNCHANGED <<local, told, saved>>
    BY <1>9 DEF notify_have_connect, pieceVars, sentVars
  <2>2. ASSUME NEW d \in Connection, pc[d] = "none",
               pc' = [pc EXCEPT ![c] = "idle", ![d] = "connect"]
        PROVE  AllListed'
    BY <1>1, <1>2, <2>1, <2>2, SameListed DEF Hearing, NotifyPc
  <2>3. CASE pc' = [pc EXCEPT ![c] = "idle"]
    BY <1>7, <2>1, <2>3 DEF Hearing, NotifyPc
  <2>4. QED
    BY <1>9, <2>2, <2>3 DEF notify_have_connect, Goto
<1>10. ASSUME NEW c \in Connection, populatePeerPiecesBitfield(c) \/ connect_handshake(c)
      PROVE  AllListed'
  <2>1. /\ pc[c] \notin Hearing /\ UNCHANGED <<told, saved, local>>
        /\ \E r : pc' = [pc EXCEPT ![c] = r] /\ (r \in Hearing => c \in unsent')
    BY <1>10 DEF populatePeerPiecesBitfield, connect_handshake, Goto, Fail,
       pieceVars, sentVars, Hearing, NotifyPc
  <2> SUFFICES ASSUME NEW e \in Connection \ unsent', pc'[e] \in Hearing, NEW i \in saved
               PROVE  Listed(e, i)'
    BY <2>1 DEF AllListed
  <2>2. /\ pc'[e] = pc[e]
        /\ \A d \in Connection : pc[d] = "have" => pc'[d] = "have"
    BY <1>1, <2>1 DEF Hearing, NotifyPc
  <2>3. Listed(e, i)
    BY <1>2, <2>2 DEF AllListed
  <2>4. QED
    BY <2>1, <2>2, <2>3 DEF Listed
<1>11. ASSUME NEW c \in Connection,
              \/ requestNextPiece(c) \/ request(c) \/ count(c)
              \/ send_not_interested(c) \/ send_interested(c)
              \/ notify_have_test(c) \/ notify_piece_count(c) \/ notify_complete(c)
              \/ notify_unchoke(c) \/ notify_bitfield(c)
              \/ \E i \in Piece : notify_have(c, i)
       PROVE  AllListed'
  <2>1. /\ pc[c] \in Hearing \ {"have", "send_bitfield"}
        /\ \E r : pc' = [pc EXCEPT ![c] = r]
    BY <1>11 DEF requestNextPiece, request, count, send_not_interested,
       send_interested, notify_have_test, notify_piece_count, notify_complete,
       notify_unchoke, notify_bitfield, notify_have, Goto, Return, Hearing, NotifyPc
  <2>2. UNCHANGED <<told, saved>>
    BY <1>11 DEF requestNextPiece, request, count, send_not_interested,
       send_interested, notify_have_test, notify_piece_count, notify_complete,
       notify_unchoke, notify_bitfield, notify_have, pieceVars, sentVars
  <2>3. \A d \in Connection \ {c} : local'[d] = local[d]
    BY <1>1, <1>11 DEF requestNextPiece, request, count, send_not_interested,
       send_interested, notify_have_test, notify_piece_count, notify_complete,
       notify_unchoke, notify_bitfield, notify_have, Return
  <2>4. QED
    BY <1>7, <2>1, <2>2, <2>3
<1>12. ASSUME UNCHANGED <<pc, local, told, saved>> PROVE AllListed'
  BY <1>2, <1>12, SameListed
<1>13. ASSUME NEW c \in Connection, Still(c) PROVE AllListed'
  BY <1>12, <1>13 DEF Still, notify_choke, remote_choke, remote_unchoke,
     pieceVars, sentVars
<1>14. ASSUME setup_done PROVE AllListed'
  BY <1>12, <1>14 DEF setup_done, pieceVars, sentVars
<1>15. ASSUME NEW c \in Connection, Serve(c) PROVE AllListed'
  BY <1>3, <1>4, <1>5, <1>6, <1>10, <1>11, <1>15, Zenon DEF Serve
<1>16. AllListed'
  BY <1>8, <1>9, <1>13, <1>14, <1>15, Cases, Zenon
<1>17. QED
  BY <1>16 DEF AnnouncedToAll, AnnounceInv, AllListed, Listed, Hearing, NotifyPc
-----------------------------------------------------------------------------
(* Requests.                                                                *)

\* No request is under way on a connection whose thread is at one of these.
Unserved == Away \cup ConnectPc \cup LeavePc

LEMMA SameLocal ==
  ASSUME LocalInv,
         \A c \in Connection :
           /\ pc'[c] \in {"send_request", "have"} => pc'[c] = pc[c] /\ local'[c] = local[c]
           /\ pc'[c] \in Unserved =>
                pending'[c] = <<>> \/ (pc[c] \in Unserved /\ pending'[c] = pending[c])
  PROVE  LocalInv'
BY DEF LocalInv, Unserved

LEMMA LocalStep ==
  ASSUME IInv, Next
  PROVE  LocalInv'
<1> USE DEF IInv
<1>1. DOMAIN pc = Connection /\ DOMAIN local = Connection /\ DOMAIN pending = Connection
  BY DEF TypeOK
<1>2. ASSUME NEW c \in Connection, requestNextPiece(c) PROVE LocalInv'
  <2>1. CASE hasMissingPiece(peer[PeerOf[c]].pieces)
    <3>1. PICK i \in peer[PeerOf[c]].pieces \cap Missing :
            \E b \in getMissingChunks(i) :
              /\ local' = [local EXCEPT ![c].index = i, ![c].block = b]
              /\ Goto(c, "send_request")
      BY <1>2, <2>1 DEF requestNextPiece
    <3>2. PICK b \in getMissingChunks(i) :
              /\ local' = [local EXCEPT ![c].index = i, ![c].block = b]
              /\ Goto(c, "send_request")
      BY <3>1
    <3>3. i \in Piece /\ b \in Block
      BY DEF Missing, getMissingChunks
    <3>4. local[c] \in [index : Piece \cup {None}, block : Block \cup {None},
                        then : {"none", "missing", "next", "complete"},
                        bitfield : SUBSET Piece]
      BY DEF TypeOK
    <3>5. local'[c].index = i /\ local'[c].block = b
      BY <1>1, <3>2, <3>4
    <3>6. /\ \A d \in Connection \ {c} : local'[d] = local[d] /\ pc'[d] = pc[d]
          /\ pc'[c] = "send_request" /\ UNCHANGED pending
      BY <1>1, <1>2, <3>2 DEF Goto, requestNextPiece, peerVars, remoteVars
    <3>7. QED
      BY <3>3, <3>5, <3>6 DEF LocalInv, Away, ConnectPc, LeavePc
  <2>2. CASE ~hasMissingPiece(peer[PeerOf[c]].pieces)
    <3>1. /\ pc' = [pc EXCEPT ![c] = "not_interested"] /\ UNCHANGED <<local, pending>>
      BY <1>2, <2>2 DEF requestNextPiece, Goto, peerVars, remoteVars
    <3>2. QED
      BY <1>1, <3>1, SameLocal DEF Unserved, Away, ConnectPc, LeavePc
  <2>3. QED
    BY <2>1, <2>2
<1>3. ASSUME NEW c \in Connection, NEW data \in {"good", "bad"}, notify_piece(c, data)
      PROVE  LocalInv'
  <2>1. PICK i \in Piece, now \in [Block -> {"none", "good", "bad"}],
             isSaved \in BOOLEAN : Store(c, i, now, isSaved)
    BY <1>3, Stored
  <2>2. /\ pc' \in {[pc EXCEPT ![c] = "have"], [pc EXCEPT ![c] = "piece_count"]}
        /\ pending' = [pending EXCEPT ![c] = Tail(@)]
    BY <1>3, StoredFrame
  <2>3. local'[c].index = i /\ \A d \in Connection \ {c} : local'[d] = local[d]
    BY <1>1, <2>1 DEF Store, Fresh
  <2>4. /\ pc'[c] \in {"have", "piece_count"}
        /\ \A d \in Connection \ {c} : pc'[d] = pc[d] /\ pending'[d] = pending[d]
    BY <1>1, <2>2
  <2>5. QED
    BY <2>3, <2>4 DEF LocalInv, Away, ConnectPc, LeavePc
<1>4. ASSUME NEW c \in Connection, disconnect_inherited(c) PROVE LocalInv'
  <2>1. /\ pc' = [pc EXCEPT ![c] = "disconnect"] /\ UNCHANGED local
        /\ pending' = [pending EXCEPT ![c] = <<>>]
    BY <1>4 DEF disconnect_inherited, Goto
  <2>2. QED
    BY <1>1, <2>1, SameLocal
<1>5. ASSUME NEW c \in Connection, NEW s, s \notin {"send_request", "have"},
             pc' = [pc EXCEPT ![c] = s], UNCHANGED pending,
             s \in Unserved => pc[c] \in Unserved,
             \A d \in Connection \ {c} : local'[d] = local[d]
      PROVE  LocalInv'
  BY <1>1, <1>5, SameLocal
<1>6. ASSUME NEW c \in Connection,
             \/ setup_connect(c) \/ connect_inherited(c) \/ connect_state(c)
             \/ disconnect_state(c) \/ disconnect_notify(c)
      PROVE  LocalInv'
  <2>1. /\ \E s : s \notin {"send_request", "have"} /\ pc' = [pc EXCEPT ![c] = s]
        /\ UNCHANGED <<pending, local>>
    BY <1>6 DEF setup_connect, connect_inherited, connect_state, disconnect_state,
       disconnect_notify, Goto, peerVars, remoteVars
  <2>2. pc[c] \in Unserved
    BY <1>6 DEF setup_connect, connect_inherited, connect_state, disconnect_state,
       disconnect_notify, MembersInv, Unserved, Away, ConnectPc, LeavePc
  <2>3. QED
    BY <1>5, <2>1, <2>2
<1>7. ASSUME NEW c \in Connection, notify_have_connect(c) PROVE LocalInv'
  <2>1. pc[c] = "have_connect" /\ UNCHANGED <<local, pending>>
    BY <1>7 DEF notify_have_connect, peerVars, remoteVars
  <2>2. ASSUME NEW d \in Connection, pc[d] = "none",
               pc' = [pc EXCEPT ![c] = "idle", ![d] = "connect"]
        PROVE  LocalInv'
    BY <1>1, <2>1, <2>2, SameLocal DEF Unserved, Away, ConnectPc, LeavePc
  <2>3. CASE pc' = [pc EXCEPT ![c] = "idle"]
    BY <1>5, <2>1, <2>3 DEF Unserved, Away, ConnectPc, LeavePc
  <2>4. QED
    BY <1>7, <2>2, <2>3 DEF notify_have_connect, Goto
<1>8. ASSUME NEW c \in Connection,
             \/ populatePeerPiecesBitfield(c) \/ connect_handshake(c)
             \/ connect_bitfield(c) \/ connect_send_bitfield(c)
      PROVE  LocalInv'
  <2>1. /\ pc[c] \in Unserved /\ UNCHANGED pending
        /\ \E s : s \notin {"send_request", "have"} /\ pc' = [pc EXCEPT ![c] = s]
    BY <1>8 DEF populatePeerPiecesBitfield, connect_handshake, connect_bitfield,
       connect_send_bitfield, Goto, Return, peerVars, remoteVars, Unserved, ConnectPc
  <2>2. \A d \in Connection \ {c} : local'[d] = local[d]
    BY <1>1, <1>8 DEF populatePeerPiecesBitfield, connect_handshake,
       connect_bitfield, connect_send_bitfield, Return
  <2>3. QED
    BY <1>5, <2>1, <2>2
<1>9. ASSUME NEW c \in Connection,
             \/ count(c) \/ send_not_interested(c) \/ send_interested(c)
             \/ notify_have_test(c) \/ have(c) \/ notify_piece_count(c)
             \/ notify_complete(c) \/ notify_unchoke(c) \/ notify_bitfield(c)
             \/ \E i \in Piece : notify_have(c, i)
      PROVE  LocalInv'
  <2>1. \E s : /\ s \notin {"send_request", "have"} /\ s \notin Unserved
               /\ pc' = [pc EXCEPT ![c] = s]
    BY <1>9 DEF count, send_not_interested, send_interested, notify_have_test,
       have, notify_piece_count, notify_complete, notify_unchoke, notify_bitfield,
       notify_have, Goto, Return, Unserved, Away, ConnectPc, LeavePc
  <2>2. UNCHANGED pending
    BY <1>9 DEF count, send_not_interested, send_interested, notify_have_test,
       have, notify_piece_count, notify_complete, notify_unchoke, notify_bitfield,
       notify_have, peerVars, remoteVars
  <2>3. \A d \in Connection \ {c} : local'[d] = local[d]
    BY <1>1, <1>9 DEF count, send_not_interested, send_interested,
       notify_have_test, have, notify_piece_count, notify_complete,
       notify_unchoke, notify_bitfield, notify_have, Return
  <2>4. QED
    BY <1>5, <2>1, <2>2, <2>3
<1>10. ASSUME NEW c \in Connection, request(c) PROVE LocalInv'
  <2>1. /\ pc' = [pc EXCEPT ![c] = "count"] /\ UNCHANGED local
        /\ \A d \in Connection \ {c} : pending'[d] = pending[d]
    BY <1>1, <1>10 DEF request, Goto
  <2>2. QED
    BY <1>1, <2>1, SameLocal DEF Unserved, Away, ConnectPc, LeavePc
<1>11. ASSUME NEW c \in Connection, Still(c) PROVE LocalInv'
  <2>1. /\ UNCHANGED <<pc, local>>
        /\ UNCHANGED pending \/ pending' = [pending EXCEPT ![c] = <<>>]
    BY <1>11 DEF Still, notify_choke, remote_choke, remote_unchoke
  <2>2. QED
    BY <1>1, <2>1, SameLocal
<1>12. CASE setup_done
  BY <1>12, SameLocal DEF setup_done, peerVars, remoteVars
<1>13. ASSUME NEW c \in Connection, Serve(c) PROVE LocalInv'
  BY <1>2, <1>3, <1>8, <1>9, <1>10, <1>13, Zenon DEF Serve
<1>14. QED
  BY <1>4, <1>6, <1>7, <1>11, <1>12, <1>13, Cases, Zenon

LEMMA Queues ==
  ASSUME NEW p
  PROVE  /\ ConnectionsTo(p) \in SUBSET Connection /\ IsFiniteSet(ConnectionsTo(p))
         /\ UnderWay(p) = Places(pending, ConnectionsTo(p))
         /\ UnderWay(p)' = Places(pending', ConnectionsTo(p))
<1>1. ConnectionsTo(p) \in SUBSET Connection
  BY DEF ConnectionsTo
<1>2. QED
  BY <1>1, Finite DEF UnderWay, Places, ConnectionsTo

\* Every number that is counted is natural.
LEMMA Numbers ==
  ASSUME TypeOK, NEW p \in Peer
  PROVE  /\ peer[p].requesting_piece \in Nat /\ dropped[p] \in Nat
         /\ Cardinality(UnderWay(p)) \in Nat
         /\ \A S : /\ At(p, S) \in SUBSET Connection
                   /\ Cardinality(At(p, S)) \in Nat
                   /\ At(p, S)' \in SUBSET Connection
                   /\ Cardinality(At(p, S)') \in Nat
         /\ Lapsed(p) \in SUBSET Connection /\ Cardinality(Lapsed(p)) \in Nat
         /\ Lapsed(p)' \in SUBSET Connection /\ Cardinality(Lapsed(p)') \in Nat
<1>1. peer[p].requesting_piece \in Nat /\ dropped[p] \in Nat
  BY DEF TypeOK
<1>2. \A c \in ConnectionsTo(p) : pending[c] \in Seq(Piece \X Block)
  BY DEF TypeOK, ConnectionsTo
<1>3. Cardinality(UnderWay(p)) \in Nat
  BY <1>2, Queues, PlacesFinite
<1>4. \A S : At(p, S) \in SUBSET Connection /\ At(p, S)' \in SUBSET Connection
  BY DEF At, ConnectionsTo
<1>5. Lapsed(p) \in SUBSET Connection /\ Lapsed(p)' \in SUBSET Connection
  BY DEF Lapsed, At, ConnectionsTo
<1>6. QED
  BY <1>1, <1>3, <1>4, <1>5, Finite

\* A step that does nothing to the requests of p.
LEMMA QuietPeer ==
  ASSUME NEW p \in Peer, CountedAt(p),
         \A c \in ConnectionsTo(p) :
           /\ pending'[c] = pending[c]
           /\ pc'[c] \in {"count"} <=> pc[c] \in {"count"}
           /\ pc'[c] \in {"have", "piece_count"} <=> pc[c] \in {"have", "piece_count"},
         peer'[p].requesting_piece = peer[p].requesting_piece,
         dropped'[p] = dropped[p], conns'[p] = {} => conns[p] = {}
  PROVE  CountedAt(p)'
<1>1. At(p, {"count"})' = At(p, {"count"})
  BY DEF At, ConnectionsTo
<1>2. At(p, {"have", "piece_count"})' = At(p, {"have", "piece_count"})
  BY DEF At, ConnectionsTo
<1>3. UnderWay(p)' = UnderWay(p)
  BY Queues, PlacesSame
<1>4. Lapsed(p)' = Lapsed(p)
  BY DEF Lapsed, At, ConnectionsTo
<1>5. QED
  BY <1>1, <1>2, <1>3, <1>4 DEF CountedAt, Counted

\* The same for all peers.
LEMMA Quiet ==
  ASSUME CountInv, UNCHANGED <<pending, dropped>>,
         \A c \in Connection :
           /\ pc'[c] \in {"count"} <=> pc[c] \in {"count"}
           /\ pc'[c] \in {"have", "piece_count"} <=> pc[c] \in {"have", "piece_count"},
         \A p \in Peer : /\ peer'[p].requesting_piece = peer[p].requesting_piece
                         /\ conns'[p] = {} => conns[p] = {}
  PROVE  CountInv'
<1>1. ASSUME NEW p \in Peer PROVE CountedAt(p)'
  <2>1. ConnectionsTo(p) \subseteq Connection /\ CountedAt(p)
    BY Queues DEF CountInv
  <2>2. QED
    BY <2>1, QuietPeer
<1>2. QED
  BY <1>1 DEF CountInv

\* A step of c does nothing to the requests of another peer.
LEMMA OtherPeers ==
  ASSUME CountInv, NEW c \in Connection,
         \A d \in Connection \ {c} : pc'[d] = pc[d] /\ pending'[d] = pending[d],
         \A p \in Peer \ {PeerOf[c]} :
           peer'[p] = peer[p] /\ dropped'[p] = dropped[p] /\ conns'[p] = conns[p],
         CountedAt(PeerOf[c])'
  PROVE  CountInv'
<1>1. ASSUME NEW p \in Peer, p # PeerOf[c] PROVE CountedAt(p)'
  <2>1. /\ \A d \in ConnectionsTo(p) : pc'[d] = pc[d] /\ pending'[d] = pending[d]
        /\ peer'[p] = peer[p] /\ dropped'[p] = dropped[p] /\ conns'[p] = conns[p]
        /\ CountedAt(p)
    BY <1>1 DEF ConnectionsTo, CountInv
  <2>2. QED
    BY <2>1, QuietPeer
<1>2. \A p \in Peer : CountedAt(p)'
  BY <1>1
<1>3. QED
  BY <1>2 DEF CountInv

\* The connections at some control states, when one thread moves.
LEMMA AtMember ==
  ASSUME NEW c \in Connection, NEW S
  PROVE  /\ c \in At(PeerOf[c], S) <=> pc[c] \in S
         /\ c \in At(PeerOf[c], S)' <=> pc'[c] \in S
BY DEF At, ConnectionsTo

LEMMA AtOthers ==
  ASSUME NEW c \in Connection, \A d \in Connection \ {c} : pc'[d] = pc[d], NEW p, NEW S
  PROVE  \A d : d # c => (d \in At(p, S)' <=> d \in At(p, S))
BY DEF At, ConnectionsTo

LEMMA AtFinite ==
  ASSUME NEW p, NEW S
  PROVE  /\ At(p, S) \in SUBSET Connection /\ Cardinality(At(p, S)) \in Nat
         /\ At(p, S)' \in SUBSET Connection /\ Cardinality(At(p, S)') \in Nat
<1>1. At(p, S) \in SUBSET Connection /\ At(p, S)' \in SUBSET Connection
  BY DEF At, ConnectionsTo
<1>2. QED
  BY <1>1, Finite

LEMMA AtStay ==
  ASSUME NEW c \in Connection, \A d \in Connection \ {c} : pc'[d] = pc[d], NEW S,
         pc'[c] \in S <=> pc[c] \in S
  PROVE  At(PeerOf[c], S)' = At(PeerOf[c], S)
<1>1. \A d : d # c => (d \in At(PeerOf[c], S)' <=> d \in At(PeerOf[c], S))
  BY AtOthers
<1>2. c \in At(PeerOf[c], S)' <=> c \in At(PeerOf[c], S)
  BY AtMember
<1>3. \A d : d \in At(PeerOf[c], S)' <=> d \in At(PeerOf[c], S)
  BY <1>1, <1>2
<1>4. QED
  BY <1>3 DEF At

LEMMA AtJoin ==
  ASSUME NEW c \in Connection, \A d \in Connection \ {c} : pc'[d] = pc[d], NEW S,
         pc[c] \notin S, pc'[c] \in S
  PROVE  Cardinality(At(PeerOf[c], S)') = Cardinality(At(PeerOf[c], S)) + 1
<1>1. \A d : d # c => (d \in At(PeerOf[c], S)' <=> d \in At(PeerOf[c], S))
  BY AtOthers
<1>2. c \in At(PeerOf[c], S)' /\ c \notin At(PeerOf[c], S)
  BY AtMember
<1>3. QED
  BY <1>1, <1>2, AtFinite, OneMore

LEMMA AtLeave ==
  ASSUME NEW c \in Connection, \A d \in Connection \ {c} : pc'[d] = pc[d], NEW S,
         pc[c] \in S, pc'[c] \notin S
  PROVE  Cardinality(At(PeerOf[c], S)) = Cardinality(At(PeerOf[c], S)') + 1
<1>1. \A d : d # c => (d \in At(PeerOf[c], S) <=> d \in At(PeerOf[c], S)')
  BY AtOthers
<1>2. c \in At(PeerOf[c], S) /\ c \notin At(PeerOf[c], S)'
  BY AtMember
<1>3. QED
  BY <1>1, <1>2, AtFinite, OneMore

\* The counts of p are exact again when both sides have changed by the same.
LEMMA Balanced ==
  ASSUME NEW p, conns'[p] # {},
         peer'[p].requesting_piece + Cardinality(At(p, {"count"})')
           = Cardinality(UnderWay(p)') + Cardinality(At(p, {"have", "piece_count"})')
             + dropped'[p],
         Cardinality(Lapsed(p)') <= dropped'[p]
  PROVE  CountedAt(p)'
BY DEF CountedAt, Counted

LEMMA CountStep ==
  ASSUME IInv, Next
  PROVE  CountInv'
<1> USE DEF IInv
<1>1. /\ DOMAIN pc = Connection /\ DOMAIN peer = Peer /\ DOMAIN dropped = Peer
      /\ PeerOf \in [Connection -> Peer] /\ pending \in [Connection -> Seq(Piece \X Block)]
  BY BitTorrentAssumption DEF TypeOK
<1>2. ASSUME NEW c \in Connection
      PROVE  /\ PeerOf[c] \in Peer /\ c \in ConnectionsTo(PeerOf[c])
             /\ CountedAt(PeerOf[c])
             /\ \A d \in ConnectionsTo(PeerOf[c]) : pending[d] \in Seq(Piece \X Block)
  BY <1>1 DEF ConnectionsTo, CountInv
<1>3. ASSUME NEW p \in Peer
      PROVE  /\ peer[p].requesting_piece \in Nat /\ dropped[p] \in Nat
             /\ Cardinality(UnderWay(p)) \in Nat
             /\ peer[p].requesting_piece + Cardinality(At(p, {"count"}))
                  = Cardinality(UnderWay(p)) + Cardinality(At(p, {"have", "piece_count"}))
                    + dropped[p]
             /\ Cardinality(Lapsed(p)) <= dropped[p]
             /\ Cardinality(At(p, {"count"})) \in Nat
             /\ Cardinality(At(p, {"count"})') \in Nat
             /\ Cardinality(At(p, {"have", "piece_count"})) \in Nat
             /\ Cardinality(At(p, {"have", "piece_count"})') \in Nat
             /\ Lapsed(p) \in SUBSET Connection /\ Cardinality(Lapsed(p)) \in Nat
             /\ Lapsed(p)' \in SUBSET Connection /\ Cardinality(Lapsed(p)') \in Nat
  BY Numbers, AtFinite DEF CountInv, CountedAt, Counted
<1>4. ASSUME NEW c \in Connection, pc[c] \in Served, UNCHANGED conns
      PROVE  conns'[PeerOf[c]] # {}
  <2>1. pc[c] \notin Away \cup {"connect", "state", "no_more"}
    BY <1>4 DEF Served, NotifyPc, Away
  <2>2. c \in conns[PeerOf[c]]
    BY <1>2, <2>1 DEF MembersInv
  <2>3. QED
    BY <1>4, <2>2
<1>5. ASSUME NEW c \in Connection, request(c) PROVE CountInv'
  <2> DEFINE p == PeerOf[c]
  <2>1. /\ pc[c] = "send_request" /\ pc' = [pc EXCEPT ![c] = "count"]
        /\ UNCHANGED <<peer, conns>>
    BY <1>5 DEF request, Goto, stateVars
  <2>2. /\ pc'[c] = "count" /\ \A d \in Connection \ {c} : pc'[d] = pc[d]
        /\ conns'[p] # {}
    BY <1>1, <1>4, <2>1 DEF Served, NotifyPc
  <2>3. Cardinality(At(p, {"count"})') = Cardinality(At(p, {"count"})) + 1
    <3>1. pc[c] \notin {"count"} /\ pc'[c] \in {"count"}
      BY <2>1, <2>2
    <3>2. QED
      BY <2>2, <3>1, AtJoin
  <2>4. At(p, {"have", "piece_count"})' = At(p, {"have", "piece_count"})
    <3>1. pc'[c] \in {"have", "piece_count"} <=> pc[c] \in {"have", "piece_count"}
      BY <2>1, <2>2
    <3>2. QED
      BY <2>2, <3>1, AtStay
  <2>5. CASE UNCHANGED pending /\ dropped' = [dropped EXCEPT ![p] = @ + 1]
    <3>1. UNCHANGED pending /\ dropped' = [dropped EXCEPT ![p] = @ + 1]
      BY <2>5
    <3>2. UnderWay(p)' = UnderWay(p)
      BY <3>1, Queues, PlacesSame
    <3>3. Cardinality(Lapsed(p)') <= Cardinality(Lapsed(p)) + 1
      <4>1. \A d : d # c => (d \in Lapsed(p)' <=> d \in Lapsed(p))
        BY <2>2, <3>1 DEF Lapsed, At, ConnectionsTo
      <4>2. c \notin Lapsed(p)
        BY <2>1 DEF Lapsed, At
      <4>3. CASE c \in Lapsed(p)'
        BY <1>2, <1>3, <4>1, <4>2, <4>3, OneMore
      <4>4. CASE c \notin Lapsed(p)'
        <5>1. Lapsed(p)' = Lapsed(p)
          BY <4>1, <4>2, <4>4
        <5>2. QED
          BY <1>2, <1>3, <5>1
      <4>5. QED
        BY <4>3, <4>4
    <3>4. dropped'[p] = dropped[p] + 1
      BY <1>1, <3>1
    <3>5. CountedAt(p)'
      <4>1. p \in Peer /\ conns'[p] # {}
        BY <1>2, <2>1, <2>2, <2>3, <2>4, <3>2, <3>3, <3>4
      <4>2. /\ dropped[p] \in Nat /\ Cardinality(UnderWay(p)) \in Nat
            /\ peer[p].requesting_piece + Cardinality(At(p, {"count"}))
                 = Cardinality(UnderWay(p)) + Cardinality(At(p, {"have", "piece_count"}))
                   + dropped[p]
            /\ Cardinality(Lapsed(p)) <= dropped[p]
            /\ Cardinality(At(p, {"count"})) \in Nat
            /\ Cardinality(At(p, {"count"})') \in Nat
            /\ Cardinality(At(p, {"have", "piece_count"})) \in Nat
            /\ Cardinality(At(p, {"have", "piece_count"})') \in Nat
            /\ Cardinality(Lapsed(p)) \in Nat /\ Cardinality(Lapsed(p)') \in Nat
            /\ peer[p].requesting_piece \in Nat
        BY <1>3, <4>1
      <4>3. peer'[p].requesting_piece = peer[p].requesting_piece
        BY <2>1
      <4>4. peer'[p].requesting_piece + Cardinality(At(p, {"count"})')
              = Cardinality(UnderWay(p)') + Cardinality(At(p, {"have", "piece_count"})')
                + dropped'[p]
        BY <4>2, <4>3, <2>3, <2>4, <3>2, <3>3, <3>4
      <4>5. Cardinality(Lapsed(p)') <= dropped'[p]
        BY <4>2, <4>3, <2>3, <2>4, <3>2, <3>3, <3>4
      <4>6. QED
        BY <4>1, <4>4, <4>5, Balanced
    <3>6. \A q \in Peer \ {p} : dropped'[q] = dropped[q]
      BY <1>1, <3>1
    <3>7. QED
      BY <2>1, <2>2, <3>1, <3>5, <3>6, OtherPeers
  <2>6. CASE /\ UNCHANGED dropped
             /\ pending' = [pending EXCEPT ![c] =
                              Append(@, <<local[c].index, local[c].block>>)]
    <3>1. /\ UNCHANGED dropped
          /\ pending' = [pending EXCEPT ![c] =
                           Append(@, <<local[c].index, local[c].block>>)]
      BY <2>6
    <3>2. <<local[c].index, local[c].block>> \in Piece \X Block
      BY <2>1 DEF LocalInv
    <3>3. /\ pending'[c] \in Seq(Piece \X Block) /\ Len(pending'[c]) = Len(pending[c]) + 1
          /\ \A d \in Connection \ {c} : pending'[d] = pending[d]
      BY <1>1, <3>1, <3>2
    <3>4. Cardinality(UnderWay(p)') = Cardinality(UnderWay(p)) + 1
      <4>1. \A d \in ConnectionsTo(p) :
              pending[d] \in Seq(Piece \X Block) /\ pending'[d] \in Seq(Piece \X Block)
        BY <1>2, <3>3, Queues
      <4>2. c \in ConnectionsTo(p) /\ \A d \in ConnectionsTo(p) \ {c} : pending'[d] = pending[d]
        BY <1>2, <3>3, Queues
      <4>3. IsFiniteSet(ConnectionsTo(p))
        BY Queues
      <4>4. Cardinality(Places(pending', ConnectionsTo(p)))
              = Cardinality(Places(pending, ConnectionsTo(p))) + 1
        BY <3>3, <4>1, <4>2, <4>3, PlacesGrow
      <4>5. QED
        BY <4>4, Queues
    <3>5. Lapsed(p)' = Lapsed(p)
      <4>1. pending'[c] # <<>>
        BY <1>1, <3>3
      <4>2. \A d : d # c => (d \in Lapsed(p)' <=> d \in Lapsed(p))
        BY <2>2, <3>3 DEF Lapsed, At, ConnectionsTo
      <4>3. c \notin Lapsed(p) /\ c \notin Lapsed(p)'
        BY <2>1, <4>1 DEF Lapsed, At
      <4>4. QED
        BY <4>2, <4>3
    <3>6. CountedAt(p)'
      <4>1. p \in Peer /\ conns'[p] # {}
        BY <1>2, <2>1, <2>2, <2>3, <2>4, <3>1, <3>4, <3>5
      <4>2. /\ dropped[p] \in Nat /\ Cardinality(UnderWay(p)) \in Nat
            /\ peer[p].requesting_piece + Cardinality(At(p, {"count"}))
                 = Cardinality(UnderWay(p)) + Cardinality(At(p, {"have", "piece_count"}))
                   + dropped[p]
            /\ Cardinality(Lapsed(p)) <= dropped[p]
            /\ Cardinality(At(p, {"count"})) \in Nat
            /\ Cardinality(At(p, {"count"})') \in Nat
            /\ Cardinality(At(p, {"have", "piece_count"})) \in Nat
            /\ Cardinality(At(p, {"have", "piece_count"})') \in Nat
            /\ Cardinality(Lapsed(p)) \in Nat /\ Cardinality(Lapsed(p)') \in Nat
            /\ peer[p].requesting_piece \in Nat
        BY <1>3, <4>1
      <4>3. peer'[p].requesting_piece = peer[p].requesting_piece /\ dropped'[p] = dropped[p]
        BY <2>1, <3>1
      <4>4. peer'[p].requesting_piece + Cardinality(At(p, {"count"})')
              = Cardinality(UnderWay(p)') + Cardinality(At(p, {"have", "piece_count"})')
                + dropped'[p]
        BY <4>2, <4>3, <2>3, <2>4, <3>4, <3>5
      <4>5. Cardinality(Lapsed(p)') <= dropped'[p]
        BY <4>2, <4>3, <2>3, <2>4, <3>4, <3>5
      <4>6. QED
        BY <4>1, <4>4, <4>5, Balanced
    <3>7. QED
      BY <2>1, <2>2, <3>1, <3>3, <3>6, OtherPeers
  <2>7. QED
    BY <1>5, <2>5, <2>6 DEF request
<1>6. ASSUME NEW c \in Connection, count(c) PROVE CountInv'
  <2> DEFINE p == PeerOf[c]
  <2>1. /\ pc[c] = "count" /\ pc' = [pc EXCEPT ![c] = "idle"]
        /\ UNCHANGED <<conns, pending, dropped>>
        /\ peer' = [peer EXCEPT ![p].requesting_piece = @ + 1]
    BY <1>6 DEF count, Goto, Return, peerVars, remoteVars
  <2>2. /\ pc'[c] = "idle" /\ \A d \in Connection \ {c} : pc'[d] = pc[d]
        /\ conns'[p] # {}
    BY <1>1, <1>4, <2>1 DEF Served, NotifyPc
  <2>3. Cardinality(At(p, {"count"})) = Cardinality(At(p, {"count"})') + 1
    <3>1. pc[c] \in {"count"} /\ pc'[c] \notin {"count"}
      BY <2>1, <2>2
    <3>2. QED
      BY <2>2, <3>1, AtLeave
  <2>4. At(p, {"have", "piece_count"})' = At(p, {"have", "piece_count"})
    <3>1. pc'[c] \in {"have", "piece_count"} <=> pc[c] \in {"have", "piece_count"}
      BY <2>1, <2>2
    <3>2. QED
      BY <2>2, <3>1, AtStay
  <2>5. UnderWay(p)' = UnderWay(p)
    BY <2>1, Queues, PlacesSame
  <2>6. Cardinality(Lapsed(p)') <= Cardinality(Lapsed(p))
    <3>1. Lapsed(p)' \in SUBSET Lapsed(p)
      BY <2>1, <2>2 DEF Lapsed, At, ConnectionsTo
    <3>2. QED
      BY <1>2, <1>3, <3>1, Finite, FS_Subset
  <2>7. /\ peer'[p].requesting_piece = peer[p].requesting_piece + 1
        /\ \A q \in Peer \ {p} : peer'[q] = peer[q]
    <3>1. peer[p] \in [populated : BOOLEAN, pieces : SUBSET Piece,
                       am_choking : BOOLEAN, am_interested : BOOLEAN,
                       requesting_piece : Nat]
      BY <1>2 DEF TypeOK
    <3>2. QED
      BY <1>1, <1>2, <2>1, <3>1
  <2>8. CountedAt(p)'
    <3>1. p \in Peer /\ conns'[p] # {}
      BY <1>2, <2>1, <2>2, <2>3, <2>4, <2>5, <2>6, <2>7
    <3>2. /\ dropped[p] \in Nat /\ Cardinality(UnderWay(p)) \in Nat
          /\ peer[p].requesting_piece + Cardinality(At(p, {"count"}))
               = Cardinality(UnderWay(p)) + Cardinality(At(p, {"have", "piece_count"}))
                 + dropped[p]
          /\ Cardinality(Lapsed(p)) <= dropped[p]
          /\ Cardinality(At(p, {"count"})) \in Nat
          /\ Cardinality(At(p, {"count"})') \in Nat
          /\ Cardinality(At(p, {"have", "piece_count"})) \in Nat
          /\ Cardinality(At(p, {"have", "piece_count"})') \in Nat
          /\ Cardinality(Lapsed(p)) \in Nat /\ Cardinality(Lapsed(p)') \in Nat
          /\ peer[p].requesting_piece \in Nat
      BY <1>3, <3>1
    <3>3. dropped'[p] = dropped[p]
      BY <2>1
    <3>4. peer'[p].requesting_piece + Cardinality(At(p, {"count"})')
            = Cardinality(UnderWay(p)') + Cardinality(At(p, {"have", "piece_count"})')
              + dropped'[p]
      BY <3>2, <3>3, <2>3, <2>4, <2>5, <2>6, <2>7
    <3>5. Cardinality(Lapsed(p)') <= dropped'[p]
      BY <3>2, <3>3, <2>3, <2>4, <2>5, <2>6, <2>7
    <3>6. QED
      BY <3>1, <3>4, <3>5, Balanced
  <2>9. QED
    BY <2>1, <2>2, <2>7, <2>8, OtherPeers
<1>7. ASSUME NEW c \in Connection, notify_piece_count(c) PROVE CountInv'
  <2> DEFINE p == PeerOf[c]
  <2>1. /\ pc[c] = "piece_count"
        /\ \E s \in {"request", "complete", "idle"} : pc' = [pc EXCEPT ![c] = s]
        /\ UNCHANGED <<conns, pending, dropped>>
        /\ peer' = [peer EXCEPT ![p].requesting_piece = @ - 1]
    BY <1>7 DEF notify_piece_count, Goto, peerVars, remoteVars
  <2>2. /\ pc'[c] \notin {"count", "have", "piece_count"}
        /\ \A d \in Connection \ {c} : pc'[d] = pc[d]
        /\ conns'[p] # {}
    BY <1>1, <1>4, <2>1 DEF Served, NotifyPc
  <2>3. Cardinality(At(p, {"have", "piece_count"}))
          = Cardinality(At(p, {"have", "piece_count"})') + 1
    <3>1. pc[c] \in {"have", "piece_count"} /\ pc'[c] \notin {"have", "piece_count"}
      BY <2>1, <2>2
    <3>2. QED
      BY <2>2, <3>1, AtLeave
  <2>4. At(p, {"count"})' = At(p, {"count"})
    <3>1. pc'[c] \in {"count"} <=> pc[c] \in {"count"}
      BY <2>1, <2>2
    <3>2. QED
      BY <2>2, <3>1, AtStay
  <2>5. UnderWay(p)' = UnderWay(p) /\ Lapsed(p)' = Lapsed(p)
    BY <2>1, <2>4, Queues, PlacesSame DEF Lapsed
  <2>6. /\ peer'[p].requesting_piece = peer[p].requesting_piece - 1
        /\ \A q \in Peer \ {p} : peer'[q] = peer[q]
    <3>1. peer[p] \in [populated : BOOLEAN, pieces : SUBSET Piece,
                       am_choking : BOOLEAN, am_interested : BOOLEAN,
                       requesting_piece : Nat]
      BY <1>2 DEF TypeOK
    <3>2. QED
      BY <1>1, <1>2, <2>1, <3>1
  <2>7. CountedAt(p)'
    <3>1. p \in Peer /\ conns'[p] # {}
      BY <1>2, <2>1, <2>2, <2>3, <2>4, <2>5, <2>6
    <3>2. /\ dropped[p] \in Nat /\ Cardinality(UnderWay(p)) \in Nat
          /\ peer[p].requesting_piece + Cardinality(At(p, {"count"}))
               = Cardinality(UnderWay(p)) + Cardinality(At(p, {"have", "piece_count"}))
                 + dropped[p]
          /\ Cardinality(Lapsed(p)) <= dropped[p]
          /\ Cardinality(At(p, {"count"})) \in Nat
          /\ Cardinality(At(p, {"count"})') \in Nat
          /\ Cardinality(At(p, {"have", "piece_count"})) \in Nat
          /\ Cardinality(At(p, {"have", "piece_count"})') \in Nat
          /\ Cardinality(Lapsed(p)) \in Nat /\ Cardinality(Lapsed(p)') \in Nat
          /\ peer[p].requesting_piece \in Nat
      BY <1>3, <3>1
    <3>3. dropped'[p] = dropped[p]
      BY <2>1
    <3>4. peer'[p].requesting_piece + Cardinality(At(p, {"count"})')
            = Cardinality(UnderWay(p)') + Cardinality(At(p, {"have", "piece_count"})')
              + dropped'[p]
      BY <3>2, <3>3, <2>3, <2>4, <2>5, <2>6
    <3>5. Cardinality(Lapsed(p)') <= dropped'[p]
      BY <3>2, <3>3, <2>3, <2>4, <2>5, <2>6
    <3>6. QED
      BY <3>1, <3>4, <3>5, Balanced
  <2>8. QED
    BY <2>1, <2>2, <2>6, <2>7, OtherPeers
<1>8. ASSUME NEW c \in Connection, NEW data \in {"good", "bad"}, notify_piece(c, data)
      PROVE  CountInv'
  <2> DEFINE p == PeerOf[c]
  <2>1. /\ pc[c] = "idle" /\ pending[c] # <<>>
        /\ \E s \in {"have", "piece_count"} : pc' = [pc EXCEPT ![c] = s]
        /\ UNCHANGED <<peer, conns, dropped>>
        /\ pending' = [pending EXCEPT ![c] = Tail(@)]
    BY <1>8, StoredFrame DEF stateVars
  <2>2. /\ pc'[c] \in {"have", "piece_count"}
        /\ \A d \in Connection \ {c} : pc'[d] = pc[d] /\ pending'[d] = pending[d]
        /\ conns'[p] # {}
    BY <1>1, <1>4, <2>1 DEF Served
  <2>3. Cardinality(At(p, {"have", "piece_count"})')
          = Cardinality(At(p, {"have", "piece_count"})) + 1
    <3>1. pc[c] \notin {"have", "piece_count"} /\ pc'[c] \in {"have", "piece_count"}
      BY <2>1, <2>2
    <3>2. QED
      BY <2>2, <3>1, AtJoin
  <2>4. At(p, {"count"})' = At(p, {"count"})
    <3>1. pc'[c] \in {"count"} <=> pc[c] \in {"count"}
      BY <2>1, <2>2
    <3>2. QED
      BY <2>2, <3>1, AtStay
  <2>5. Lapsed(p)' = Lapsed(p)
    BY <1>2, <2>1, <2>2, <2>4 DEF Lapsed, At, ConnectionsTo
  <2>6. /\ Cardinality(UnderWay(p)) = Cardinality(UnderWay(p)') + 1
        /\ Cardinality(UnderWay(p)') \in Nat
    <3>1. pending'[c] \in Seq(Piece \X Block) /\ Len(pending[c]) = Len(pending'[c]) + 1
      BY <1>1, <2>1
    <3>2. \A d \in ConnectionsTo(p) :
            pending[d] \in Seq(Piece \X Block) /\ pending'[d] \in Seq(Piece \X Block)
      BY <1>2, <2>2, <3>1, Queues
    <3>3. c \in ConnectionsTo(p) /\ \A d \in ConnectionsTo(p) \ {c} : pending[d] = pending'[d]
      BY <1>2, <2>2, Queues
    <3>4. IsFiniteSet(ConnectionsTo(p))
      BY Queues
    <3>5. Cardinality(Places(pending, ConnectionsTo(p)))
            = Cardinality(Places(pending', ConnectionsTo(p))) + 1
      BY <3>1, <3>2, <3>3, <3>4, PlacesGrow
    <3>6. Cardinality(Places(pending', ConnectionsTo(p))) \in Nat
      BY <3>2, <3>4, PlacesFinite
    <3>7. QED
      BY <3>5, <3>6, Queues
  <2>7. CountedAt(p)'
    <3>1. p \in Peer /\ conns'[p] # {}
      BY <1>2, <2>1, <2>2, <2>3, <2>4, <2>5, <2>6
    <3>2. /\ dropped[p] \in Nat /\ Cardinality(UnderWay(p)) \in Nat
          /\ peer[p].requesting_piece + Cardinality(At(p, {"count"}))
               = Cardinality(UnderWay(p)) + Cardinality(At(p, {"have", "piece_count"}))
                 + dropped[p]
          /\ Cardinality(Lapsed(p)) <= dropped[p]
          /\ Cardinality(At(p, {"count"})) \in Nat
          /\ Cardinality(At(p, {"count"})') \in Nat
          /\ Cardinality(At(p, {"have", "piece_count"})) \in Nat
          /\ Cardinality(At(p, {"have", "piece_count"})') \in Nat
          /\ Cardinality(Lapsed(p)) \in Nat /\ Cardinality(Lapsed(p)') \in Nat
          /\ peer[p].requesting_piece \in Nat
      BY <1>3, <3>1
    <3>3. peer'[p].requesting_piece = peer[p].requesting_piece /\ dropped'[p] = dropped[p]
      BY <2>1
    <3>4. peer'[p].requesting_piece + Cardinality(At(p, {"count"})')
            = Cardinality(UnderWay(p)') + Cardinality(At(p, {"have", "piece_count"})')
              + dropped'[p]
      BY <3>2, <3>3, <2>3, <2>4, <2>5, <2>6
    <3>5. Cardinality(Lapsed(p)') <= dropped'[p]
      BY <3>2, <3>3, <2>3, <2>4, <2>5, <2>6
    <3>6. QED
      BY <3>1, <3>4, <3>5, Balanced
  <2>8. QED
    BY <2>1, <2>2, <2>7, OtherPeers
<1>9. ASSUME NEW c \in Connection, remote_choke(c) \/ disconnect_inherited(c)
      PROVE  CountInv'
  <2> DEFINE p == PeerOf[c]
  <2>1. /\ UNCHANGED <<peer, conns>>
        /\ dropped' = [dropped EXCEPT ![p] = @ + Len(pending[c])]
        /\ pending' = [pending EXCEPT ![c] = <<>>]
        /\ \/ UNCHANGED pc
           \/ pc[c] = "idle" /\ pc' = [pc EXCEPT ![c] = "disconnect"]
    BY <1>9 DEF remote_choke, disconnect_inherited, Goto, stateVars
  <2>2. pc[c] \in Served
    <3>1. pc[c] \in Away \cup {"idle"} \cup ConnectPc \cup NotifyPc \cup LeavePc
      BY DEF TypeOK
    <3>2. QED
      BY <1>9, <3>1 DEF remote_choke, disconnect_inherited, Served
  <2>3. /\ \A d \in Connection \ {c} : pc'[d] = pc[d] /\ pending'[d] = pending[d]
        /\ pending'[c] = <<>> /\ conns'[p] # {}
        /\ pc'[c] = pc[c] \/ (pc[c] = "idle" /\ pc'[c] = "disconnect")
    BY <1>1, <1>4, <2>1, <2>2
  <2>4. /\ At(p, {"count"})' = At(p, {"count"})
        /\ At(p, {"have", "piece_count"})' = At(p, {"have", "piece_count"})
    <3>1. /\ pc'[c] \in {"count"} <=> pc[c] \in {"count"}
          /\ pc'[c] \in {"have", "piece_count"} <=> pc[c] \in {"have", "piece_count"}
      BY <2>3
    <3>2. QED
      BY <2>3, <3>1, AtStay
  <2>5. Cardinality(UnderWay(p)) = Cardinality(UnderWay(p)') + Len(pending[c])
    <3>1. c \in ConnectionsTo(p) /\ \A d \in ConnectionsTo(p) \ {c} : pending'[d] = pending[d]
      BY <1>2, <2>3, Queues
    <3>2. IsFiniteSet(ConnectionsTo(p))
      BY Queues
    <3>3. /\ \A d \in ConnectionsTo(p) : /\ pending[d] \in Seq(Piece \X Block)
                                        /\ pending'[d] \in Seq(Piece \X Block)
          /\ Len(pending'[c]) = 0
      <4>1. <<>> \in Seq(Piece \X Block) /\ Len(<<>>) = 0
        OBVIOUS
      <4>2. QED
        BY <1>2, <2>3, <4>1, Queues
    <3>4. Cardinality(Places(pending, ConnectionsTo(p)))
            = Cardinality(Places(pending', ConnectionsTo(p))) + Len(pending[c])
      <4> DEFINE n == Len(pending[c])
      <4>1. n \in Nat /\ Len(pending[c]) = n
        BY <1>1
      <4> HIDE DEF n
      <4>2. Cardinality(Places(pending, ConnectionsTo(p)))
              = Cardinality(Places(pending', ConnectionsTo(p))) + n
        BY <3>1, <3>2, <3>3, <4>1, PlacesClear
      <4>3. QED
        BY <4>1, <4>2
    <3>5. QED
      BY <3>4, Queues
  <2>6. Len(pending[c]) \in Nat /\ dropped'[p] = dropped[p] + Len(pending[c])
    BY <1>1, <1>2, <2>1
  <2>7. Cardinality(Lapsed(p)') <= Cardinality(Lapsed(p)) + Len(pending[c])
    <3>1. \A d : d # c => (d \in Lapsed(p)' <=> d \in Lapsed(p))
      BY <2>3, <2>4 DEF Lapsed, At, ConnectionsTo
    <3>2. CASE c \in Lapsed(p)' /\ c \notin Lapsed(p)
      <4>1. Cardinality(Lapsed(p)') = Cardinality(Lapsed(p)) + 1
        BY <1>2, <1>3, <3>1, <3>2, OneMore
      <4>2. pending[c] # <<>>
        BY <2>3, <2>4, <3>2 DEF Lapsed
      <4>3. Len(pending[c]) > 0
        BY <1>1, <4>2
      <4>4. QED
        BY <1>2, <1>3, <2>6, <4>1, <4>3
    <3>3. CASE ~(c \in Lapsed(p)' /\ c \notin Lapsed(p))
      <4>1. Lapsed(p)' \in SUBSET Lapsed(p)
        BY <3>1, <3>3
      <4>2. Cardinality(Lapsed(p)') <= Cardinality(Lapsed(p))
        BY <1>2, <1>3, <4>1, Finite, FS_Subset
      <4>3. QED
        BY <1>2, <1>3, <2>6, <4>2
    <3>4. QED
      BY <3>2, <3>3
  <2>8. Cardinality(UnderWay(p)') \in Nat
    <3>1. \A d \in ConnectionsTo(p) : pending'[d] \in Seq(Piece \X Block)
      <4>1. <<>> \in Seq(Piece \X Block)
        OBVIOUS
      <4>2. QED
        BY <1>2, <2>3, <4>1, Queues
    <3>2. QED
      BY <3>1, Queues, PlacesFinite
  <2>9. CountedAt(p)'
    <3>1. p \in Peer /\ conns'[p] # {}
      BY <1>2, <2>1, <2>3, <2>4, <2>5, <2>6, <2>7, <2>8
    <3>2. /\ dropped[p] \in Nat /\ Cardinality(UnderWay(p)) \in Nat
          /\ peer[p].requesting_piece + Cardinality(At(p, {"count"}))
               = Cardinality(UnderWay(p)) + Cardinality(At(p, {"have", "piece_count"}))
                 + dropped[p]
          /\ Cardinality(Lapsed(p)) <= dropped[p]
          /\ Cardinality(At(p, {"count"})) \in Nat
          /\ Cardinality(At(p, {"count"})') \in Nat
          /\ Cardinality(At(p, {"have", "piece_count"})) \in Nat
          /\ Cardinality(At(p, {"have", "piece_count"})') \in Nat
          /\ Cardinality(Lapsed(p)) \in Nat /\ Cardinality(Lapsed(p)') \in Nat
          /\ peer[p].requesting_piece \in Nat
      BY <1>3, <3>1
    <3>3. peer'[p].requesting_piece = peer[p].requesting_piece
      BY <2>1
    <3>4. PICK n \in Nat :
                /\ Cardinality(UnderWay(p)) = Cardinality(UnderWay(p)') + n
                /\ dropped'[p] = dropped[p] + n
                /\ Cardinality(Lapsed(p)') <= Cardinality(Lapsed(p)) + n
      BY <2>5, <2>6, <2>7
    <3>5. peer'[p].requesting_piece + Cardinality(At(p, {"count"})')
            = Cardinality(UnderWay(p)') + Cardinality(At(p, {"have", "piece_count"})')
              + dropped'[p]
      BY <3>2, <3>3, <3>4, <2>4, <2>8
    <3>6. Cardinality(Lapsed(p)') <= dropped'[p]
      BY <3>2, <3>4
    <3>7. QED
      BY <3>1, <3>5, <3>6, Balanced
  <2>10. \A q \in Peer \ {p} : dropped'[q] = dropped[q]
    BY <1>1, <2>1
  <2>11. QED
    BY <2>1, <2>3, <2>9, <2>10, OtherPeers
<1>10. ASSUME NEW c \in Connection, disconnect_state(c) PROVE CountInv'
  <2> DEFINE p == PeerOf[c]
  <2>1. /\ pc[c] = "disconnect" /\ UNCHANGED pending
        /\ \E s \in {"no_more", "closed"} : pc' = [pc EXCEPT ![c] = s]
        /\ conns' = [conns EXCEPT ![p] = @ \ {c}]
    BY <1>10 DEF disconnect_state, Goto
  <2>2. DOMAIN conns = Peer
    BY DEF TypeOK
  <2>3. /\ \A d \in Connection \ {c} : pc'[d] = pc[d]
        /\ pc'[c] \in {"no_more", "closed"}
        /\ \A q \in Peer \ {p} : conns'[q] = conns[q]
        /\ conns'[p] = conns[p] \ {c}
    BY <1>1, <1>2, <2>1, <2>2
  <2>4. CASE conns'[p] # {}
    <3>1. UNCHANGED <<peer, dropped>>
      BY <1>10, <2>3, <2>4 DEF disconnect_state
    <3>2. QED
      BY <2>1, <2>3, <2>4, <3>1, Quiet
  <2>5. CASE conns'[p] = {}
    <3>1. /\ peer' = [peer EXCEPT ![p] = PeerState]
          /\ dropped' = [dropped EXCEPT ![p] = 0]
      BY <1>10, <2>3, <2>5 DEF disconnect_state
    <3>2. /\ peer'[p] = PeerState /\ dropped'[p] = 0
          /\ \A q \in Peer \ {p} : peer'[q] = peer[q] /\ dropped'[q] = dropped[q]
      BY <1>1, <1>2, <3>1
    <3>3. peer'[p].requesting_piece = 0
      BY <3>2 DEF PeerState
    <3>4. \A d \in ConnectionsTo(p) : pc'[d] \in Away \cup {"connect", "state", "no_more"}
      BY <1>2, <2>5, MembersStep DEF MembersInv, ConnectionsTo
    <3>5. \A d \in ConnectionsTo(p) : pending'[d] = <<>>
      BY <3>4, LocalStep DEF LocalInv, ConnectionsTo, Away, ConnectPc, LeavePc
    <3>6. Cardinality(UnderWay(p)') = 0
      BY <3>5, Queues, PlacesNone
    <3>7. At(p, {"count"})' = {} /\ At(p, {"have", "piece_count"})' = {}
      BY <3>4 DEF At, ConnectionsTo, Away
    <3>8. Lapsed(p)' = {}
      BY <3>7 DEF Lapsed
    <3>9. CountedAt(p)'
      BY <3>2, <3>3, <3>6, <3>7, <3>8, FS_EmptySet DEF CountedAt, Counted
    <3>10. QED
      BY <2>1, <2>3, <3>2, <3>9, OtherPeers
  <2>6. QED
    BY <2>4, <2>5
<1>11. ASSUME NEW c \in Connection, NEW s, pc' = [pc EXCEPT ![c] = s],
              s \notin {"count", "have", "piece_count"},
              pc[c] \notin {"count", "have", "piece_count"},
              UNCHANGED <<pending, dropped>>,
              \A p \in Peer : /\ peer'[p].requesting_piece = peer[p].requesting_piece
                              /\ conns'[p] = {} => conns[p] = {}
       PROVE  CountInv'
  BY <1>1, <1>11, Quiet
<1>12. peer \in [Peer -> [populated : BOOLEAN, pieces : SUBSET Piece,
                          am_choking : BOOLEAN, am_interested : BOOLEAN,
                          requesting_piece : Nat]]
  BY DEF TypeOK
<1>13. ASSUME NEW c \in Connection,
              \/ setup_connect(c) \/ connect_inherited(c) \/ disconnect_notify(c)
              \/ connect_state(c)
       PROVE  CountInv'
  <2>1. /\ \E s : /\ s \notin {"count", "have", "piece_count"}
                  /\ pc' = [pc EXCEPT ![c] = s]
        /\ UNCHANGED <<pending, dropped, peer>>
    BY <1>13 DEF setup_connect, connect_inherited, disconnect_notify,
       connect_state, Goto, stateVars, peerVars, remoteVars
  <2>2. pc[c] \notin {"count", "have", "piece_count"}
    BY <1>13 DEF setup_connect, connect_inherited, disconnect_notify,
       connect_state, MembersInv
  <2>3. \A p \in Peer : conns'[p] = {} => conns[p] = {}
    <3>1. DOMAIN conns = Peer
      BY DEF TypeOK
    <3>2. QED
      BY <1>13, <3>1 DEF setup_connect, connect_inherited, disconnect_notify,
         connect_state, stateVars
  <2>4. QED
    BY <1>11, <2>1, <2>2, <2>3
<1>14. ASSUME NEW c \in Connection, notify_have_connect(c) PROVE CountInv'
  <2>1. pc[c] = "have_connect" /\ UNCHANGED <<pending, dropped, peer, conns>>
    BY <1>14 DEF notify_have_connect, stateVars, peerVars, remoteVars
  <2>2. ASSUME NEW d \in Connection, pc[d] = "none",
               pc' = [pc EXCEPT ![c] = "idle", ![d] = "connect"]
        PROVE  CountInv'
    BY <1>1, <2>1, <2>2, Quiet
  <2>3. CASE pc' = [pc EXCEPT ![c] = "idle"]
    BY <1>11, <2>1, <2>3
  <2>4. QED
    BY <1>14, <2>2, <2>3 DEF notify_have_connect, Goto
<1>15. ASSUME NEW c \in Connection,
              \/ populatePeerPiecesBitfield(c) \/ connect_handshake(c)
              \/ connect_bitfield(c) \/ connect_send_bitfield(c)
              \/ requestNextPiece(c) \/ send_not_interested(c)
              \/ send_interested(c)
       PROVE  CountInv'
  <2>1. /\ \E s : /\ s \notin {"count", "have", "piece_count"}
                  /\ pc' = [pc EXCEPT ![c] = s]
        /\ pc[c] \notin {"count", "have", "piece_count"}
    BY <1>15 DEF populatePeerPiecesBitfield, connect_handshake, connect_bitfield,
       connect_send_bitfield, requestNextPiece, send_not_interested,
       send_interested, Goto, Return
  <2>2. UNCHANGED <<pending, dropped, conns>>
    BY <1>15 DEF populatePeerPiecesBitfield, connect_handshake, connect_bitfield,
       connect_send_bitfield, requestNextPiece, send_not_interested,
       send_interested, stateVars, peerVars, remoteVars
  <2>3. \A p \in Peer : peer'[p].requesting_piece = peer[p].requesting_piece
    <3>1. \/ UNCHANGED peer
          \/ peer' = [peer EXCEPT ![PeerOf[c]].populated = TRUE]
          \/ peer' = [peer EXCEPT ![PeerOf[c]].am_interested = FALSE]
      BY <1>15 DEF populatePeerPiecesBitfield, connect_handshake,
         connect_bitfield, connect_send_bitfield, requestNextPiece,
         send_not_interested, send_interested, stateVars
    <3>2. QED
      BY <1>2, <1>12, <3>1
  <2>4. QED
    BY <1>11, <2>1, <2>2, <2>3
<1>16. ASSUME NEW c \in Connection,
              \/ notify_have_test(c) \/ notify_complete(c) \/ notify_unchoke(c)
              \/ notify_bitfield(c) \/ \E i \in Piece : notify_have(c, i)
       PROVE  CountInv'
  <2>1. /\ \E s : /\ s \notin {"count", "have", "piece_count"}
                  /\ pc' = [pc EXCEPT ![c] = s]
        /\ pc[c] \notin {"count", "have", "piece_count"}
    BY <1>16 DEF notify_have_test, notify_complete, notify_unchoke,
       notify_bitfield, notify_have, Goto, Return
  <2>2. UNCHANGED <<pending, dropped, conns>>
    BY <1>16 DEF notify_have_test, notify_complete, notify_unchoke,
       notify_bitfield, notify_have, stateVars, peerVars, remoteVars
  <2>3. \A p \in Peer : peer'[p].requesting_piece = peer[p].requesting_piece
    <3>1. CASE notify_have_test(c) \/ notify_complete(c)
      BY <3>1 DEF notify_have_test, notify_complete, stateVars
    <3>2. CASE notify_unchoke(c)
      BY <1>2, <1>12, <3>2 DEF notify_unchoke
    <3>3. CASE notify_bitfield(c)
      BY <1>2, <1>12, <3>3 DEF notify_bitfield
    <3>4. ASSUME NEW i \in Piece, notify_have(c, i)
          PROVE  \A p \in Peer : peer'[p].requesting_piece = peer[p].requesting_piece
      BY <1>2, <1>12, <3>4 DEF notify_have
    <3>5. QED
      BY <1>16, <3>1, <3>2, <3>3, <3>4
  <2>4. QED
    BY <1>11, <2>1, <2>2, <2>3
<1>17. ASSUME NEW c \in Connection, have(c) PROVE CountInv'
  <2>1. /\ pc[c] = "have" /\ pc' = [pc EXCEPT ![c] = "piece_count"]
        /\ UNCHANGED <<pending, dropped, conns, peer>>
    BY <1>17 DEF have, Goto, stateVars, peerVars, remoteVars
  <2>2. QED
    BY <1>1, <2>1, Quiet
<1>18. ASSUME NEW c \in Connection, notify_choke(c) \/ remote_unchoke(c)
       PROVE  CountInv'
  <2>1. UNCHANGED <<pc, pending, dropped, conns>>
    BY <1>18 DEF notify_choke, remote_unchoke, stateVars
  <2>2. \A p \in Peer : peer'[p].requesting_piece = peer[p].requesting_piece
    BY <1>2, <1>12, <1>18 DEF notify_choke, remote_unchoke, stateVars
  <2>3. QED
    BY <2>1, <2>2, Quiet
<1>19. CASE setup_done
  BY <1>19, Quiet DEF setup_done, stateVars, peerVars, remoteVars
<1>20. ASSUME NEW c \in Connection, Serve(c) PROVE CountInv'
  BY <1>5, <1>6, <1>7, <1>8, <1>15, <1>16, <1>17, <1>20, Zenon DEF Serve
<1>21. ASSUME NEW c \in Connection, Still(c) PROVE CountInv'
  BY <1>9, <1>18, <1>21, Zenon DEF Still
<1>22. QED
  BY <1>9, <1>10, <1>13, <1>14, <1>19, <1>20, <1>21, Cases, Zenon

-----------------------------------------------------------------------------
(* The types.                                                               *)

\* A reply is counted down only when its request has been counted.
LEMMA CountedBefore ==
  ASSUME IInv, NEW c \in Connection, pc[c] = "piece_count"
  PROVE  peer[PeerOf[c]].requesting_piece > 0
<1> USE DEF IInv
<1> DEFINE p == PeerOf[c]
           N == At(p, {"count"}) \ Lapsed(p)
<1>1. p \in Peer
  BY BitTorrentAssumption
<1>2. /\ peer[p].requesting_piece \in Nat /\ dropped[p] \in Nat
      /\ Cardinality(UnderWay(p)) \in Nat
      /\ Cardinality(At(p, {"count"})) \in Nat
      /\ Cardinality(At(p, {"have", "piece_count"})) \in Nat
      /\ Cardinality(Lapsed(p)) \in Nat
  BY <1>1, Numbers, AtFinite
<1>3. /\ peer[p].requesting_piece + Cardinality(At(p, {"count"}))
           = Cardinality(UnderWay(p)) + Cardinality(At(p, {"have", "piece_count"}))
             + dropped[p]
      /\ Cardinality(Lapsed(p)) <= dropped[p]
  BY <1>1 DEF CountInv, CountedAt, Counted
<1>4. Cardinality(At(p, {"have", "piece_count"})) > 0
  <2>1. pc[c] \in {"have", "piece_count"}
    OBVIOUS
  <2>2. c \in At(p, {"have", "piece_count"})
    BY <2>1, AtMember
  <2>3. At(p, {"have", "piece_count"}) \in SUBSET Connection
    BY AtFinite
  <2>4. IsFiniteSet(At(p, {"have", "piece_count"}))
    BY <2>3, Finite
  <2>5. Cardinality(At(p, {"have", "piece_count"})) # 0
    BY <2>2, <2>4, FS_EmptySet
  <2>6. QED
    BY <1>2, <2>5
<1>5. Cardinality(N) <= Cardinality(UnderWay(p)) /\ Cardinality(N) \in Nat
  <2>1. N \in SUBSET ConnectionsTo(p)
    BY DEF At
  <2>2. \A d \in N : pending[d] # <<>>
    BY DEF Lapsed
  <2>3. \A d \in ConnectionsTo(p) : pending[d] \in Seq(Piece \X Block)
    BY DEF TypeOK, ConnectionsTo
  <2> HIDE DEF N
  <2>4. Cardinality(N) <= Cardinality(Places(pending, ConnectionsTo(p)))
        /\ Cardinality(N) \in Nat
    BY <2>1, <2>2, <2>3, Queues, PlacesMany
  <2>5. QED
    BY <2>4, Queues
<1>6. Cardinality(At(p, {"count"})) = Cardinality(N) + Cardinality(Lapsed(p))
  <2>1. At(p, {"count"}) = N \cup Lapsed(p) /\ N \cap Lapsed(p) = {}
    BY DEF Lapsed
  <2>2. N \in SUBSET Connection /\ Lapsed(p) \in SUBSET Connection
    BY DEF At, Lapsed, ConnectionsTo
  <2> HIDE DEF N
  <2>3. IsFiniteSet(N) /\ IsFiniteSet(Lapsed(p))
    BY <2>2, Finite
  <2>4. Cardinality(N \cup Lapsed(p))
          = Cardinality(N) + Cardinality(Lapsed(p)) - Cardinality(N \cap Lapsed(p))
    BY <2>3, FS_Union
  <2>5. Cardinality(N \cap Lapsed(p)) = 0
    BY <2>1, FS_EmptySet
  <2>6. Cardinality(At(p, {"count"})) = Cardinality(N \cup Lapsed(p))
    BY <2>1
  <2> HIDE DEF p
  <2>7. QED
    BY <1>2, <1>5, <2>4, <2>5, <2>6
<1> HIDE DEF N, p
<1>7. peer[p].requesting_piece > 0
  BY <1>2, <1>3, <1>4, <1>5, <1>6
<1>8. QED
  BY <1>7 DEF p

PeerType == [populated : BOOLEAN, pieces : SUBSET Piece, am_choking : BOOLEAN,
             am_interested : BOOLEAN, requesting_piece : Nat]

LocalType == [index : Piece \cup {None}, block : Block \cup {None},
              then : {"none", "missing", "next", "complete"},
              bitfield : SUBSET Piece]

LEMMA PeerStep ==
  ASSUME IInv, Next
  PROVE  peer' \in [Peer -> PeerType]
<1> USE DEF IInv
<1>1. peer \in [Peer -> PeerType] /\ DOMAIN peer = Peer
  BY DEF TypeOK, PeerType
<1>2. \A c \in Connection : PeerOf[c] \in Peer
  BY BitTorrentAssumption
<1>3. \A c \in Connection : peer[PeerOf[c]] \in PeerType
  BY <1>1, <1>2
<1>4. ASSUME NEW c \in Connection, disconnect_state(c) PROVE peer' \in [Peer -> PeerType]
  <2>1. PeerState \in PeerType
    BY DEF PeerState, PeerType
  <2>2. UNCHANGED peer \/ peer' = [peer EXCEPT ![PeerOf[c]] = PeerState]
    BY <1>4 DEF disconnect_state
  <2>3. CASE UNCHANGED peer
    BY <1>1, <2>3
  <2>4. CASE peer' = [peer EXCEPT ![PeerOf[c]] = PeerState]
    <3>1. PeerOf[c] \in Peer
      BY <1>2
    <3>2. QED
      BY <1>1, <2>1, <2>4, <3>1
  <2>5. QED
    BY <2>2, <2>3, <2>4
<1>5. ASSUME NEW c \in Connection, populatePeerPiecesBitfield(c)
      PROVE  peer' \in [Peer -> PeerType]
  BY <1>1, <1>2, <1>3, <1>5 DEF populatePeerPiecesBitfield, PeerType
<1>6. ASSUME NEW c \in Connection, requestNextPiece(c)
      PROVE  peer' \in [Peer -> PeerType]
  <2>1. UNCHANGED peer \/ peer' = [peer EXCEPT ![PeerOf[c]].am_interested = FALSE]
    BY <1>6 DEF requestNextPiece
  <2>2. CASE UNCHANGED peer
    BY <1>1, <2>2
  <2>3. CASE peer' = [peer EXCEPT ![PeerOf[c]].am_interested = FALSE]
    BY <1>1, <1>2, <1>3, <2>3 DEF PeerType
  <2>4. QED
    BY <2>1, <2>2, <2>3
<1>7. ASSUME NEW c \in Connection, count(c) PROVE peer' \in [Peer -> PeerType]
  BY <1>1, <1>2, <1>3, <1>7 DEF count, PeerType
<1>8. ASSUME NEW c \in Connection, notify_piece_count(c)
      PROVE  peer' \in [Peer -> PeerType]
  <2>1. peer[PeerOf[c]].requesting_piece > 0
    BY <1>8, CountedBefore DEF notify_piece_count
  <2>2. peer[PeerOf[c]].requesting_piece \in Nat
    BY <1>3 DEF PeerType
  <2>3. peer[PeerOf[c]].requesting_piece - 1 \in Nat
    BY <2>1, <2>2
  <2>4. QED
    BY <1>1, <1>2, <1>3, <1>8, <2>3 DEF notify_piece_count, PeerType
<1>9. ASSUME NEW c \in Connection, notify_choke(c) PROVE peer' \in [Peer -> PeerType]
  BY <1>1, <1>2, <1>3, <1>9 DEF notify_choke, PeerType
<1>10. ASSUME NEW c \in Connection, notify_unchoke(c) PROVE peer' \in [Peer -> PeerType]
  BY <1>1, <1>2, <1>3, <1>10 DEF notify_unchoke, PeerType
<1>11. ASSUME NEW c \in Connection, NEW x \in SUBSET Piece, NEW y \in BOOLEAN,
              peer' = [peer EXCEPT ![PeerOf[c]].pieces = x,
                                   ![PeerOf[c]].am_interested = @ \/ y]
       PROVE  peer' \in [Peer -> PeerType]
  <2>1. peer[PeerOf[c]].am_interested \in BOOLEAN
    BY <1>3 DEF PeerType
  <2>2. (peer[PeerOf[c]].am_interested \/ y) \in BOOLEAN
    BY <2>1
  <2>3. PICK z \in BOOLEAN : peer' = [peer EXCEPT ![PeerOf[c]].pieces = x,
                                                 ![PeerOf[c]].am_interested = z]
    BY <1>1, <1>2, <1>11, <2>1
  <2>4. QED
    BY <1>1, <1>2, <1>3, <2>3 DEF PeerType
<1>12. ASSUME NEW c \in Connection, notify_bitfield(c) PROVE peer' \in [Peer -> PeerType]
  <2> DEFINE x == First[PeerOf[c]] \cup UNION {heard[d] : d \in conns[PeerOf[c]]}
             y == ~peer[PeerOf[c]].am_interested /\ hasMissingPiece(x)
  <2>1. x \in SUBSET Piece
    <3>1. First[PeerOf[c]] \in SUBSET Piece
      BY <1>2, BitTorrentAssumption
    <3>2. conns[PeerOf[c]] \in SUBSET Connection /\ \A d \in Connection : heard[d] \in SUBSET Piece
      BY <1>2 DEF TypeOK
    <3>3. QED
      BY <3>1, <3>2
  <2>2. peer' = [peer EXCEPT ![PeerOf[c]].pieces = x,
                             ![PeerOf[c]].am_interested = @ \/ y]
    BY <1>12 DEF notify_bitfield
  <2>3. y \in BOOLEAN
    OBVIOUS
  <2> HIDE DEF x, y
  <2>4. QED
    BY <1>11, <2>1, <2>2, <2>3
<1>13. ASSUME NEW c \in Connection, NEW i \in Piece, notify_have(c, i)
       PROVE  peer' \in [Peer -> PeerType]
  <2> DEFINE x == peer[PeerOf[c]].pieces \cup {i}
             y == ~peer[PeerOf[c]].am_interested /\ hasMissingPiece(x)
  <2>1. x \in SUBSET Piece
    BY <1>3 DEF PeerType
  <2>2. peer' = [peer EXCEPT ![PeerOf[c]].pieces = x,
                             ![PeerOf[c]].am_interested = @ \/ y]
    BY <1>13 DEF notify_have
  <2>3. y \in BOOLEAN
    OBVIOUS
  <2> HIDE DEF x, y
  <2>4. QED
    BY <1>11, <2>1, <2>2, <2>3
<1>14. ASSUME NEW c \in Connection, NEW data \in {"good", "bad"}, notify_piece(c, data)
       PROVE  peer' \in [Peer -> PeerType]
  BY <1>1, <1>14, StoredFrame DEF stateVars
<1>15. ASSUME NEW c \in Connection,
              \/ setup_connect(c) \/ connect_inherited(c) \/ connect_state(c)
              \/ disconnect_inherited(c) \/ disconnect_notify(c)
              \/ notify_have_connect(c) \/ remote_choke(c) \/ remote_unchoke(c)
       PROVE  peer' \in [Peer -> PeerType]
  <2>1. UNCHANGED peer
    BY <1>15 DEF setup_connect, connect_inherited, connect_state,
       disconnect_inherited, disconnect_notify, notify_have_connect,
       remote_choke, remote_unchoke, stateVars
  <2>2. QED
    BY <1>1, <2>1
<1>16. ASSUME NEW c \in Connection,
              \/ connect_handshake(c) \/ connect_bitfield(c)
              \/ connect_send_bitfield(c) \/ request(c) \/ have(c)
              \/ send_not_interested(c) \/ send_interested(c)
              \/ notify_have_test(c) \/ notify_complete(c)
       PROVE  peer' \in [Peer -> PeerType]
  <2>1. UNCHANGED peer
    BY <1>16 DEF connect_handshake, connect_bitfield, connect_send_bitfield,
       request, have, send_not_interested, send_interested, notify_have_test,
       notify_complete, stateVars
  <2>2. QED
    BY <1>1, <2>1
<1>17. CASE setup_done
  BY <1>1, <1>17 DEF setup_done, stateVars
<1>18. ASSUME NEW c \in Connection, Serve(c) PROVE peer' \in [Peer -> PeerType]
  BY <1>5, <1>6, <1>7, <1>8, <1>10, <1>12, <1>13, <1>14, <1>16, <1>18, Zenon DEF Serve
<1>19. QED
  BY <1>4, <1>9, <1>15, <1>17, <1>18, Cases, Zenon DEF Still

LEMMA ControlStep ==
  ASSUME IInv, Next
  PROVE  pc' \in [Connection -> Away \cup {"idle"} \cup ConnectPc \cup NotifyPc
                                \cup LeavePc]
<1> USE DEF IInv
<1> DEFINE P == Away \cup {"idle"} \cup ConnectPc \cup NotifyPc \cup LeavePc
<1>1. pc \in [Connection -> P]
  BY DEF TypeOK
<1>2. Served \subseteq P /\ {"connect", "closed", "idle", "disconnect", "no_more",
                             "state", "populate", "handshake"} \subseteq P
  BY DEF Served, Away, ConnectPc, NotifyPc, LeavePc
<1> HIDE DEF P
<1>3. ASSUME NEW c \in Connection, NEW s \in P, pc' = [pc EXCEPT ![c] = s]
      PROVE  pc' \in [Connection -> P]
  BY <1>1, <1>3
<1>4. ASSUME NEW c \in Connection, Serve(c) PROVE pc' \in [Connection -> P]
  BY <1>2, <1>3, <1>4, Serving
<1>5. ASSUME NEW c \in Connection, setup_connect(c) \/ connect_inherited(c)
             \/ connect_state(c) \/ disconnect_inherited(c) \/ disconnect_state(c)
             \/ disconnect_notify(c)
      PROVE  pc' \in [Connection -> P]
  <2>1. \E s \in {"connect", "closed", "disconnect", "no_more", "state",
                  "populate", "handshake"} : pc' = [pc EXCEPT ![c] = s]
    BY <1>5 DEF setup_connect, connect_inherited, connect_state,
       disconnect_inherited, disconnect_state, disconnect_notify, Goto
  <2>2. QED
    BY <1>2, <1>3, <2>1
<1>6. ASSUME NEW c \in Connection, notify_have_connect(c)
      PROVE  pc' \in [Connection -> P]
  BY <1>1, <1>2, <1>6 DEF notify_have_connect, Goto
<1>7. ASSUME NEW c \in Connection, Still(c) PROVE pc' \in [Connection -> P]
  BY <1>1, <1>7 DEF Still, notify_choke, remote_choke, remote_unchoke
<1>8. ASSUME setup_done PROVE pc' \in [Connection -> P]
  BY <1>1, <1>8 DEF setup_done
<1>9. pc' \in [Connection -> P]
  BY <1>4, <1>5, <1>6, <1>7, <1>8, Cases, Zenon
<1>10. QED
  BY <1>9 DEF P

LEMMA LocalTypeStep ==
  ASSUME IInv, Next
  PROVE  local' \in [Connection -> LocalType]
<1> USE DEF IInv
<1>1. local \in [Connection -> LocalType]
  BY DEF TypeOK, LocalType
<1>2. Fresh \in LocalType
  BY DEF Fresh, LocalType
<1>3. ASSUME NEW c \in Connection, requestNextPiece(c)
      PROVE  local' \in [Connection -> LocalType]
  <2>1. CASE UNCHANGED local
    BY <1>1, <2>1
  <2>2. ASSUME NEW i \in Piece, NEW b \in Block,
               local' = [local EXCEPT ![c].index = i, ![c].block = b]
        PROVE  local' \in [Connection -> LocalType]
    BY <1>1, <2>2 DEF LocalType
  <2>3. \/ UNCHANGED local
        \/ \E i \in Piece : \E b \in Block :
             local' = [local EXCEPT ![c].index = i, ![c].block = b]
    BY <1>3 DEF requestNextPiece, Missing, getMissingChunks
  <2>4. QED
    BY <2>1, <2>2, <2>3
<1>4. ASSUME NEW c \in Connection, NEW data \in {"good", "bad"}, notify_piece(c, data)
      PROVE  local' \in [Connection -> LocalType]
  <2>1. PICK i \in Piece, now \in [Block -> {"none", "good", "bad"}],
             isSaved \in BOOLEAN : Store(c, i, now, isSaved)
    BY <1>4, Stored
  <2>2. \E t \in {"none", "next", "complete"} :
          local' = [local EXCEPT ![c] = [Fresh EXCEPT !.index = i, !.then = t]]
    BY <2>1 DEF Store
  <2>3. PICK t \in {"none", "next", "complete"} :
          local' = [local EXCEPT ![c] = [Fresh EXCEPT !.index = i, !.then = t]]
    BY <2>2
  <2>4. [Fresh EXCEPT !.index = i, !.then = t] \in LocalType
    BY DEF Fresh, LocalType
  <2>5. QED
    BY <1>1, <2>3, <2>4
<1>5. ASSUME NEW c \in Connection, connect_bitfield(c)
      PROVE  local' \in [Connection -> LocalType]
  BY <1>1, <1>5 DEF connect_bitfield, Missing, LocalType
<1>6. ASSUME NEW c \in Connection, NEW i \in Piece, notify_have(c, i)
      PROVE  local' \in [Connection -> LocalType]
  <2>1. PICK t \in {"missing", "none"} : local' = [local EXCEPT ![c].then = t]
    BY <1>6 DEF notify_have
  <2>2. QED
    BY <1>1, <2>1 DEF LocalType
<1>7. ASSUME NEW c \in Connection,
             \/ connect_send_bitfield(c) \/ count(c) \/ send_not_interested(c)
             \/ send_interested(c) \/ notify_have_test(c)
             \/ notify_piece_count(c) \/ notify_complete(c)
      PROVE  local' \in [Connection -> LocalType]
  <2>1. UNCHANGED local \/ local' = [local EXCEPT ![c] = Fresh]
    BY <1>7 DEF connect_send_bitfield, count, send_not_interested, send_interested,
       notify_have_test, notify_piece_count, notify_complete, Return
  <2>2. QED
    BY <1>1, <1>2, <2>1
<1>8. ASSUME NEW c \in Connection,
             \/ populatePeerPiecesBitfield(c) \/ connect_handshake(c)
             \/ request(c) \/ have(c) \/ notify_unchoke(c) \/ notify_bitfield(c)
      PROVE  local' \in [Connection -> LocalType]
  BY <1>1, <1>8 DEF populatePeerPiecesBitfield, connect_handshake, request, have,
     notify_unchoke, notify_bitfield
<1>9. ASSUME NEW c \in Connection,
             \/ setup_connect(c) \/ connect_inherited(c) \/ connect_state(c)
             \/ disconnect_inherited(c) \/ disconnect_state(c)
             \/ disconnect_notify(c) \/ notify_have_connect(c)
      PROVE  local' \in [Connection -> LocalType]
  BY <1>1, <1>9 DEF setup_connect, connect_inherited, connect_state,
     disconnect_inherited, disconnect_state, disconnect_notify, notify_have_connect
<1>10. ASSUME NEW c \in Connection, Still(c) PROVE local' \in [Connection -> LocalType]
  BY <1>1, <1>10 DEF Still, notify_choke, remote_choke, remote_unchoke
<1>11. CASE setup_done
  BY <1>1, <1>11 DEF setup_done
<1>12. ASSUME NEW c \in Connection, Serve(c) PROVE local' \in [Connection -> LocalType]
  BY <1>3, <1>4, <1>5, <1>6, <1>7, <1>8, <1>12, Zenon DEF Serve
<1>13. QED
  BY <1>9, <1>10, <1>11, <1>12, Cases, Zenon

\* The session's own variables.
LEMMA SessionTypeStep ==
  ASSUME IInv, Next
  PROVE  /\ connecting' \in BOOLEAN /\ todo' \subseteq Initial
         /\ connections' \subseteq Connection
         /\ conns' \in [Peer -> SUBSET Connection]
<1> USE DEF IInv
<1> DEFINE Goal == /\ connecting' \in BOOLEAN /\ todo' \subseteq Initial
                   /\ connections' \subseteq Connection
                   /\ conns' \in [Peer -> SUBSET Connection]
<1>1. /\ connecting \in BOOLEAN /\ todo \subseteq Initial
      /\ connections \subseteq Connection
      /\ conns \in [Peer -> SUBSET Connection]
  BY DEF TypeOK
<1>2. ASSUME NEW c \in Connection,
             \/ setup_connect(c) \/ connect_inherited(c) \/ connect_state(c)
             \/ disconnect_inherited(c)
      PROVE  Goal
  BY <1>1, <1>2 DEF setup_connect, connect_inherited, connect_state,
     disconnect_inherited, setupVars, stateVars
<1>3. ASSUME NEW c \in Connection,
             \/ disconnect_state(c) \/ disconnect_notify(c) \/ notify_have_connect(c)
      PROVE  Goal
  BY <1>1, <1>3 DEF disconnect_state, disconnect_notify, notify_have_connect,
     setupVars, stateVars
<1>4. ASSUME NEW c \in Connection, Serve(c) PROVE Goal
  BY <1>1, <1>4, Serving
<1>5. ASSUME NEW c \in Connection, Still(c) PROVE Goal
  BY <1>1, <1>5 DEF Still, notify_choke, remote_choke, remote_unchoke, setupVars,
     stateVars
<1>6. ASSUME setup_done PROVE Goal
  BY <1>1, <1>6 DEF setup_done, stateVars
<1> HIDE DEF Goal
<1>7. Goal
  BY <1>2, <1>3, <1>4, <1>5, <1>6, Cases, Zenon
<1>8. QED
  BY <1>7 DEF Goal

\* What the session has stored, sent and raised.
LEMMA HistoryTypeStep ==
  ASSUME IInv, Next
  PROVE  /\ chunks' \in [Piece -> [Block -> {"none", "good", "bad"}]]
         /\ saved' \subseteq Piece /\ shaken' \subseteq Connection
         /\ told' \in [Connection -> SUBSET Piece]
         /\ completions' \in Nat /\ no_more' \in BOOLEAN
<1> USE DEF IInv
<1> DEFINE Goal == /\ chunks' \in [Piece -> [Block -> {"none", "good", "bad"}]]
                   /\ saved' \subseteq Piece /\ shaken' \subseteq Connection
                   /\ told' \in [Connection -> SUBSET Piece]
                   /\ completions' \in Nat /\ no_more' \in BOOLEAN
           Same == UNCHANGED <<chunks, saved, shaken, told, completions, no_more>>
<1>1. /\ chunks \in [Piece -> [Block -> {"none", "good", "bad"}]]
      /\ saved \subseteq Piece /\ shaken \subseteq Connection
      /\ told \in [Connection -> SUBSET Piece]
      /\ completions \in Nat /\ no_more \in BOOLEAN
  BY DEF TypeOK
<1>2. ASSUME Same PROVE Goal
  BY <1>1, <1>2
<1>3. ASSUME NEW c \in Connection, NEW data \in {"good", "bad"}, notify_piece(c, data)
      PROVE  Goal
  <2>1. PICK i \in Piece, now \in [Block -> {"none", "good", "bad"}],
             isSaved \in BOOLEAN : Store(c, i, now, isSaved)
    BY <1>3, Stored
  <2>2. chunks' = [chunks EXCEPT ![i] = now] /\ saved' \subseteq saved \cup {i}
    BY <2>1 DEF Store
  <2>3. UNCHANGED <<shaken, told, completions, no_more>>
    BY <1>3, StoredFrame DEF sentVars, eventVars
  <2>4. QED
    BY <1>1, <2>2, <2>3
<1>4. ASSUME NEW c \in Connection, connect_handshake(c) PROVE Goal
  BY <1>1, <1>4 DEF connect_handshake, pieceVars, eventVars
<1>5. ASSUME NEW c \in Connection, connect_send_bitfield(c) PROVE Goal
  <2>1. local[c].bitfield \subseteq Piece
    BY DEF TypeOK
  <2>2. QED
    BY <1>1, <1>5, <2>1 DEF connect_send_bitfield, pieceVars, eventVars
<1>6. ASSUME NEW c \in Connection, have(c) PROVE Goal
  <2>1. local[c].index \in Piece
    BY <1>6 DEF LocalInv, have
  <2>2. QED
    BY <1>1, <1>6, <2>1 DEF have, pieceVars, eventVars
<1>7. ASSUME NEW c \in Connection, disconnect_notify(c) \/ notify_complete(c)
      PROVE  Goal
  <2>1. /\ UNCHANGED <<chunks, saved, shaken, told>>
        /\ completions' = completions + 1 \/ UNCHANGED completions
        /\ no_more' = TRUE \/ UNCHANGED no_more
    BY <1>7 DEF disconnect_notify, notify_complete, pieceVars, sentVars
  <2>2. completions' \in Nat
    BY <1>1, <2>1
  <2>3. no_more' \in BOOLEAN
    BY <1>1, <2>1, Zenon
  <2>4. QED
    BY <1>1, <2>1, <2>2, <2>3
<1> HIDE DEF Goal
<1>8. ASSUME NEW c \in Connection,
             \/ setup_connect(c) \/ connect_inherited(c) \/ connect_state(c)
             \/ disconnect_inherited(c) \/ disconnect_state(c)
             \/ notify_have_connect(c)
      PROVE  Goal
  <2>1. Same
    BY <1>8 DEF setup_connect, connect_inherited, connect_state,
       disconnect_inherited, disconnect_state, notify_have_connect, pieceVars,
       sentVars, eventVars
  <2>2. QED
    BY <1>2, <2>1
<1>9. ASSUME NEW c \in Connection,
             \/ populatePeerPiecesBitfield(c) \/ connect_bitfield(c)
             \/ requestNextPiece(c) \/ request(c) \/ count(c)
             \/ send_not_interested(c) \/ send_interested(c) \/ notify_have_test(c)
      PROVE  Goal
  <2>1. Same
    BY <1>9 DEF populatePeerPiecesBitfield, connect_bitfield, requestNextPiece,
       request, count, send_not_interested, send_interested, notify_have_test,
       pieceVars, sentVars, eventVars
  <2>2. QED
    BY <1>2, <2>1
<1>10. ASSUME NEW c \in Connection,
              \/ notify_piece_count(c) \/ notify_unchoke(c) \/ notify_bitfield(c)
              \/ \E i \in Piece : notify_have(c, i)
       PROVE  Goal
  <2>1. Same
    BY <1>10 DEF notify_piece_count, notify_unchoke, notify_bitfield, notify_have,
       pieceVars, sentVars, eventVars
  <2>2. QED
    BY <1>2, <2>1
<1>11. ASSUME NEW c \in Connection, Still(c) PROVE Goal
  <2>1. Same
    BY <1>11 DEF Still, notify_choke, remote_choke, remote_unchoke, pieceVars,
       sentVars, eventVars
  <2>2. QED
    BY <1>2, <2>1
<1>12. ASSUME setup_done PROVE Goal
  <2>1. Same
    BY <1>12 DEF setup_done, pieceVars, sentVars, eventVars
  <2>2. QED
    BY <1>2, <2>1
<1>13. ASSUME NEW c \in Connection, Serve(c) PROVE Goal
  BY <1>3, <1>4, <1>5, <1>6, <1>7, <1>9, <1>10, <1>13, Zenon DEF Serve
<1>14. Goal
  BY <1>7, <1>8, <1>11, <1>12, <1>13, Cases, Zenon
<1>15. QED
  BY <1>14 DEF Goal

\* What the remote peers know and have done.
LEMMA RemoteTypeStep ==
  ASSUME IInv, Next
  PROVE  /\ choking' \in [Connection -> BOOLEAN]
         /\ delivered' \in [Connection -> BOOLEAN]
         /\ interested' \in [Connection -> BOOLEAN]
         /\ pending' \in [Connection -> Seq(Piece \X Block)]
         /\ heard' \in [Connection -> SUBSET Piece]
         /\ dropped' \in [Peer -> Nat]
<1> USE DEF IInv
<1> DEFINE Goal == /\ choking' \in [Connection -> BOOLEAN]
                   /\ delivered' \in [Connection -> BOOLEAN]
                   /\ interested' \in [Connection -> BOOLEAN]
                   /\ pending' \in [Connection -> Seq(Piece \X Block)]
                   /\ heard' \in [Connection -> SUBSET Piece]
                   /\ dropped' \in [Peer -> Nat]
<1>1. /\ choking \in [Connection -> BOOLEAN]
      /\ delivered \in [Connection -> BOOLEAN]
      /\ interested \in [Connection -> BOOLEAN]
      /\ pending \in [Connection -> Seq(Piece \X Block)]
      /\ heard \in [Connection -> SUBSET Piece]
      /\ dropped \in [Peer -> Nat]
  BY DEF TypeOK
<1>2. \A c \in Connection : PeerOf[c] \in Peer
  BY BitTorrentAssumption
<1>3. ASSUME UNCHANGED peerVars PROVE Goal
  BY <1>1, <1>3 DEF peerVars
<1>4. ASSUME NEW c \in Connection, NEW data \in {"good", "bad"}, notify_piece(c, data)
      PROVE  Goal
  <2>1. pending' = [pending EXCEPT ![c] = Tail(@)] /\ pending[c] # <<>>
    BY <1>4, StoredFrame
  <2>2. pending' \in [Connection -> Seq(Piece \X Block)]
    BY <1>1, <2>1
  <2>3. UNCHANGED <<choking, delivered, interested, heard, dropped>>
    BY <1>4, StoredFrame
  <2>4. QED
    BY <1>1, <2>2, <2>3
<1>5. ASSUME NEW c \in Connection, request(c) PROVE Goal
  <2>1. <<local[c].index, local[c].block>> \in Piece \X Block
    BY <1>5 DEF LocalInv, request
  <2>2. pending' \in [Connection -> Seq(Piece \X Block)]
    <3>1. Append(pending[c], <<local[c].index, local[c].block>>) \in Seq(Piece \X Block)
      BY <1>1, <2>1
    <3>2. \/ UNCHANGED pending
          \/ pending' = [pending EXCEPT ![c] =
                            Append(pending[c], <<local[c].index, local[c].block>>)]
      BY <1>5 DEF request
    <3>3. QED
      BY <1>1, <3>1, <3>2
  <2>3. dropped' \in [Peer -> Nat]
    BY <1>1, <1>2, <1>5 DEF request
  <2>4. UNCHANGED <<choking, delivered, interested, heard>>
    BY <1>5 DEF request
  <2>5. QED
    BY <1>1, <2>2, <2>3, <2>4
<1>6. ASSUME NEW c \in Connection, disconnect_inherited(c) \/ remote_choke(c) PROVE Goal
  <2>1. Len(pending[c]) \in Nat /\ <<>> \in Seq(Piece \X Block)
    BY <1>1
  <2>2. /\ pending' = [pending EXCEPT ![c] = <<>>]
        /\ dropped' = [dropped EXCEPT ![PeerOf[c]] = @ + Len(pending[c])]
        /\ choking' = [choking EXCEPT ![c] = TRUE]
    BY <1>6 DEF disconnect_inherited, remote_choke
  <2>3. pending' \in [Connection -> Seq(Piece \X Block)]
    BY <1>1, <2>1, <2>2
  <2>4. dropped' \in [Peer -> Nat]
    <3>1. \A p \in Peer : dropped'[p] \in Nat
      BY <1>1, <1>2, <2>1, <2>2
    <3>2. QED
      BY <1>1, <2>2, <3>1
  <2>5. /\ delivered' \in [Connection -> BOOLEAN]
        /\ interested' \in [Connection -> BOOLEAN]
        /\ heard' \in [Connection -> SUBSET Piece]
    BY <1>1, <1>6 DEF disconnect_inherited, remote_choke
  <2>6. QED
    BY <1>1, <2>2, <2>3, <2>4, <2>5
<1>7. ASSUME NEW c \in Connection, disconnect_state(c) PROVE Goal
  <2>1. UNCHANGED dropped \/ dropped' = [dropped EXCEPT ![PeerOf[c]] = 0]
    BY <1>7 DEF disconnect_state
  <2>2. UNCHANGED <<choking, delivered, interested, pending, heard>>
    BY <1>7 DEF disconnect_state
  <2>3. dropped' \in [Peer -> Nat]
    <3>1. ASSUME UNCHANGED dropped PROVE dropped' \in [Peer -> Nat]
      BY <1>1, <3>1
    <3>2. ASSUME dropped' = [dropped EXCEPT ![PeerOf[c]] = 0]
          PROVE  dropped' \in [Peer -> Nat]
      <4>1. 0 \in Nat
        OBVIOUS
      <4>2. QED
        BY <1>1, <3>2, <4>1
    <3>3. QED
      BY <2>1, <3>1, <3>2
  <2>4. QED
    BY <1>1, <2>2, <2>3
<1>8. ASSUME NEW c \in Connection,
             send_not_interested(c) \/ send_interested(c)
      PROVE  Goal
  BY <1>1, <1>8 DEF send_not_interested, send_interested
<1>9. ASSUME NEW c \in Connection,
             notify_choke(c) \/ notify_unchoke(c) \/ remote_unchoke(c)
      PROVE  Goal
  BY <1>1, <1>9 DEF notify_choke, notify_unchoke, remote_unchoke
<1>10. ASSUME NEW c \in Connection, notify_bitfield(c) PROVE Goal
  <2> DEFINE x == First[PeerOf[c]] \cup UNION {heard[d] : d \in conns[PeerOf[c]]}
  <2>1. x \in SUBSET Piece
    <3>1. First[PeerOf[c]] \in SUBSET Piece
      BY <1>2, BitTorrentAssumption
    <3>2. conns[PeerOf[c]] \in SUBSET Connection
      BY <1>2 DEF TypeOK
    <3>3. QED
      BY <1>1, <3>1, <3>2
  <2>2. heard' = [heard EXCEPT ![c] = x]
    BY <1>10 DEF notify_bitfield
  <2>3. UNCHANGED <<choking, delivered, interested, pending, dropped>>
    BY <1>10 DEF notify_bitfield
  <2> HIDE DEF x
  <2>4. QED
    BY <1>1, <2>1, <2>2, <2>3
<1>11. ASSUME NEW c \in Connection, NEW i \in Piece, notify_have(c, i) PROVE Goal
  BY <1>1, <1>11 DEF notify_have
<1> HIDE DEF Goal
<1>12. ASSUME NEW c \in Connection,
              \/ setup_connect(c) \/ connect_inherited(c) \/ connect_state(c)
              \/ disconnect_notify(c) \/ notify_have_connect(c)
       PROVE  Goal
  <2>1. UNCHANGED peerVars
    BY <1>12 DEF setup_connect, connect_inherited, connect_state,
       disconnect_notify, notify_have_connect, remoteVars
  <2>2. QED
    BY <1>3, <2>1
<1>13. ASSUME NEW c \in Connection,
              \/ populatePeerPiecesBitfield(c) \/ connect_handshake(c)
              \/ connect_bitfield(c) \/ connect_send_bitfield(c)
              \/ requestNextPiece(c) \/ count(c) \/ notify_have_test(c)
              \/ have(c) \/ notify_piece_count(c) \/ notify_complete(c)
       PROVE  Goal
  <2>1. UNCHANGED peerVars
    BY <1>13 DEF populatePeerPiecesBitfield, connect_handshake, connect_bitfield,
       connect_send_bitfield, requestNextPiece, count, notify_have_test, have,
       notify_piece_count, notify_complete, remoteVars
  <2>2. QED
    BY <1>3, <2>1
<1>14. ASSUME setup_done PROVE Goal
  <2>1. UNCHANGED peerVars
    BY <1>14 DEF setup_done, remoteVars
  <2>2. QED
    BY <1>3, <2>1
<1>15. ASSUME NEW c \in Connection, Serve(c) PROVE Goal
  BY <1>4, <1>5, <1>8, <1>9, <1>10, <1>11, <1>13, <1>15, Zenon DEF Serve
<1>16. ASSUME NEW c \in Connection, Still(c) PROVE Goal
  BY <1>6, <1>9, <1>16, Zenon DEF Still
<1>17. Goal
  BY <1>6, <1>7, <1>12, <1>14, <1>15, <1>16, Cases, Zenon
<1>18. QED
  BY <1>17 DEF Goal

LEMMA TypeStep ==
  ASSUME IInv, Next
  PROVE  TypeOK'
<1>1. /\ connecting' \in BOOLEAN /\ todo' \subseteq Initial
      /\ connections' \subseteq Connection
      /\ conns' \in [Peer -> SUBSET Connection]
  BY SessionTypeStep
<1>2. /\ chunks' \in [Piece -> [Block -> {"none", "good", "bad"}]]
      /\ saved' \subseteq Piece /\ shaken' \subseteq Connection
      /\ told' \in [Connection -> SUBSET Piece]
      /\ completions' \in Nat /\ no_more' \in BOOLEAN
  BY HistoryTypeStep
<1>3. /\ choking' \in [Connection -> BOOLEAN]
      /\ delivered' \in [Connection -> BOOLEAN]
      /\ interested' \in [Connection -> BOOLEAN]
      /\ pending' \in [Connection -> Seq(Piece \X Block)]
      /\ heard' \in [Connection -> SUBSET Piece]
      /\ dropped' \in [Peer -> Nat]
      /\ unsent' \subseteq Connection /\ faults' \in 0..MaxFaults
  BY RemoteTypeStep, FailStep
<1>4. peer' \in [Peer -> PeerType] /\ local' \in [Connection -> LocalType]
  BY PeerStep, LocalTypeStep
<1>5. pc' \in [Connection -> Away \cup {"idle"} \cup ConnectPc \cup NotifyPc
                             \cup LeavePc]
  BY ControlStep
<1>6. QED
  BY <1>1, <1>2, <1>3, <1>4, <1>5, Zenon DEF TypeOK, PeerType, LocalType
-----------------------------------------------------------------------------
(* The invariant and what follows from it.                                  *)

LEMMA InitInv ==
  ASSUME Init
  PROVE  IInv
<1> USE BitTorrentAssumption
<1>1. TypeOK
  <2>1. peer \in [Peer -> PeerType] /\ local \in [Connection -> LocalType]
    BY DEF Init, PeerState, PeerType, Fresh, LocalType
  <2>2. <<>> \in Seq(Piece \X Block)
    OBVIOUS
  <2>3. pending \in [Connection -> Seq(Piece \X Block)]
    BY <2>2 DEF Init
  <2>4. /\ connecting \in BOOLEAN /\ todo \subseteq Initial
        /\ connections \subseteq Connection
        /\ conns \in [Peer -> SUBSET Connection]
        /\ chunks \in [Piece -> [Block -> {"none", "good", "bad"}]]
        /\ saved \subseteq Piece /\ shaken \subseteq Connection
        /\ told \in [Connection -> SUBSET Piece]
        /\ completions \in Nat /\ no_more \in BOOLEAN
    BY DEF Init, Absent
  <2>5. pc \in [Connection -> Away \cup {"idle"} \cup ConnectPc \cup NotifyPc
                              \cup LeavePc]
    BY DEF Init, Away
  <2>6. /\ choking \in [Connection -> BOOLEAN] /\ delivered \in [Connection -> BOOLEAN]
        /\ interested \in [Connection -> BOOLEAN]
        /\ heard \in [Connection -> SUBSET Piece]
        /\ dropped \in [Peer -> Nat]
        /\ unsent \subseteq Connection /\ faults \in 0..MaxFaults
    BY DEF Init
  <2>7. QED
    BY <2>1, <2>3, <2>4, <2>5, <2>6, Zenon DEF TypeOK, PeerType, LocalType
<1>2. \A c \in Connection : pc[c] = "none" /\ pending[c] = <<>>
  BY DEF Init
<1>3. MembersInv
  BY <1>2 DEF Init, MembersInv, ConnectionsTo, Away
<1>4. LocalInv
  BY <1>2 DEF LocalInv
<1>5. CountInv
  <2>1. ASSUME NEW p \in Peer PROVE CountedAt(p)
    <3>1. At(p, {"count"}) = {} /\ At(p, {"have", "piece_count"}) = {}
      BY <1>2 DEF At, ConnectionsTo
    <3>2. Lapsed(p) = {}
      BY <3>1 DEF Lapsed
    <3>3. Cardinality(UnderWay(p)) = 0
      <4>1. \A c \in ConnectionsTo(p) : pending[c] = <<>>
        BY <1>2 DEF ConnectionsTo
      <4>2. Cardinality(Places(pending, ConnectionsTo(p))) = 0
        BY <4>1, PlacesNone
      <4>3. QED
        BY <4>2, Queues
    <3>4. peer[p].requesting_piece = 0 /\ dropped[p] = 0
      BY DEF Init, PeerState
    <3>5. /\ Cardinality(At(p, {"count"})) = 0 /\ Cardinality(Lapsed(p)) = 0
          /\ Cardinality(At(p, {"have", "piece_count"})) = 0
      BY <3>1, <3>2, FS_EmptySet
    <3>6. QED
      BY <3>3, <3>4, <3>5 DEF CountedAt, Counted
  <2>2. QED
    BY <2>1 DEF CountInv
<1>6. ChunksInv
  BY DEF Init, ChunksInv, isPieceComplete, Absent
<1>7. AnnouncedToAll /\ AnnounceInv
  BY <1>2 DEF AnnouncedToAll, AnnounceInv, NotifyPc
<1>8. CompleteInv
  <2>1. Completing = {}
    BY <1>2 DEF Completing
  <2>2. QED
    BY <2>1 DEF CompleteInv, Init
<1>9. QED
  BY <1>1, <1>3, <1>4, <1>5, <1>6, <1>7, <1>8 DEF IInv

LEMMA NextInv ==
  ASSUME IInv, [Next]_vars
  PROVE  IInv'
<1>1. CASE Next
  BY <1>1, TypeStep, MembersStep, LocalStep, CountStep, ChunksStep, AnnounceStep,
     CompleteStep DEF IInv
<1>2. CASE UNCHANGED vars
  <2> USE <1>2 DEF IInv, vars
  <2>1. TypeOK'
    BY DEF TypeOK
  <2>2. MembersInv' /\ LocalInv'
    BY DEF MembersInv, LocalInv, ConnectionsTo
  <2>3. CountInv'
    BY Quiet
  <2>4. ChunksInv' /\ AnnouncedToAll' /\ AnnounceInv'
    BY DEF ChunksInv, isPieceComplete, AnnouncedToAll, AnnounceInv
  <2>5. CompleteInv'
    BY DEF CompleteInv, Completing
  <2>6. QED
    BY <2>1, <2>2, <2>3, <2>4, <2>5
<1>3. QED
  BY <1>1, <1>2

\* The inductive invariant holds in every state of the session.
THEOREM Invariance == Spec => []IInv
BY InitInv, NextInv, PTL DEF Spec

\* Every variable has its type; in particular requesting_piece never becomes
\* negative: notify() counts a reply down only after the request has been
\* counted, although the two happen in different lock scopes.
THEOREM TypeCorrect == Spec => []TypeOK
<1>1. IInv => TypeOK
  BY DEF IInv
<1>2. QED
  BY <1>1, Invariance, PTL

\* The assertions of connect(), disconnect(), notify() and requestNextPiece()
\* about state_.peerState are met, whatever the other connections do.
THEOREM AssertionsAreMet == Spec => []AssertionsHold
<1>1. IInv => AssertionsHold
  <2> SUFFICES ASSUME IInv PROVE AssertionsHold
    OBVIOUS
  <2>1. \A c \in Connection : PeerOf[c] \in Peer /\ c \in ConnectionsTo(PeerOf[c])
    BY BitTorrentAssumption DEF ConnectionsTo
  <2>2. QED
    BY <2>1 DEF IInv, MembersInv, AssertionsHold
<1>2. QED
  BY <1>1, Invariance, PTL

\* requesting_piece of a peer accounts for the requests of all its connections.
THEOREM RequestsAreCounted == Spec => []RequestsCounted
<1>1. IInv => RequestsCounted
  BY DEF IInv, CountInv, CountedAt, RequestsCounted
<1>2. QED
  BY <1>1, Invariance, PTL

\* Every saved piece is announced on every connection, by the bitfield that
\* connect() sends or by have().
THEOREM PiecesAreAnnounced == Spec => []AnnouncedToAll
<1>1. IInv => AnnouncedToAll
  BY DEF IInv
<1>2. QED
  BY <1>1, Invariance, PTL

\* The controller hears of BITTORRENT_EVENT_COMPLETE once at most, and only when
\* every piece has been saved.
THEOREM CompletionIsToldOnce == Spec => []CompletedOnce
<1>1. IInv => CompletedOnce
  BY DEF IInv, CompleteInv, CompletedOnce
<1>2. QED
  BY <1>1, Invariance, PTL
=============================================================================
