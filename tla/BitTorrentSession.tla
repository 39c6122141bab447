------------------------- MODULE BitTorrentSession -------------------------
(***************************************************************************)
(* The download side of BitTorrent_Session_T (bittorrent_session.inl) and  *)
(* of the stream handler that calls it (bittorrent_streamhandler.inl).     *)
(*                                                                         *)
(* The stream of every peer connection delivers its session messages and   *)
(* its protocol messages to the session in a thread of its own, one at a   *)
(* time.  A handler takes lock_ several times; every lock scope is a step, *)
(* and so is every message that is sent outside of one.  Peers are known   *)
(* by their address: connections to one address share one entry of         *)
(* state_.peerState.                                                       *)
(*                                                                         *)
(* The remote peers are external: they announce pieces with BITFIELD and   *)
(* HAVE, unchoke who is interested, choke, answer requests (perhaps with   *)
(* corrupt data) and drop the requests of a connection they choke.         *)
(* The connection to the tracker has done its work and has ended; what the *)
(* session uploads (INTERESTED, NOT_INTERESTED and REQUEST of a peer) uses *)
(* fields of its own and is left out.                                      *)
(***************************************************************************)
EXTENDS Integers, Sequences, FiniteSets

CONSTANTS Connection,  \* connection ids
          Initial,     \* the ones the tracker's response leads to
          Peer,        \* addresses of peers
          PeerOf,      \* the address a connection leads to
          Piece,       \* piece indexes
          Block,       \* the blocks of a piece
          First,       \* per peer: the pieces it has when it connects
          Has,         \* per peer: the pieces it has in the end
          MaxPerPeer,  \* BITTORRENT_DEFAULT_MAX_CONNECTIONS_PER_PEER
          MaxFaults,   \* bound on what goes wrong, see faults
          None         \* no piece, no block

ASSUME BitTorrentAssumption ==
  /\ IsFiniteSet(Connection) /\ Initial \subseteq Connection
  /\ IsFiniteSet(Peer) /\ PeerOf \in [Connection -> Peer]
  /\ IsFiniteSet(Piece) /\ Piece # {} /\ None \notin Piece
  /\ IsFiniteSet(Block) /\ Block # {} /\ None \notin Block
  /\ First \in [Peer -> SUBSET Piece] /\ Has \in [Peer -> SUBSET Piece]
  /\ MaxPerPeer \in Nat /\ MaxFaults \in Nat

VARIABLES
  connecting,   \* state_.connecting
  todo,         \* connections the setup threads have not tried yet
  connections,  \* state_.connections
  conns,        \* per address: state_.peerState[...].connections
  peer,         \* per address: pieces and status of state_.peerState[...]
  chunks,       \* state_.pieces[i].chunks: the state of each block
  saved,        \* pieces with onDisk set
  pc,           \* control state of the thread of each connection
  local,        \* the local variables of its handler
  shaken,       \* history: connections on which the handshake was sent
  told,         \* history: pieces announced on each connection
  completions,  \* history: number of BITTORRENT_EVENT_COMPLETE
  no_more,      \* history: BITTORRENT_EVENT_NO_MORE_PEERS was raised
  choking,      \* remote: it chokes the connection
  delivered,    \* remote: what the session was last told about that
  interested,   \* remote: it has been told INTERESTED
  pending,      \* remote: the requests it will answer
  heard,        \* remote: the pieces it has announced
  dropped,      \* history: requests that will not be answered
  unsent,       \* history: connections a message was not sent on
  faults        \* number of CHOKE messages, corrupt blocks and failures to send

setupVars  == <<connecting, todo>>
stateVars  == <<connections, conns, peer>>
pieceVars  == <<chunks, saved>>
sentVars   == <<shaken, told>>
eventVars  == <<completions, no_more>>
peerVars   == <<choking, delivered, interested, pending, heard, dropped>>
remoteVars == <<peerVars, unsent, faults>>
vars == <<connecting, todo, connections, conns, peer, chunks, saved, pc, local,
          shaken, told, completions, no_more, choking, delivered, interested,
          pending, heard, dropped, unsent, faults>>

Away       == {"none", "closed"}
ConnectPc  == {"connect", "state", "populate", "handshake", "bitfield",
               "send_bitfield"}
NotifyPc   == {"request", "send_request", "count", "not_interested",
               "interested", "have_interested", "have_test", "have_connect",
               "have", "piece_count", "complete"}
LeavePc    == {"disconnect", "no_more"}

\* A peer's entry as BitTorrent_PeerState() leaves it; populated is false as
\* long as its vector of pieces is empty.
PeerState == [populated |-> FALSE, pieces |-> {}, am_choking |-> TRUE,
              am_interested |-> FALSE, requesting_piece |-> 0]

\* The local variables of a handler that has just started: the piece and the
\* block in hand, what is left to do, the bitfield to send.
Fresh == [index |-> None, block |-> None, then |-> "none", bitfield |-> {}]

Absent == [b \in Block |-> "none"]

Init ==
  /\ connecting = TRUE /\ todo = Initial
  /\ connections = {}
  /\ conns = [p \in Peer |-> {}]
  /\ peer = [p \in Peer |-> PeerState]
  /\ chunks = [i \in Piece |-> Absent]
  /\ saved = {}
  /\ pc = [c \in Connection |-> "none"]
  /\ local = [c \in Connection |-> Fresh]
  /\ shaken = {}
  /\ told = [c \in Connection |-> {}]
  /\ completions = 0 /\ no_more = FALSE
  /\ choking = [c \in Connection |-> TRUE]
  /\ delivered = [c \in Connection |-> TRUE]
  /\ interested = [c \in Connection |-> FALSE]
  /\ pending = [c \in Connection |-> <<>>]
  /\ heard = [c \in Connection |-> {}]
  /\ dropped = [p \in Peer |-> 0]
  /\ unsent = {} /\ faults = 0

Goto(c, s) == pc' = [pc EXCEPT ![c] = s]

\* The handler returns: its local variables are gone.
Return(c) == Goto(c, "idle") /\ local' = [local EXCEPT ![c] = Fresh]

\* getConnectionAndMessage() or send() fails, or memory is short: no message is
\* sent on the connections C.
Fail(C) ==
  /\ faults < MaxFaults
  /\ faults' = faults + 1
  /\ unsent' = unsent \cup C

Sent == UNCHANGED <<unsent, faults>>
-----------------------------------------------------------------------------
(* BitTorrent_Tools                                                         *)

isPieceComplete(i) == \A b \in Block : chunks[i][b] # "none"

\* getPieceIndexes(pieces, true)
Missing == {i \in Piece : i \notin saved /\ ~isPieceComplete(i)}

hasMissingPiece(pieces) == pieces \cap Missing # {}

getMissingChunks(i) == {b \in Block : chunks[i][b] = "none"}

validatePieceHash(chunks_in) == \A b \in Block : chunks_in[b] = "good"
-----------------------------------------------------------------------------
(* The setup threads, net_bittorrent_session_setup_function()               *)

\* connect(address): the connection is made, or it is not.
setup_connect(c) ==
  /\ c \in todo
  /\ todo' = todo \ {c}
  /\ \/ Goto(c, "connect")
     \/ Goto(c, "closed")
  /\ UNCHANGED <<connecting, stateVars, pieceVars, local, sentVars, eventVars,
                 remoteVars>>

\* All have passed the barrier.
setup_done ==
  /\ connecting /\ todo = {}
  /\ connecting' = FALSE
  /\ UNCHANGED <<todo, stateVars, pieceVars, pc, local, sentVars, eventVars,
                 remoteVars>>
-----------------------------------------------------------------------------
(* connect(id), called when the session of the stream starts                *)

\* inherited::connect(id)
connect_inherited(c) ==
  /\ pc[c] = "connect"
  /\ connections' = connections \cup {c}
  /\ Goto(c, "state")
  /\ UNCHANGED <<setupVars, conns, peer, pieceVars, local, sentVars, eventVars,
                 remoteVars>>

connect_state(c) ==
  LET p == PeerOf[c]
  IN /\ pc[c] = "state"
     /\ conns' = [conns EXCEPT ![p] = @ \cup {c}]
     /\ Goto(c, IF peer[p].populated THEN "handshake" ELSE "populate")
     /\ UNCHANGED <<setupVars, connections, peer, pieceVars, local, sentVars,
                    eventVars, remoteVars>>

\* resize(): a vector that has its size already is left as it is.
populatePeerPiecesBitfield(c) ==
  /\ pc[c] = "populate"
  /\ peer' = [peer EXCEPT ![PeerOf[c]].populated = TRUE]
  /\ Goto(c, "handshake")
  /\ UNCHANGED <<setupVars, connections, conns, pieceVars, local, sentVars,
                 eventVars, remoteVars>>

\* Without it connect() returns.
connect_handshake(c) ==
  /\ pc[c] = "handshake"
  /\ \/ /\ shaken' = shaken \cup {c}
        /\ Goto(c, "bitfield")
        /\ Sent
     \/ /\ Fail({c})
        /\ Goto(c, "idle")
        /\ UNCHANGED shaken
  /\ UNCHANGED <<setupVars, stateVars, pieceVars, local, told, eventVars,
                 peerVars>>

\* sendBitfieldAfterHandshake is set, as it is by default.
connect_bitfield(c) ==
  LET have == Piece \ Missing
  IN /\ pc[c] = "bitfield"
     /\ local' = [local EXCEPT ![c].bitfield = have]
     /\ Goto(c, IF have # {} THEN "send_bitfield" ELSE "idle")
     /\ UNCHANGED <<setupVars, stateVars, pieceVars, sentVars, eventVars,
                    remoteVars>>

connect_send_bitfield(c) ==
  /\ pc[c] = "send_bitfield"
  /\ \/ told' = [told EXCEPT ![c] = @ \cup local[c].bitfield] /\ Sent
     \/ Fail({c}) /\ UNCHANGED told
  /\ Return(c)
  /\ UNCHANGED <<setupVars, stateVars, pieceVars, shaken, eventVars, peerVars>>
-----------------------------------------------------------------------------
(* disconnect(id), called when the session of the stream ends               *)

\* inherited::disconnect(id); the peer forgets the connection.
disconnect_inherited(c) ==
  /\ pc[c] = "idle"
  /\ connections' = connections \ {c}
  /\ dropped' = [dropped EXCEPT ![PeerOf[c]] = @ + Len(pending[c])]
  /\ pending' = [pending EXCEPT ![c] = <<>>]
  /\ choking' = [choking EXCEPT ![c] = TRUE]
  /\ delivered' = [delivered EXCEPT ![c] = TRUE]
  /\ interested' = [interested EXCEPT ![c] = FALSE]
  /\ heard' = [heard EXCEPT ![c] = {}]
  /\ Goto(c, "disconnect")
  /\ UNCHANGED <<setupVars, conns, peer, pieceVars, local, sentVars, eventVars,
                 unsent, faults>>

\* (mutant) the entry of the peer goes with any of its connections
disconnect_state_erase(c) ==
  LET p == PeerOf[c]
  IN /\ pc[c] = "disconnect"
     /\ conns' = [conns EXCEPT ![p] = {}]
     /\ peer' = [peer EXCEPT ![p] = PeerState]
     /\ dropped' = [dropped EXCEPT ![p] = 0]
     /\ Goto(c, IF connections = {} /\ ~connecting THEN "no_more" ELSE "closed")
     /\ UNCHANGED <<setupVars, connections, pieceVars, local, sentVars,
                    eventVars, choking, delivered, interested, pending, heard,
                    unsent, faults>>

disconnect_state(c) ==
  LET p    == PeerOf[c]
      rest == conns[p] \ {c}
  IN /\ pc[c] = "disconnect"
     /\ conns' = [conns EXCEPT ![p] = rest]
     /\ IF rest = {}
        THEN /\ peer' = [peer EXCEPT ![p] = PeerState]
             /\ dropped' = [dropped EXCEPT ![p] = 0]
        ELSE UNCHANGED <<peer, dropped>>
     /\ Goto(c, IF connections = {} /\ ~connecting THEN "no_more" ELSE "closed")
     /\ UNCHANGED <<setupVars, connections, pieceVars, local, sentVars,
                    eventVars, choking, delivered, interested, pending, heard,
                    unsent, faults>>

disconnect_notify(c) ==
  /\ pc[c] = "no_more"
  /\ no_more' = TRUE
  /\ Goto(c, "closed")
  /\ UNCHANGED <<setupVars, stateVars, pieceVars, local, sentVars, completions,
                 remoteVars>>
-----------------------------------------------------------------------------
(* requestNextPiece(id) and the count of requests its callers keep          *)

requestNextPiece(c) ==
  LET p == PeerOf[c]
  IN /\ pc[c] = "request"
     /\ IF hasMissingPiece(peer[p].pieces)
        THEN \E i \in peer[p].pieces \cap Missing :
             \E b \in getMissingChunks(i) :
               /\ local' = [local EXCEPT ![c].index = i, ![c].block = b]
               /\ Goto(c, "send_request")
               /\ UNCHANGED peer
        ELSE /\ peer' = [peer EXCEPT ![p].am_interested = FALSE]
             /\ Goto(c, "not_interested")
             /\ UNCHANGED local
     /\ UNCHANGED <<setupVars, connections, conns, pieceVars, sentVars,
                    eventVars, remoteVars>>

\* A peer that chokes the connection ignores the request; a request that is
\* not sent is counted all the same, as requestNextPiece() returns true.
request(c) ==
  /\ pc[c] = "send_request"
  /\ \/ /\ Sent /\ ~choking[c]
        /\ pending' = [pending EXCEPT ![c] =
                         Append(@, <<local[c].index, local[c].block>>)]
        /\ UNCHANGED dropped
     \/ /\ (Sent /\ choking[c]) \/ Fail({c})
        /\ dropped' = [dropped EXCEPT ![PeerOf[c]] = @ + 1]
        /\ UNCHANGED pending
  /\ Goto(c, "count")
  /\ UNCHANGED <<setupVars, stateVars, pieceVars, local, sentVars, eventVars,
                 choking, delivered, interested, heard>>

\* (mutant) the counter is a flag
count_flag(c) ==
  /\ pc[c] = "count"
  /\ peer' = [peer EXCEPT ![PeerOf[c]].requesting_piece = 1]
  /\ Return(c)
  /\ UNCHANGED <<setupVars, connections, conns, pieceVars, sentVars, eventVars,
                 remoteVars>>

\* (mutant) the request is not counted
count_not(c) ==
  /\ pc[c] = "count"
  /\ Return(c)
  /\ UNCHANGED <<setupVars, stateVars, pieceVars, sentVars, eventVars,
                 remoteVars>>

\* ++requesting_piece, once requestNextPiece() has returned true
count(c) ==
  /\ pc[c] = "count"
  /\ peer' = [peer EXCEPT ![PeerOf[c]].requesting_piece = @ + 1]
  /\ Return(c)
  /\ UNCHANGED <<setupVars, connections, conns, pieceVars, sentVars, eventVars,
                 remoteVars>>

\* interested(id, false)
send_not_interested(c) ==
  /\ pc[c] = "not_interested"
  /\ \/ interested' = [interested EXCEPT ![c] = FALSE] /\ Sent
     \/ Fail({c}) /\ UNCHANGED interested
  /\ Return(c)
  /\ UNCHANGED <<setupVars, stateVars, pieceVars, sentVars, eventVars, choking,
                 delivered, pending, heard, dropped>>

\* interested(id, true): am_interested has been set, so that a message that is
\* not sent is not repeated.
send_interested(c) ==
  /\ pc[c] \in {"interested", "have_interested"}
  /\ \/ interested' = [interested EXCEPT ![c] = TRUE] /\ Sent
     \/ Fail({c}) /\ UNCHANGED interested
  /\ IF pc[c] = "interested" THEN Return(c)
                             ELSE Goto(c, "have_test") /\ UNCHANGED local
  /\ UNCHANGED <<setupVars, stateVars, pieceVars, sentVars, eventVars, choking,
                 delivered, pending, heard, dropped>>
-----------------------------------------------------------------------------
(* The remote peers (external)                                              *)

remote_choke(c) ==
  /\ pc[c] \notin Away \cup ConnectPc \cup LeavePc
  /\ ~choking[c] /\ ~delivered[c] /\ faults < MaxFaults
  /\ choking' = [choking EXCEPT ![c] = TRUE]
  /\ dropped' = [dropped EXCEPT ![PeerOf[c]] = @ + Len(pending[c])]
  /\ pending' = [pending EXCEPT ![c] = <<>>]
  /\ faults' = faults + 1
  /\ UNCHANGED <<setupVars, stateVars, pieceVars, pc, local, sentVars,
                 eventVars, delivered, interested, heard, unsent>>

remote_unchoke(c) ==
  /\ pc[c] \notin Away \cup ConnectPc \cup LeavePc
  /\ choking[c] /\ delivered[c] /\ interested[c]
  /\ choking' = [choking EXCEPT ![c] = FALSE]
  /\ UNCHANGED <<setupVars, stateVars, pieceVars, pc, local, sentVars,
                 eventVars, delivered, interested, pending, heard, dropped,
                 unsent, faults>>
-----------------------------------------------------------------------------
(* notify(id, record): one action per type of message                       *)

notify_choke(c) ==
  /\ pc[c] = "idle" /\ choking[c] /\ ~delivered[c]
  /\ delivered' = [delivered EXCEPT ![c] = TRUE]
  /\ peer' = [peer EXCEPT ![PeerOf[c]].am_choking = TRUE]
  /\ UNCHANGED <<setupVars, connections, conns, pieceVars, pc, local, sentVars,
                 eventVars, choking, interested, pending, heard, dropped,
                 unsent, faults>>

notify_unchoke(c) ==
  LET p == PeerOf[c]
  IN /\ pc[c] = "idle" /\ ~choking[c] /\ delivered[c]
     /\ delivered' = [delivered EXCEPT ![c] = FALSE]
     /\ peer' = [peer EXCEPT ![p].am_choking = FALSE]
     /\ Goto(c, IF Cardinality(conns[p]) > 1 \/ peer[p].populated
                THEN "request" ELSE "idle")
     /\ UNCHANGED <<setupVars, connections, conns, pieceVars, local, sentVars,
                    eventVars, choking, interested, pending, heard, dropped,
                    unsent, faults>>

\* The first message of a peer that has pieces.
notify_bitfield(c) ==
  LET p        == PeerOf[c]
      bitfield == First[p] \cup UNION {heard[d] : d \in conns[p]}
      interest == ~peer[p].am_interested /\ hasMissingPiece(bitfield)
  IN /\ pc[c] = "idle" /\ heard[c] = {} /\ bitfield # {}
     /\ heard' = [heard EXCEPT ![c] = bitfield]
     /\ peer' = [peer EXCEPT ![p].pieces = bitfield,
                             ![p].am_interested = @ \/ interest]
     /\ Goto(c, IF interest THEN "interested" ELSE "idle")
     /\ UNCHANGED <<setupVars, connections, conns, pieceVars, local, sentVars,
                    eventVars, choking, delivered, interested, pending,
                    dropped, unsent, faults>>

notify_have(c, i) ==
  LET p        == PeerOf[c]
      pieces   == peer[p].pieces \cup {i}
      missing  == hasMissingPiece(pieces)
      interest == ~peer[p].am_interested /\ missing
  IN /\ pc[c] = "idle" /\ i \in Has[p] \ heard[c]
     /\ First[p] \subseteq heard[c]
     /\ heard' = [heard EXCEPT ![c] = @ \cup {i}]
     /\ peer' = [peer EXCEPT ![p].pieces = pieces,
                             ![p].am_interested = @ \/ interest]
     /\ local' = [local EXCEPT ![c].then = IF missing THEN "missing" ELSE "none"]
     /\ Goto(c, IF interest THEN "have_interested" ELSE "have_test")
     /\ UNCHANGED <<setupVars, connections, conns, pieceVars, sentVars,
                    eventVars, choking, delivered, interested, pending,
                    dropped, unsent, faults>>

\* Request a piece, open another connection, or neither.
notify_have_test(c) ==
  LET p       == PeerOf[c]
      missing == ~peer[p].am_choking /\ local[c].then = "missing"
  IN /\ pc[c] = "have_test"
     /\ Goto(c, CASE missing /\ peer[p].requesting_piece = 0 -> "request"
                  [] missing /\ peer[p].requesting_piece # 0 -> "have_connect"
                  [] ~missing -> "idle")
     /\ local' = [local EXCEPT ![c] = Fresh]
     /\ UNCHANGED <<setupVars, stateVars, pieceVars, sentVars, eventVars,
                    remoteVars>>

\* connect(address), where allowMultipleConnectionsPerPeer is set
notify_have_connect(c) ==
  LET p == PeerOf[c]
  IN /\ pc[c] = "have_connect"
     /\ \/ \E d \in Connection \ Initial :
             /\ Cardinality(conns[p]) < MaxPerPeer
             /\ PeerOf[d] = p /\ pc[d] = "none"
             /\ pc' = [pc EXCEPT ![c] = "idle", ![d] = "connect"]
        \/ Goto(c, "idle")
     /\ UNCHANGED <<setupVars, stateVars, pieceVars, local, sentVars,
                    eventVars, remoteVars>>

\* What the lock scope of PIECE makes of a block: the blocks of the piece
\* (sanitizeChunks() keeps one of two at the same offset), whether the piece
\* has been saved, and what the handler goes on with.
Store(c, i, now, isSaved) ==
  LET complete == isSaved /\ \A j \in Piece \ {i} :
                               j \in saved \/ isPieceComplete(j)
      next     == ~peer[PeerOf[c]].am_choking /\ ~complete
  IN /\ chunks' = [chunks EXCEPT ![i] = now]
     /\ saved' = IF isSaved THEN saved \cup {i} ELSE saved
     /\ local' = [local EXCEPT ![c] =
                    [Fresh EXCEPT !.index = i,
                                  !.then = CASE complete -> "complete"
                                             [] next     -> "next"
                                             [] OTHER    -> "none"]]
     /\ Goto(c, IF isSaved THEN "have" ELSE "piece_count")

\* The peer answers the oldest request, with data or with corrupt data.
Answer(c, data) ==
  /\ pc[c] = "idle" /\ pending[c] # <<>>
  /\ data = "bad" => faults < MaxFaults
  /\ faults' = IF data = "bad" THEN faults + 1 ELSE faults
  /\ pending' = [pending EXCEPT ![c] = Tail(@)]
  /\ UNCHANGED <<setupVars, stateVars, sentVars, eventVars, choking, delivered,
                 interested, heard, dropped, unsent>>

\* The blocks of piece i with one more.
Add(i, b, data) ==
  {[chunks[i] EXCEPT ![b] = kept] :
     kept \in IF chunks[i][b] = "none" THEN {data} ELSE {chunks[i][b], data}}

\* (mutant) a block of a piece that is complete is stored again
notify_piece_again(c, data) ==
  LET i == Head(pending[c])[1]
      b == Head(pending[c])[2]
  IN /\ Answer(c, data)
     /\ \E now \in Add(i, b, data) :
          CASE \E e \in Block : now[e] = "none"  -> Store(c, i, now, FALSE)
            [] validatePieceHash(now)            -> Store(c, i, Absent, TRUE)
            [] OTHER                             -> Store(c, i, Absent, FALSE)

\* (mutant) the blocks of a piece whose hash does not match are kept
notify_piece_keep(c, data) ==
  LET i == Head(pending[c])[1]
      b == Head(pending[c])[2]
  IN /\ Answer(c, data)
     /\ IF i \in saved \/ isPieceComplete(i)
        THEN Store(c, i, chunks[i], FALSE)
        ELSE \E now \in Add(i, b, data) :
               CASE \E e \in Block : now[e] = "none" -> Store(c, i, now, FALSE)
                 [] validatePieceHash(now) -> Store(c, i, Absent, TRUE)
                 [] OTHER                  -> Store(c, i, now, FALSE)

notify_piece(c, data) ==
  LET i == Head(pending[c])[1]
      b == Head(pending[c])[2]
  IN /\ Answer(c, data)
     /\ IF i \in saved \/ isPieceComplete(i)
        THEN Store(c, i, chunks[i], FALSE)
        ELSE \E now \in Add(i, b, data) :
               CASE \E e \in Block : now[e] = "none" -> Store(c, i, now, FALSE)
                 [] validatePieceHash(now) -> Store(c, i, Absent, TRUE)
                 [] OTHER                  -> Store(c, i, Absent, FALSE)

\* (mutant) only the connections that have finished connect() are told
have_connected(c) ==
  /\ pc[c] = "have"
  /\ told' = [d \in Connection |->
                IF d \in connections /\ pc[d] \notin ConnectPc
                THEN told[d] \cup {local[c].index} ELSE told[d]]
  /\ Goto(c, "piece_count")
  /\ UNCHANGED <<setupVars, stateVars, pieceVars, local, shaken, eventVars,
                 remoteVars>>

\* have(index): to every connection of the session, in one lock scope; one
\* whose message fails is passed over, and so may be those that follow.
have(c) ==
  /\ pc[c] = "have"
  /\ \E skipped \in SUBSET connections :
       /\ told' = [d \in Connection |-> IF d \in connections \ skipped
                                        THEN told[d] \cup {local[c].index}
                                        ELSE told[d]]
       /\ IF skipped = {} THEN Sent ELSE Fail(skipped)
  /\ Goto(c, "piece_count")
  /\ UNCHANGED <<setupVars, stateVars, pieceVars, local, shaken, eventVars,
                 peerVars>>

\* --requesting_piece
notify_piece_count(c) ==
  /\ pc[c] = "piece_count"
  /\ peer' = [peer EXCEPT ![PeerOf[c]].requesting_piece = @ - 1]
  /\ local' = [local EXCEPT ![c] = Fresh]
  /\ Goto(c, CASE local[c].then = "next"     -> "request"
               [] local[c].then = "complete" -> "complete"
               [] OTHER                      -> "idle")
  /\ UNCHANGED <<setupVars, connections, conns, pieceVars, sentVars, eventVars,
                 remoteVars>>

\* BITTORRENT_EVENT_COMPLETE for the controller
notify_complete(c) ==
  /\ pc[c] = "complete"
  /\ completions' = completions + 1
  /\ Return(c)
  /\ UNCHANGED <<setupVars, stateVars, pieceVars, sentVars, no_more,
                 remoteVars>>
-----------------------------------------------------------------------------
\* The setup threads
Setup == setup_done \/ \E c \in Connection : setup_connect(c)

\* The thread of a connection, inside connect(), disconnect() or notify()
Thread(c) ==
  \/ connect_inherited(c) \/ connect_state(c)
  \/ populatePeerPiecesBitfield(c) \/ connect_handshake(c)
  \/ connect_bitfield(c) \/ connect_send_bitfield(c)
  \/ disconnect_state(c) \/ disconnect_notify(c)
  \/ requestNextPiece(c) \/ request(c) \/ count(c)
  \/ send_not_interested(c) \/ send_interested(c)
  \/ notify_have_test(c) \/ notify_have_connect(c)
  \/ have(c) \/ notify_piece_count(c) \/ notify_complete(c)

\* The messages a peer owes the session.
Message(c) ==
  \/ notify_choke(c) \/ notify_unchoke(c) \/ notify_bitfield(c)
  \/ \E data \in {"good", "bad"} : notify_piece(c, data)

Next ==
  \/ Setup
  \/ \E c \in Connection :
       \/ Thread(c) \/ Message(c)
       \/ \E i \in Piece : notify_have(c, i)
       \/ disconnect_inherited(c)
       \/ remote_choke(c) \/ remote_unchoke(c)

Spec == Init /\ [][Next]_vars

\* Threads go on; a peer delivers what it has sent, answers the requests it
\* accepted and unchokes who is interested.  It need not announce a piece it
\* gets later, nor stay.
Fairness ==
  /\ WF_vars(Setup)
  /\ \A c \in Connection : /\ WF_vars(Thread(c)) /\ WF_vars(Message(c))
                           /\ WF_vars(remote_unchoke(c))

FairSpec == Spec /\ Fairness
-----------------------------------------------------------------------------
(* Properties                                                               *)

\* Every variable has its type; in particular requesting_piece, an int, does
\* not become negative, although replies are counted down in another lock
\* scope than requests are counted up.
TypeOK ==
  /\ connecting \in BOOLEAN /\ todo \subseteq Initial
  /\ connections \subseteq Connection
  /\ conns \in [Peer -> SUBSET Connection]
  /\ peer \in [Peer -> [populated : BOOLEAN, pieces : SUBSET Piece,
                        am_choking : BOOLEAN, am_interested : BOOLEAN,
                        requesting_piece : Nat]]
  /\ chunks \in [Piece -> [Block -> {"none", "good", "bad"}]]
  /\ saved \subseteq Piece
  /\ pc \in [Connection -> Away \cup {"idle"} \cup ConnectPc \cup NotifyPc
                           \cup LeavePc]
  /\ local \in [Connection -> [index : Piece \cup {None},
                               block : Block \cup {None},
                               then : {"none", "missing", "next", "complete"},
                               bitfield : SUBSET Piece]]
  /\ shaken \subseteq Connection /\ told \in [Connection -> SUBSET Piece]
  /\ completions \in Nat /\ no_more \in BOOLEAN
  /\ choking \in [Connection -> BOOLEAN] /\ delivered \in [Connection -> BOOLEAN]
  /\ interested \in [Connection -> BOOLEAN]
  /\ pending \in [Connection -> Seq(Piece \X Block)]
  /\ heard \in [Connection -> SUBSET Piece] /\ dropped \in [Peer -> Nat]
  /\ unsent \subseteq Connection /\ faults \in 0..MaxFaults

\* The assertions of connect(), disconnect(), notify() and requestNextPiece()
\* that state_.peerState has an entry for the address and that the connection
\* is one of its connections: no other connection to the same address takes
\* the entry away between two lock scopes of a handler.
AssertionsHold ==
  \A c \in Connection :
    pc[c] \notin Away \cup {"connect", "state", "no_more"} =>
      c \in conns[PeerOf[c]]

ConnectionsTo(p) == {c \in Connection : PeerOf[c] = p}

\* The connections to p whose thread is at one of the control states S.
At(p, S) == {c \in ConnectionsTo(p) : pc[c] \in S}

\* The requests p will answer, by connection and place in its queue.
UnderWay(p) == UNION {{c} \X DOMAIN pending[c] : c \in ConnectionsTo(p)}

Counted(p) ==
  peer[p].requesting_piece + Cardinality(At(p, {"count"})) =
    Cardinality(UnderWay(p)) + Cardinality(At(p, {"have", "piece_count"}))
    + dropped[p]

\* requesting_piece of a peer accounts for the requests of all its connections:
\* what it counts, with the requests about to be counted, are the requests
\* under way, the replies about to be counted down, and those the peer will
\* never answer or has not been sent, which nobody takes off again.
RequestsCounted == \A p \in Peer : conns[p] # {} => Counted(p)

\* A piece that completes while a connection is being made is announced on it,
\* by the bitfield connect() sends or by have(): the connection is in
\* state_.connections before connect() reads the pieces.  Nothing is left out
\* but on a connection a message of its own was not sent on.
AnnouncedToAll ==
  \A c \in Connection \ unsent :
    pc[c] \in {"idle"} \cup NotifyPc =>
      \A i \in saved : \/ i \in told[c]
                       \/ \E d \in Connection :
                            pc[d] = "have" /\ local[d].index = i

\* The controller hears of the completion once at most, and only when every
\* piece has been saved, although several connections deliver the last blocks.
CompletedOnce == completions <= 1 /\ (completions = 1 => saved = Piece)

\* The only connection to a peer that has not dropped a request and has got
\* every message.
Steady(c) ==
  /\ conns[PeerOf[c]] = {c} /\ dropped[PeerOf[c]] = 0
  /\ ConnectionsTo(PeerOf[c]) \cap unsent = {}

\* The request loop does not run dry: whatever such a peer has announced is
\* saved in the end, through chokes between requests, corrupt blocks, pieces
\* announced late and blocks another peer delivers first; and when that is
\* all, the controller has heard of it.
Downloaded ==
  \A c \in Connection :
    <>[]Steady(c) => <>[](/\ heard[c] \subseteq saved
                          /\ saved = Piece => completions = 1)
-----------------------------------------------------------------------------
(* The inductive invariant behind the safety properties.                    *)

\* The session knows the connections whose thread has entered it and has not
\* left it, and the entry of a peer those that are past connect_state().
MembersInv ==
  /\ connections = {c \in Connection : pc[c] \notin Away \cup LeavePc \cup {"connect"}}
  /\ \A p \in Peer :
       conns[p] = {c \in ConnectionsTo(p) :
                     pc[c] \notin Away \cup {"connect", "state", "no_more"}}
  /\ \A c \in todo : pc[c] = "none"

\* A request and an announcement name a piece; nothing is under way on a
\* connection that is not served.
LocalInv ==
  \A c \in Connection :
    /\ pc[c] = "send_request" => local[c].index \in Piece /\ local[c].block \in Block
    /\ pc[c] = "have" => local[c].index \in Piece
    /\ pc[c] \in Away \cup ConnectPc \cup LeavePc => pending[c] = <<>>

\* The connections whose request has been dropped before it has been counted.
Lapsed(p) == {c \in At(p, {"count"}) : pending[c] = <<>>}

\* The counts are exact for every address, also when nobody is connected to it,
\* and a request about to be counted that is not under way has been dropped: so
\* a reply is never counted down before its request has been counted.
CountedAt(p) ==
  /\ Counted(p)
  /\ conns[p] = {} => dropped[p] = 0
  /\ Cardinality(Lapsed(p)) <= dropped[p]

CountInv == \A p \in Peer : CountedAt(p)

\* Every piece that is not saved lacks a block.
ChunksInv == \A i \in Piece : ~isPieceComplete(i)

\* A bitfield about to be sent has every saved piece that have() will not
\* announce any more.
AnnounceInv ==
  \A c \in Connection \ unsent :
    pc[c] = "send_bitfield" =>
      \A i \in saved : \/ i \in told[c] \cup local[c].bitfield
                       \/ \E d \in Connection :
                            pc[d] = "have" /\ local[d].index = i

\* The connections that are going to tell the controller.
Completing ==
  {c \in Connection : \/ pc[c] \in {"have", "piece_count"} /\ local[c].then = "complete"
                      \/ pc[c] = "complete"}

\* The last piece is saved once, and by one connection.
CompleteInv ==
  /\ completions \in {0, 1}
  /\ Completing # {} \/ completions = 1 => saved = Piece
  /\ completions = 1 => Completing = {}
  /\ \A c, d \in Completing : c = d

IInv ==
  /\ TypeOK /\ MembersInv /\ LocalInv /\ CountInv /\ ChunksInv
  /\ AnnouncedToAll /\ AnnounceInv /\ CompleteInv
-----------------------------------------------------------------------------
(* What the repository says of the session, and the code does not do        *)

\* scripts/parser.y: a session is the handshake, then messages.
HandshakeFirst == \A c \in Connection : told[c] # {} => c \in shaken

\* populatePeerPiecesBitfield(): ACE_ASSERT ((*iterator).second.pieces.empty ())
PopulatedOnce ==
  \A c \in Connection : pc[c] = "populate" => ~peer[PeerOf[c]].populated
=============================================================================
