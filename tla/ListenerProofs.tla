--------------------------- MODULE ListenerProofs ---------------------------
(***************************************************************************)
(* The tables of the listener stay consistent with its requests and its    *)
(* connections, for any peers, socket ids, faults and bounds.              *)
(***************************************************************************)
EXTENDS Listener, TLAPS

\* The provers, in this order, for the leaves that name none.
USE SMTT(30), Zenon

\* A handler runs for the requests made; a connection needs an acceptance.
Phases ==
  \A r \in Req :
    /\ phase[r] # "none" => r <= Len(request)
    /\ conn[r] # "none" => phase[r] = "accepted"

\* Two requests that wait share neither socket id nor peer.
Distinct ==
  \A r, q \in Req :
    phase[r] = "handling" /\ phase[q] = "handling" /\ r # q =>
      request[r].sid # request[q].sid /\ request[r].peer # request[q].peer

\* The cookies the peers hold.
Cookies == counter \in Cookie /\ given \in [Peer -> SUBSET Cookie]

LInv == TypeOK /\ Phases /\ Distinct /\ TablesAgree /\ ReservationHeld

\* What the invariant speaks about, other than the queues.
core == <<conns, connsByPeer, request, phase, conn>>

-----------------------------------------------------------------------------

(* A request that has a handler is a record with a peer and a socket id.   *)
LEMMA RequestTyped ==
  ASSUME TypeOK, Phases, NEW r \in Req, phase[r] # "none"
  PROVE  /\ r \in 1..Len(request)
         /\ request[r].peer \in Peer
         /\ request[r].sid \in SocketId
<1>1. r \in 1..Len(request)
  BY ListenerAssumption DEF TypeOK, Phases, Req
<1>2. request[r] \in Request
  BY <1>1 DEF TypeOK
<1> QED BY <1>1, <1>2 DEF Request

(* A packet of the backlog names a peer.                                   *)
LEMMA HeadTyped ==
  ASSUME TypeOK, backlog # <<>>
  PROVE  /\ Head(backlog) \in Handshake
         /\ Head(backlog).peer \in Peer
         /\ Tail(backlog) \in Seq(Handshake)
<1>1. Head(backlog) \in Handshake /\ Tail(backlog) \in Seq(Handshake)
  BY DEF TypeOK
<1>2. ASSUME NEW h \in Handshake PROVE h.peer \in Peer
  BY <1>2 DEF Handshake
<1> QED BY <1>1, <1>2

(* Listen starts with empty tables.                                        *)
LEMMA Start ==
  Init => LInv
<1> SUFFICES ASSUME Init PROVE LInv
  OBVIOUS
<1>1. TypeOK
  BY DEF Init, TypeOK, Nil, Absent
<1>2. Phases /\ Distinct
  BY DEF Init, Phases, Distinct
<1>3. TablesAgree
  BY ListenerAssumption DEF Init, TablesAgree, Req, Absent
<1>4. ReservationHeld
  BY DEF Init, ReservationHeld, Nil, Absent
<1> QED BY <1>1, <1>2, <1>3, <1>4 DEF LInv

(* A step that leaves the tables and the requests alone.                   *)
LEMMA CoreUnchanged ==
  ASSUME LInv, UNCHANGED core, starved \subseteq starved',
         rcvQueue' \in Seq(Handshake \cup Shutdown), backlog' \in Seq(Handshake)
  PROVE  LInv'
<1>1. TypeOK'
  BY DEF LInv, TypeOK, core
<1>2. Phases' /\ Distinct'
  BY DEF LInv, Phases, Distinct, core
<1>3. TablesAgree'
  BY DEF LInv, TablesAgree, core
<1>4. ReservationHeld'
  BY DEF LInv, ReservationHeld, core
<1> QED BY <1>1, <1>2, <1>3, <1>4 DEF LInv

(* A handshake for which no socket id is found reserves only the peer.     *)
LEMMA StarvedStep ==
  ASSUME LInv, NoSocketId
  PROVE  LInv'
<1> DEFINE p == Head(backlog).peer
<1>1. p \in Peer /\ backlog' \in Seq(Handshake)
  BY HeadTyped DEF LInv, NoSocketId, Passes, Takes
<1>2. /\ connsByPeer[p] = Absent
      /\ connsByPeer' = [connsByPeer EXCEPT ![p] = Nil]
      /\ starved' = starved \cup {p}
      /\ UNCHANGED <<conns, rcvQueue, request, phase, conn>>
  BY DEF NoSocketId, reqs
<1> HIDE DEF p
<1>3. TypeOK'
  BY <1>1, <1>2 DEF LInv, TypeOK
<1>4. Phases' /\ Distinct'
  BY <1>2 DEF LInv, Phases, Distinct
<1>5. ASSUME NEW r \in Req, phase[r] # "none", connsByPeer[request[r].peer] # Absent
      PROVE  connsByPeer'[request[r].peer] = connsByPeer[request[r].peer]
  BY <1>1, <1>2, <1>5, RequestTyped DEF LInv, TypeOK
<1>6. ASSUME NEW q \in Peer, connsByPeer'[q] # connsByPeer[q]
      PROVE  q = p /\ connsByPeer'[q] = Nil
  BY <1>1, <1>2, <1>6 DEF LInv, TypeOK
<1>7. TablesAgree'
  <2>1. ASSUME NEW r \in Req, conn[r] \in {"open", "closing"}
        PROVE  conns'[request[r].sid] = r /\ connsByPeer'[request[r].peer] = r
    BY <1>2, <1>5, <2>1 DEF LInv, TablesAgree, Phases, Req, Absent
  <2>2. ASSUME NEW q \in Peer, connsByPeer'[q] \in Req
        PROVE  /\ conn[connsByPeer'[q]] \in {"open", "closing"}
               /\ request[connsByPeer'[q]].peer = q
    BY <1>6, <2>2 DEF LInv, TablesAgree, Req, Nil
  <2> QED BY <1>2, <2>1, <2>2 DEF LInv, TablesAgree
<1>8. ReservationHeld'
  <2>1. ASSUME NEW r \in Req, phase[r] = "handling"
        PROVE  conns'[request[r].sid] = Nil /\ connsByPeer'[request[r].peer] = Nil
    BY <1>2, <1>5, <2>1 DEF LInv, ReservationHeld, Nil, Absent
  <2>2. ASSUME NEW q \in Peer, connsByPeer'[q] = Nil
        PROVE  q \in starved' \/ \E r \in Req : phase[r] = "handling" /\ request[r].peer = q
    BY <1>2, <1>6, <2>2 DEF LInv, ReservationHeld
  <2> QED BY <1>2, <2>1, <2>2 DEF LInv, ReservationHeld
<1> QED BY <1>3, <1>4, <1>7, <1>8 DEF LInv

(* A new request reserves a free socket id and its peer, and so differs in *)
(* both from every request that waits.                                     *)
LEMMA RequestStep ==
  ASSUME LInv, NewRequest
  PROVE  LInv'
<1> DEFINE p == Head(backlog).peer
           n == Len(request) + 1
<1>1. p \in Peer /\ backlog' \in Seq(Handshake)
  BY HeadTyped DEF LInv, NewRequest, Passes, Takes
<1>2. Head(backlog).fault \in Faults /\ Head(backlog).crypt \in Crypt
  <2>1. Head(backlog) \in Handshake /\ Head(backlog).type = "conclusion"
    BY HeadTyped DEF LInv, NewRequest, Passes, Takes
  <2>2. ASSUME NEW h \in Handshake, h.type = "conclusion"
        PROVE  h.fault \in Faults /\ h.crypt \in Crypt
    BY <2>2 DEF Handshake
  <2> QED BY <2>1, <2>2
<1>3. n \in Req /\ Len(request) \in Nat /\ request \in Seq(Request)
  BY ListenerAssumption DEF LInv, TypeOK, NewRequest, Req
<1>4. PICK s \in SocketId :
        /\ conns[s] = Absent
        /\ conns' = [conns EXCEPT ![s] = Nil]
        /\ request' = Append(request, [peer |-> p, sid |-> s,
                                       fault |-> Head(backlog).fault,
                                       crypt |-> Head(backlog).crypt])
  BY Zenon DEF NewRequest
<1>5. /\ connsByPeer[p] = Absent
      /\ connsByPeer' = [connsByPeer EXCEPT ![p] = Nil]
      /\ phase' = [phase EXCEPT ![n] = "handling"]
      /\ UNCHANGED <<rcvQueue, conn, starved>>
  BY DEF NewRequest
<1>6. /\ request' \in Seq(Request) /\ Len(request') = n
      /\ request'[n].peer = p /\ request'[n].sid = s
      /\ \A r \in 1..Len(request) : request'[r] = request[r]
  <2>1. [peer |-> p, sid |-> s, fault |-> Head(backlog).fault,
         crypt |-> Head(backlog).crypt] \in Request
    BY <1>1, <1>2 DEF Request
  <2> QED BY <1>3, <1>4, <2>1
<1> HIDE DEF p, n
<1>7. TypeOK'
  BY <1>1, <1>3, <1>4, <1>5, <1>6 DEF LInv, TypeOK, Req
<1>8. phase[n] = "none" /\ conn[n] = "none"
  BY <1>3 DEF LInv, TypeOK, Phases, n
<1>9. \A r \in Req : r # n => phase'[r] = phase[r]
  BY <1>3, <1>5 DEF LInv, TypeOK
<1>10. phase'[n] = "handling"
  BY <1>3, <1>5 DEF LInv, TypeOK
<1>11. Phases'
  BY <1>3, <1>5, <1>6, <1>8, <1>9, <1>10, ListenerAssumption DEF LInv, Phases, Req, n
<1>12. ASSUME NEW r \in Req, phase[r] # "none"
       PROVE  /\ r # n /\ phase'[r] = phase[r] /\ request'[r] = request[r]
              /\ request[r].peer \in Peer /\ request[r].sid \in SocketId
  BY <1>6, <1>8, <1>9, <1>12, RequestTyped DEF LInv
<1>13. /\ \A q \in Peer : connsByPeer'[q] = IF q = p THEN Nil ELSE connsByPeer[q]
       /\ \A t \in SocketId : conns'[t] = IF t = s THEN Nil ELSE conns[t]
  BY <1>1, <1>4, <1>5 DEF LInv, TypeOK
<1>14. ASSUME NEW r \in Req, phase[r] = "handling"
       PROVE  request[r].peer # p /\ request[r].sid # s
  BY <1>4, <1>5, <1>14 DEF LInv, ReservationHeld, Nil, Absent
<1>15. Distinct'
  BY <1>6, <1>9, <1>12, <1>14 DEF LInv, Distinct
<1>16. TablesAgree'
  <2>1. ASSUME NEW r \in Req, conn[r] \in {"open", "closing"}
        PROVE  conns'[request'[r].sid] = r /\ connsByPeer'[request'[r].peer] = r
    <3>1. phase[r] # "none" /\ conns[request[r].sid] = r /\ connsByPeer[request[r].peer] = r
      BY <2>1 DEF LInv, Phases, TablesAgree
    <3>2. request[r].peer # p /\ request[r].sid # s
      BY <1>4, <1>5, <3>1 DEF Req, Absent
    <3> QED BY <1>12, <1>13, <3>1, <3>2
  <2>2. ASSUME NEW t \in SocketId, conns'[t] \in Req
        PROVE  conn[conns'[t]] \in {"open", "closing"} /\ request'[conns'[t]].sid = t
    <3>1. conns'[t] = conns[t] /\ conns[t] \in Req
      BY <1>13, <2>2 DEF Req, Nil
    <3>2. conn[conns[t]] \in {"open", "closing"} /\ request[conns[t]].sid = t
      BY <3>1 DEF LInv, TablesAgree
    <3>3. phase[conns[t]] # "none"
      BY <3>1, <3>2 DEF LInv, Phases
    <3> QED BY <1>12, <3>1, <3>2, <3>3
  <2>3. ASSUME NEW q \in Peer, connsByPeer'[q] \in Req
        PROVE  /\ conn[connsByPeer'[q]] \in {"open", "closing"}
               /\ request'[connsByPeer'[q]].peer = q
    <3>1. connsByPeer'[q] = connsByPeer[q] /\ connsByPeer[q] \in Req
      BY <1>13, <2>3 DEF Req, Nil
    <3>2. conn[connsByPeer[q]] \in {"open", "closing"} /\ request[connsByPeer[q]].peer = q
      BY <3>1 DEF LInv, TablesAgree
    <3>3. phase[connsByPeer[q]] # "none"
      BY <3>1, <3>2 DEF LInv, Phases
    <3> QED BY <1>12, <3>1, <3>2, <3>3
  <2> QED BY <1>5, <2>1, <2>2, <2>3 DEF TablesAgree
<1>17. ReservationHeld'
  <2>1. ASSUME NEW r \in Req, phase'[r] = "handling"
        PROVE  conns'[request'[r].sid] = Nil /\ connsByPeer'[request'[r].peer] = Nil
    <3>1. CASE r = n
      BY <1>1, <1>6, <1>13, <3>1
    <3>2. CASE r # n
      BY <1>9, <1>12, <1>13, <2>1, <3>2 DEF LInv, ReservationHeld
    <3> QED BY <3>1, <3>2
  <2>2. ASSUME NEW t \in SocketId, conns'[t] = Nil
        PROVE  \E r \in Req : phase'[r] = "handling" /\ request'[r].sid = t
    <3>1. CASE t = s
      BY <1>3, <1>6, <1>10, <3>1
    <3>2. CASE t # s
      BY <1>12, <1>13, <2>2, <3>2 DEF LInv, ReservationHeld
    <3> QED BY <3>1, <3>2
  <2>3. ASSUME NEW q \in Peer, connsByPeer'[q] = Nil
        PROVE  q \in starved' \/ \E r \in Req : phase'[r] = "handling" /\ request'[r].peer = q
    <3>1. CASE q = p
      BY <1>3, <1>6, <1>10, <3>1
    <3>2. CASE q # p
      BY <1>5, <1>12, <1>13, <2>3, <3>2 DEF LInv, ReservationHeld
    <3> QED BY <3>1, <3>2
  <2> QED BY <2>1, <2>2, <2>3 DEF ReservationHeld
<1> QED BY <1>7, <1>11, <1>15, <1>16, <1>17 DEF LInv

(* A request that leaves "handling" without a connection gives up its      *)
(* socket id and its peer; no other request or connection has them.        *)
LEMMA RejectStep ==
  ASSUME LInv, NEW r \in Req, phase[r] = "handling", Rejects(r),
         phase' = [phase EXCEPT ![r] = "rejected"],
         UNCHANGED <<queues, request, conn, starved>>
  PROVE  LInv'
<1> DEFINE p == request[r].peer
           s == request[r].sid
<1>1. p \in Peer /\ s \in SocketId
  BY RequestTyped DEF LInv
<1>2. conns[s] = Nil /\ connsByPeer[p] = Nil
  BY DEF LInv, ReservationHeld
<1>3. /\ conns' = [conns EXCEPT ![s] = Absent]
      /\ connsByPeer' = [connsByPeer EXCEPT ![p] = Absent]
  BY <1>2 DEF Rejects, Waits
<1>4. UNCHANGED <<rcvQueue, backlog, request, conn, starved>>
  BY DEF queues
<1>5. ASSUME NEW q \in Req, phase[q] = "handling", q # r
      PROVE  request[q].peer # p /\ request[q].sid # s
  BY <1>5 DEF LInv, Distinct
<1>6. ASSUME NEW q \in Req, phase[q] # "none"
      PROVE  request[q].peer \in Peer /\ request[q].sid \in SocketId
  BY <1>6, RequestTyped DEF LInv
<1> HIDE DEF p, s
<1>7. /\ \A q \in Peer : connsByPeer'[q] = IF q = p THEN Absent ELSE connsByPeer[q]
      /\ \A t \in SocketId : conns'[t] = IF t = s THEN Absent ELSE conns[t]
      /\ \A q \in Req : phase'[q] = IF q = r THEN "rejected" ELSE phase[q]
  BY <1>1, <1>3 DEF LInv, TypeOK
<1>8. TypeOK'
  BY <1>1, <1>3, <1>4 DEF LInv, TypeOK
<1>9. conn[r] = "none"
  BY DEF LInv, Phases
<1>10. Phases' /\ Distinct'
  BY <1>4, <1>7, <1>9 DEF LInv, Phases, Distinct
<1>11. TablesAgree'
  <2>1. ASSUME NEW q \in Req, conn[q] \in {"open", "closing"}
        PROVE  conns'[request[q].sid] = q /\ connsByPeer'[request[q].peer] = q
    <3>1. phase[q] # "none" /\ conns[request[q].sid] = q /\ connsByPeer[request[q].peer] = q
      BY <2>1 DEF LInv, Phases, TablesAgree
    <3>2. request[q].peer # p /\ request[q].sid # s
      BY <1>2, <3>1 DEF Req, Nil
    <3> QED BY <1>6, <1>7, <3>1, <3>2
  <2>2. \A t \in SocketId : conns'[t] \in Req => conns'[t] = conns[t]
    BY <1>7 DEF Req, Absent
  <2>3. \A q \in Peer : connsByPeer'[q] \in Req => connsByPeer'[q] = connsByPeer[q]
    BY <1>7 DEF Req, Absent
  <2>4. ASSUME NEW t \in SocketId, conns'[t] \in Req
        PROVE  conn'[conns'[t]] \in {"open", "closing"} /\ request'[conns'[t]].sid = t
    <3>1. conns'[t] = conns[t] /\ conns[t] \in Req
      BY <2>2, <2>4
    <3>2. conn[conns[t]] \in {"open", "closing"} /\ request[conns[t]].sid = t
      BY <3>1 DEF LInv, TablesAgree
    <3> QED BY <1>4, <3>1, <3>2
  <2>5. ASSUME NEW q \in Peer, connsByPeer'[q] \in Req
        PROVE  /\ conn'[connsByPeer'[q]] \in {"open", "closing"}
               /\ request'[connsByPeer'[q]].peer = q
    <3>1. connsByPeer'[q] = connsByPeer[q] /\ connsByPeer[q] \in Req
      BY <2>3, <2>5
    <3>2. /\ conn[connsByPeer[q]] \in {"open", "closing"}
          /\ request[connsByPeer[q]].peer = q
      BY <3>1 DEF LInv, TablesAgree
    <3> QED BY <1>4, <3>1, <3>2
  <2>6. ASSUME NEW q \in Req, conn'[q] \in {"open", "closing"}
        PROVE  conns'[request'[q].sid] = q /\ connsByPeer'[request'[q].peer] = q
    BY <1>4, <2>1, <2>6
  <2> QED BY <2>4, <2>5, <2>6 DEF TablesAgree
<1>12. ReservationHeld'
  <2>1. ASSUME NEW q \in Req, phase'[q] = "handling"
        PROVE  conns'[request[q].sid] = Nil /\ connsByPeer'[request[q].peer] = Nil
    BY <1>5, <1>6, <1>7, <2>1 DEF LInv, ReservationHeld
  <2>2. ASSUME NEW t \in SocketId, conns'[t] = Nil
        PROVE  \E q \in Req : phase'[q] = "handling" /\ request[q].sid = t
    <3>1. t # s /\ conns[t] = Nil
      BY <1>7, <2>2 DEF Nil, Absent
    <3>2. PICK q \in Req : phase[q] = "handling" /\ request[q].sid = t
      BY <3>1 DEF LInv, ReservationHeld
    <3> QED BY <1>7, <3>1, <3>2 DEF s
  <2>3. ASSUME NEW t \in Peer, connsByPeer'[t] = Nil
        PROVE  t \in starved \/ \E q \in Req : phase'[q] = "handling" /\ request[q].peer = t
    <3>1. t # p /\ connsByPeer[t] = Nil
      BY <1>7, <2>3 DEF Nil, Absent
    <3>2. CASE t \in starved
      BY <3>2
    <3>3. CASE \E q \in Req : phase[q] = "handling" /\ request[q].peer = t
      BY <1>7, <3>1, <3>3 DEF p
    <3> QED BY <3>1, <3>2, <3>3 DEF LInv, ReservationHeld
  <2> QED BY <1>4, <2>1, <2>2, <2>3 DEF ReservationHeld
<1> QED BY <1>8, <1>10, <1>11, <1>12 DEF LInv

(* Accept turns the reservation into the entries of the connection.  Its   *)
(* reservation is there, so that Accept does not fail.                     *)
LEMMA AcceptStep ==
  ASSUME LInv, NEW r \in Req, Accept(r)
  PROVE  LInv'
<1> DEFINE p == request[r].peer
           s == request[r].sid
<1>1. phase[r] = "handling"
  BY DEF Accept
<1>2. p \in Peer /\ s \in SocketId
  BY <1>1, RequestTyped DEF LInv
<1>3. conns[s] = Nil /\ connsByPeer[p] = Nil
  BY <1>1 DEF LInv, ReservationHeld
<1>4. /\ conns' = [conns EXCEPT ![s] = r]
      /\ connsByPeer' = [connsByPeer EXCEPT ![p] = r]
      /\ phase' = [phase EXCEPT ![r] = "accepted"]
      /\ conn' = [conn EXCEPT ![r] = "open"]
  BY <1>3 DEF Accept, Accepts, Waits
<1>5. UNCHANGED <<rcvQueue, backlog, request, starved>>
  BY Zenon DEF Accept, queues
<1>6. ASSUME NEW q \in Req, phase[q] = "handling", q # r
      PROVE  request[q].peer # p /\ request[q].sid # s
  BY <1>1, <1>6 DEF LInv, Distinct
<1>7. ASSUME NEW q \in Req, phase[q] # "none"
      PROVE  request[q].peer \in Peer /\ request[q].sid \in SocketId
  BY <1>7, RequestTyped DEF LInv
<1> HIDE DEF p, s
<1>8. /\ \A q \in Peer : connsByPeer'[q] = IF q = p THEN r ELSE connsByPeer[q]
      /\ \A t \in SocketId : conns'[t] = IF t = s THEN r ELSE conns[t]
      /\ \A q \in Req : phase'[q] = IF q = r THEN "accepted" ELSE phase[q]
      /\ \A q \in Req : conn'[q] = IF q = r THEN "open" ELSE conn[q]
  BY <1>2, <1>4 DEF LInv, TypeOK
<1>9. TypeOK'
  BY <1>2, <1>4, <1>5 DEF LInv, TypeOK
<1>10. Phases' /\ Distinct'
  BY <1>1, <1>5, <1>8 DEF LInv, Phases, Distinct
<1>11. conn[r] = "none"
  BY <1>1 DEF LInv, Phases
<1>12. TablesAgree'
  <2>1. ASSUME NEW q \in Req, conn'[q] \in {"open", "closing"}
        PROVE  conns'[request[q].sid] = q /\ connsByPeer'[request[q].peer] = q
    <3>1. CASE q = r
      BY <1>2, <1>8, <3>1 DEF p, s
    <3>2. CASE q # r
      <4>0. conn[q] \in {"open", "closing"}
        BY <1>8, <2>1, <3>2
      <4>1. /\ phase[q] # "none"
            /\ conns[request[q].sid] = q /\ connsByPeer[request[q].peer] = q
        <5>1. phase[q] # "none"
          BY <4>0 DEF LInv, Phases
        <5> QED BY <4>0, <5>1 DEF LInv, TablesAgree
      <4>2. request[q].peer # p /\ request[q].sid # s
        BY <1>3, <4>1 DEF Req, Nil
      <4> QED BY <1>7, <1>8, <4>1, <4>2
    <3> QED BY <3>1, <3>2, Zenon
  <2>2. ASSUME NEW t \in SocketId, conns'[t] \in Req
        PROVE  conn'[conns'[t]] \in {"open", "closing"} /\ request[conns'[t]].sid = t
    <3>1. CASE t = s
      BY <1>8, <3>1 DEF s
    <3>2. CASE t # s
      <4>1. conns'[t] = conns[t]
        BY <1>8, <3>2
      <4>2. conn[conns[t]] \in {"open", "closing"} /\ request[conns[t]].sid = t
        BY <2>2, <4>1 DEF LInv, TablesAgree
      <4> QED BY <1>8, <2>2, <4>1, <4>2
    <3> QED BY <3>1, <3>2
  <2>3. ASSUME NEW t \in Peer, connsByPeer'[t] \in Req
        PROVE  /\ conn'[connsByPeer'[t]] \in {"open", "closing"}
               /\ request[connsByPeer'[t]].peer = t
    <3>1. CASE t = p
      BY <1>8, <3>1 DEF p
    <3>2. CASE t # p
      <4>1. connsByPeer'[t] = connsByPeer[t]
        BY <1>8, <3>2
      <4>2. conn[connsByPeer[t]] \in {"open", "closing"} /\ request[connsByPeer[t]].peer = t
        BY <2>3, <4>1 DEF LInv, TablesAgree
      <4> QED BY <1>8, <2>3, <4>1, <4>2
    <3> QED BY <3>1, <3>2
  <2> QED BY <1>5, <2>1, <2>2, <2>3 DEF TablesAgree
<1>13. ReservationHeld'
  <2>1. ASSUME NEW q \in Req, phase'[q] = "handling"
        PROVE  conns'[request[q].sid] = Nil /\ connsByPeer'[request[q].peer] = Nil
    <3>1. q # r /\ phase[q] = "handling"
      BY <1>8, <2>1
    <3>2. conns[request[q].sid] = Nil /\ connsByPeer[request[q].peer] = Nil
      BY <3>1 DEF LInv, ReservationHeld
    <3> QED BY <1>6, <1>7, <1>8, <3>1, <3>2
  <2>2. ASSUME NEW t \in SocketId, conns'[t] = Nil
        PROVE  \E q \in Req : phase'[q] = "handling" /\ request[q].sid = t
    <3>1. t # s /\ conns[t] = Nil
      BY <1>8, <2>2 DEF Req, Nil
    <3>2. PICK q \in Req : phase[q] = "handling" /\ request[q].sid = t
      BY <3>1 DEF LInv, ReservationHeld
    <3> QED BY <1>8, <3>1, <3>2 DEF s
  <2>3. ASSUME NEW t \in Peer, connsByPeer'[t] = Nil
        PROVE  t \in starved \/ \E q \in Req : phase'[q] = "handling" /\ request[q].peer = t
    <3>1. t # p /\ connsByPeer[t] = Nil
      BY <1>8, <2>3 DEF Req, Nil
    <3>2. CASE t \in starved
      BY <3>2
    <3>3. CASE \E q \in Req : phase[q] = "handling" /\ request[q].peer = t
      BY <1>8, <3>1, <3>3 DEF p
    <3> QED BY <3>1, <3>2, <3>3 DEF LInv, ReservationHeld
  <2> QED BY <1>5, <2>1, <2>2, <2>3 DEF ReservationHeld
<1> QED BY <1>9, <1>10, <1>12, <1>13 DEF LInv

(* A connection that starts to close keeps its entries.                    *)
LEMMA CloseStep ==
  ASSUME LInv,
         conn' \in [Req -> {"none", "open", "closing", "gone"}],
         \A r \in Req : \/ conn'[r] = conn[r]
                        \/ conn[r] = "open" /\ conn'[r] = "closing",
         UNCHANGED <<tables, queues, request, phase, starved>>
  PROVE  LInv'
<1>1. UNCHANGED <<conns, connsByPeer, rcvQueue, backlog, request, phase, starved>>
  BY DEF tables, queues
<1>2. TypeOK'
  BY <1>1 DEF LInv, TypeOK
<1>3. Phases' /\ Distinct'
  BY <1>1 DEF LInv, Phases, Distinct
<1>4. TablesAgree'
  <2>1. ASSUME NEW r \in Req
        PROVE  conn'[r] \in {"open", "closing"} <=> conn[r] \in {"open", "closing"}
    OBVIOUS
  <2>2. TablesAgree
    BY Zenon DEF LInv
  <2> QED BY <1>1, <2>1, <2>2 DEF TablesAgree
<1>5. ReservationHeld'
  <2>1. ReservationHeld
    BY DEF LInv
  <2> QED BY <1>1, <2>1 DEF ReservationHeld
<1> QED BY <1>2, <1>3, <1>4, <1>5 DEF LInv

(* handleShutdown removes the entries of its own connection and of no      *)
(* other, since until then they are that connection's.                     *)
LEMMA ShutdownStep ==
  ASSUME LInv, NEW r \in Req, HandleShutdown(r)
  PROVE  LInv'
<1> DEFINE p == request[r].peer
           s == request[r].sid
<1>1. phase[r] = "accepted"
  BY DEF LInv, Phases, HandleShutdown
<1>2. p \in Peer /\ s \in SocketId
  BY <1>1, RequestTyped DEF LInv
<1>3. conns[s] = r /\ connsByPeer[p] = r
  BY DEF LInv, TablesAgree, HandleShutdown
<1>4. /\ conns' = [conns EXCEPT ![s] = Absent]
      /\ connsByPeer' = [connsByPeer EXCEPT ![p] = Absent]
      /\ conn' = [conn EXCEPT ![r] = "gone"]
  BY DEF HandleShutdown
<1>5. UNCHANGED <<rcvQueue, backlog, request, phase, starved>>
  BY DEF HandleShutdown, queues
<1>6. ASSUME NEW q \in Req, phase[q] # "none"
      PROVE  request[q].peer \in Peer /\ request[q].sid \in SocketId
  BY <1>6, RequestTyped DEF LInv
<1> HIDE DEF p, s
<1>7. /\ \A q \in Peer : connsByPeer'[q] = IF q = p THEN Absent ELSE connsByPeer[q]
      /\ \A t \in SocketId : conns'[t] = IF t = s THEN Absent ELSE conns[t]
      /\ \A q \in Req : conn'[q] = IF q = r THEN "gone" ELSE conn[q]
  BY <1>2, <1>4 DEF LInv, TypeOK
<1>8. TypeOK'
  BY <1>2, <1>4, <1>5, Zenon DEF LInv, TypeOK
<1>9. Phases' /\ Distinct'
  BY <1>1, <1>5, <1>7 DEF LInv, Phases, Distinct
<1>10. TablesAgree'
  <2>1. ASSUME NEW q \in Req, conn'[q] \in {"open", "closing"}
        PROVE  conns'[request[q].sid] = q /\ connsByPeer'[request[q].peer] = q
    <3>1. /\ q # r /\ phase[q] # "none"
          /\ conns[request[q].sid] = q /\ connsByPeer[request[q].peer] = q
      <4>1. q # r /\ conn[q] \in {"open", "closing"}
        BY <1>7, <2>1
      <4>2. phase[q] # "none"
        BY <4>1 DEF LInv, Phases
      <4> QED BY <4>1, <4>2 DEF LInv, TablesAgree
    <3>2. request[q].peer # p /\ request[q].sid # s
      BY <1>3, <3>1
    <3> QED BY <1>6, <1>7, <3>1, <3>2
  <2>2. ASSUME NEW t \in SocketId, conns'[t] \in Req
        PROVE  conn'[conns'[t]] \in {"open", "closing"} /\ request[conns'[t]].sid = t
    <3>1. t # s /\ conns'[t] = conns[t]
      <4>1. t # s
        BY <1>7, <2>2 DEF Req, Absent
      <4> QED BY <1>7, <4>1
    <3>2. conn[conns[t]] \in {"open", "closing"} /\ request[conns[t]].sid = t
      BY <2>2, <3>1 DEF LInv, TablesAgree
    <3> QED BY <1>7, <2>2, <3>1, <3>2 DEF s
  <2>3. ASSUME NEW t \in Peer, connsByPeer'[t] \in Req
        PROVE  /\ conn'[connsByPeer'[t]] \in {"open", "closing"}
               /\ request[connsByPeer'[t]].peer = t
    <3>1. t # p /\ connsByPeer'[t] = connsByPeer[t]
      BY <1>7, <2>3 DEF Req, Absent
    <3>2. conn[connsByPeer[t]] \in {"open", "closing"} /\ request[connsByPeer[t]].peer = t
      BY <2>3, <3>1, Zenon DEF LInv, TablesAgree
    <3> QED BY <1>7, <2>3, <3>1, <3>2 DEF p
  <2> QED BY <1>5, <2>1, <2>2, <2>3, Zenon DEF TablesAgree
<1>11. ReservationHeld'
  <2>1. ASSUME NEW q \in Req, phase[q] = "handling"
        PROVE  conns'[request[q].sid] = Nil /\ connsByPeer'[request[q].peer] = Nil
    <3>1. conns[request[q].sid] = Nil /\ connsByPeer[request[q].peer] = Nil
      BY <2>1 DEF LInv, ReservationHeld
    <3>2. request[q].peer # p /\ request[q].sid # s
      BY <1>3, <3>1 DEF Req, Nil
    <3>3. request[q].peer \in Peer /\ request[q].sid \in SocketId
      BY <1>6, <2>1
    <3> QED BY <1>7, <3>1, <3>2, <3>3
  <2>2. /\ \A t \in SocketId : conns'[t] = Nil => conns[t] = Nil
        /\ \A t \in Peer : connsByPeer'[t] = Nil => connsByPeer[t] = Nil
    BY <1>7 DEF Nil, Absent
  <2> QED BY <1>5, <2>1, <2>2, Zenon DEF LInv, ReservationHeld
<1> QED BY <1>8, <1>9, <1>10, <1>11 DEF LInv

(* Only Induction hands out cookies, and they are values of the counter.   *)
LEMMA CookieStep ==
  Cookies /\ [Next]_vars => Cookies'
<1> SUFFICES ASSUME Cookies, [Next]_vars PROVE Cookies'
  OBVIOUS
<1> USE DEF peers
<1>1. CASE TimePasses
  BY <1>1, ListenerAssumption DEF TimePasses, Cookies, Cookie
<1>2. CASE Induction
  BY <1>2, Zenon DEF Induction, Cookies
<1>3. CASE Send
  BY <1>3, Zenon DEF Send, Arrive, Cookies
<1>4. ASSUME UNCHANGED <<counter, given>> PROVE Cookies'
  BY <1>4, Zenon DEF Cookies
<1>5. CASE SocketEnds \/ Read \/ ReaderLeaves \/ Close \/ Closer \/ UNCHANGED vars
  BY <1>4, <1>5, Zenon
     DEF SocketEnds, Read, ReaderLeaves, Close, Closer, CloseConns, CloseSocket, vars
<1>6. CASE Call \/ Done \/ Refused \/ Duplicate \/ NoSocketId \/ NewRequest
  BY <1>4, <1>6, Zenon DEF Call, Done, Refused, Duplicate, NoSocketId, NewRequest
<1>7. ASSUME NEW r \in Req,
             SetPassphrase(r) \/ Handler(r) \/ CloseConn(r) \/ HandleShutdown(r)
      PROVE  Cookies'
  BY <1>4, <1>7
     DEF SetPassphrase, Handler, Reject, AcceptLocked, Accept, CloseConn, HandleShutdown
<1> QED BY <1>1, <1>2, <1>3, <1>5, <1>6, <1>7 DEF Next, Serve

(* Every step of every goroutine keeps the invariant.                      *)
LEMMA Step ==
  LInv /\ Cookies /\ [Next]_vars => LInv'
<1> SUFFICES ASSUME LInv, Cookies, [Next]_vars PROVE LInv'
  OBVIOUS
<1> USE DEF tables, queues, closing, reqs, peers, core
<1>1. rcvQueue \in Seq(Handshake \cup Shutdown) /\ backlog \in Seq(Handshake)
  BY DEF LInv, TypeOK
<1>2. CASE UNCHANGED vars
  BY <1>1, <1>2, CoreUnchanged, Zenon DEF vars
<1>3. CASE SocketEnds \/ ReaderLeaves \/ Call \/ Done \/ Close \/ CloseSocket \/ TimePasses
  BY <1>1, <1>3, CoreUnchanged
     DEF SocketEnds, ReaderLeaves, Call, Done, Close, CloseSocket, TimePasses
<1>4. CASE Send
  <2>1. PICK pkt : Arrive(pkt) /\ pkt \in Handshake \cup Shutdown
    <3>1. CASE \E p \in Peer : Arrive([type |-> "induction", peer |-> p])
      <4>1. PICK p \in Peer : Arrive([type |-> "induction", peer |-> p])
        BY <3>1
      <4>2. [type |-> "induction", peer |-> p] \in Handshake
        BY DEF Handshake
      <4> QED BY <4>1, <4>2
    <3>2. CASE \E p \in Peer, f \in Faults, c \in Crypt : \E cookie \in given[p] :
                 /\ Arrive([type |-> "conclusion", peer |-> p, cookie |-> cookie,
                            fault |-> f, crypt |-> c])
                 /\ cookie \in Cookie
      <4>1. PICK p \in Peer, f \in Faults, c \in Crypt : \E cookie \in given[p] :
                 /\ Arrive([type |-> "conclusion", peer |-> p, cookie |-> cookie,
                            fault |-> f, crypt |-> c])
                 /\ cookie \in Cookie
        BY <3>2, Zenon
      <4>2. PICK cookie \in Cookie :
                 Arrive([type |-> "conclusion", peer |-> p, cookie |-> cookie,
                         fault |-> f, crypt |-> c])
        BY <4>1
      <4>3. [type |-> "conclusion", peer |-> p, cookie |-> cookie,
             fault |-> f, crypt |-> c] \in Handshake
        BY DEF Handshake
      <4> QED BY <4>2, <4>3, Zenon
    <3>3. CASE \E p \in Peer, s \in SocketId :
                 Arrive([type |-> "shutdown", peer |-> p, to |-> s])
      BY <3>3 DEF Shutdown
    <3>4. \A p \in Peer : \A cookie \in given[p] : cookie \in Cookie
      BY DEF Cookies
    <3> QED BY <1>4, <3>1, <3>2, <3>3, <3>4, Zenon DEF Send
  <2>2. rcvQueue' \in Seq(Handshake \cup Shutdown)
    BY <1>1, <2>1 DEF Arrive
  <2> QED BY <1>1, <2>1, <2>2, CoreUnchanged DEF Arrive
<1>5. CASE Read
  <2>1. /\ Head(rcvQueue) \in Handshake \cup Shutdown
        /\ Tail(rcvQueue) \in Seq(Handshake \cup Shutdown)
    <3>1. rcvQueue # <<>>
      BY <1>5 DEF Read
    <3> QED BY <1>1, <3>1
  <2>2. ASSUME NEW pkt \in Handshake \cup Shutdown, pkt.type # "shutdown"
        PROVE  pkt \in Handshake
    BY <2>2 DEF Shutdown
  <2>3. backlog' \in Seq(Handshake)
    <3>1. \/ backlog' = backlog
          \/ Head(rcvQueue).type # "shutdown" /\ backlog' = Append(backlog, Head(rcvQueue))
      BY <1>5 DEF Read
    <3>2. Head(rcvQueue).type # "shutdown" => Head(rcvQueue) \in Handshake
      BY <2>1, <2>2, Zenon
    <3> QED BY <1>1, <3>1, <3>2
  <2> QED BY <1>5, <2>1, <2>3, CoreUnchanged DEF Read
<1>6. CASE Induction \/ Refused \/ Duplicate
  <2>1. backlog # <<>> /\ backlog' = Tail(backlog)
    BY <1>6 DEF Induction, Refused, Duplicate, Passes, Takes
  <2> QED BY <1>1, <1>6, <2>1, HeadTyped, CoreUnchanged, Zenon
          DEF LInv, Induction, Refused, Duplicate
<1>7. CASE NoSocketId
  BY <1>7, StarvedStep
<1>8. CASE NewRequest
  BY <1>8, RequestStep
<1>9. ASSUME NEW r \in Req,
             SetPassphrase(r) \/ Handler(r) \/ CloseConn(r) \/ HandleShutdown(r)
      PROVE  LInv'
  <2>1. CASE SetPassphrase(r)
    BY <1>1, <2>1, CoreUnchanged, Zenon DEF SetPassphrase
  <2>2. CASE Reject(r)
    <3>1. phase[r] = "handling"
      BY <2>2 DEF Reject, LInv, Phases
    <3> QED BY <2>2, <3>1, RejectStep, Zenon DEF Reject
  <2>3. CASE AcceptLocked(r)
    BY <2>3, RejectStep, Zenon DEF AcceptLocked
  <2>4. CASE Accept(r)
    BY <2>4, AcceptStep, Zenon
  <2>5. CASE CloseConn(r)
    BY <2>5, CloseStep, Zenon DEF CloseConn, LInv, TypeOK
  <2>6. CASE HandleShutdown(r)
    BY <2>6, ShutdownStep
  <2> QED BY <1>9, <2>1, <2>2, <2>3, <2>4, <2>5, <2>6, Zenon DEF Handler
<1>10. CASE CloseConns
  <2>1. conn' \in [Req -> {"none", "open", "closing", "gone"}]
    BY <1>10 DEF CloseConns, LInv, TypeOK
  <2>2. \A r \in Req : \/ conn'[r] = conn[r]
                       \/ conn[r] = "open" /\ conn'[r] = "closing"
    BY <1>10 DEF CloseConns
  <2> QED BY <1>10, <2>1, <2>2, CloseStep, Zenon DEF CloseConns
<1> QED
  BY <1>2, <1>3, <1>4, <1>5, <1>6, <1>7, <1>8, <1>9, <1>10 DEF Next, Serve, Closer

-----------------------------------------------------------------------------

(* The argument for both theorems.                                         *)
LEMMA Invariance ==
  Spec => []LInv
<1>1. Init => Cookies
  BY ListenerAssumption DEF Init, Cookies, Cookie
<1> QED BY <1>1, CookieStep, Start, Step, PTL DEF Spec

(* A connection that lives is found under its socket id and its peer, and  *)
(* no entry names one that is gone, whichever handlers, closes and late    *)
(* packets interleave (Accept, Reject, handleShutdown, newConnRequest).    *)
THEOREM TablesAlwaysAgree ==
  Spec => []TablesAgree
<1>1. LInv => TablesAgree
  BY DEF LInv
<1> QED BY <1>1, Invariance, PTL

(* A request keeps its socket id and its peer until its handler decides,   *)
(* and no reserved socket id is without such a request (newConnRequest,    *)
(* Accept and Reject), as long as handlers leave Reject to the server.     *)
THEOREM ReservationAlwaysHeld ==
  Spec => []ReservationHeld
<1>1. LInv => ReservationHeld
  BY DEF LInv
<1> QED BY <1>1, Invariance, PTL

-----------------------------------------------------------------------------

Packet == Handshake \cup Shutdown

\* The conclusions in a queue carry cookies that their peers were given.
Held(q, g) ==
  \A i \in 1..Len(q) : q[i].type = "conclusion" => q[i].cookie \in g[q[i].peer]

CInv == Held(rcvQueue, given) /\ Held(backlog, given)

(* A queue keeps holding such cookies when its head is taken, ...          *)
LEMMA HeldTail ==
  ASSUME NEW q \in Seq(Packet), NEW g, Held(q, g), q # <<>>
  PROVE  /\ Held(Tail(q), g)
         /\ Head(q).type = "conclusion" => Head(q).cookie \in g[Head(q).peer]
<1>1. /\ Len(Tail(q)) = Len(q) - 1 /\ Len(q) \in Nat
      /\ \A i \in 1..Len(Tail(q)) : Tail(q)[i] = q[i + 1] /\ i + 1 \in 1..Len(q)
      /\ Head(q) = q[1] /\ 1 \in 1..Len(q)
  OBVIOUS
<1> QED BY <1>1 DEF Held

(* ... when such a packet is appended, ...                                 *)
LEMMA HeldAppend ==
  ASSUME NEW q \in Seq(Packet), NEW g, Held(q, g), NEW e,
         e.type = "conclusion" => e.cookie \in g[e.peer]
  PROVE  Held(Append(q, e), g)
<1>1. /\ Len(Append(q, e)) = Len(q) + 1 /\ Len(q) \in Nat
      /\ \A i \in 1..Len(q) : Append(q, e)[i] = q[i]
      /\ Append(q, e)[Len(q) + 1] = e
  OBVIOUS
<1>2. ASSUME NEW i \in 1..Len(Append(q, e)) PROVE i \in 1..Len(q) \/ i = Len(q) + 1
  BY <1>1
<1> QED BY <1>1, <1>2 DEF Held

(* ... and when a peer is given another one.                               *)
LEMMA HeldGiven ==
  ASSUME NEW q \in Seq(Packet), NEW g, NEW h, Held(q, g),
         \A p \in Peer : g[p] \subseteq h[p]
  PROVE  Held(q, h)
<1>1. \A e \in Packet : e.peer \in Peer
  BY DEF Packet, Handshake, Shutdown
<1>2. \A i \in 1..Len(q) : q[i] \in Packet
  OBVIOUS
<1> QED BY <1>1, <1>2 DEF Held

(* Every step keeps the cookies in the queues among those given.           *)
LEMMA CookieHeldStep ==
  LInv /\ Cookies /\ CInv /\ [Next]_vars => CInv'
<1> SUFFICES ASSUME LInv, Cookies, CInv, [Next]_vars PROVE CInv'
  OBVIOUS
<1> USE DEF queues, peers
<1>1. rcvQueue \in Seq(Packet) /\ backlog \in Seq(Packet)
  BY DEF LInv, TypeOK, Packet
<1>2. ASSUME UNCHANGED <<queues, given>> PROVE CInv'
  BY <1>2 DEF CInv
<1>3. CASE Send
  <2>1. PICK pkt : /\ Arrive(pkt)
                   /\ pkt.type = "conclusion" => pkt.cookie \in given[pkt.peer]
    <3>1. CASE \E p \in Peer : Arrive([type |-> "induction", peer |-> p])
      <4>1. PICK p \in Peer : Arrive([type |-> "induction", peer |-> p])
        BY <3>1
      <4> WITNESS [type |-> "induction", peer |-> p]
      <4> QED BY <4>1
    <3>2. CASE \E p \in Peer, f \in Faults, c \in Crypt : \E cookie \in given[p] :
                 Arrive([type |-> "conclusion", peer |-> p, cookie |-> cookie,
                         fault |-> f, crypt |-> c])
      <4>1. PICK p \in Peer, f \in Faults, c \in Crypt : \E cookie \in given[p] :
                 Arrive([type |-> "conclusion", peer |-> p, cookie |-> cookie,
                         fault |-> f, crypt |-> c])
        BY <3>2, Zenon
      <4>2. PICK cookie \in given[p] :
                 Arrive([type |-> "conclusion", peer |-> p, cookie |-> cookie,
                         fault |-> f, crypt |-> c])
        BY <4>1
      <4> WITNESS [type |-> "conclusion", peer |-> p, cookie |-> cookie,
                   fault |-> f, crypt |-> c]
      <4> QED BY <4>2, Zenon
    <3>3. CASE \E p \in Peer, s \in SocketId :
                 Arrive([type |-> "shutdown", peer |-> p, to |-> s])
      <4>1. PICK p \in Peer, s \in SocketId :
                 Arrive([type |-> "shutdown", peer |-> p, to |-> s])
        BY <3>3
      <4> WITNESS [type |-> "shutdown", peer |-> p, to |-> s]
      <4> QED BY <4>1
    <3> QED BY <1>3, <3>1, <3>2, <3>3, Zenon DEF Send
  <2>2. Held(rcvQueue', given)
    BY <1>1, <2>1, HeldAppend, Zenon DEF Arrive, CInv
  <2> QED BY <2>1, <2>2 DEF Arrive, CInv
<1>4. CASE Read
  <2>1. /\ Held(Tail(rcvQueue), given)
        /\ Head(rcvQueue).type = "conclusion" =>
             Head(rcvQueue).cookie \in given[Head(rcvQueue).peer]
    BY <1>1, <1>4, HeldTail DEF Read, CInv
  <2>2. backlog' \in {backlog, Append(backlog, Head(rcvQueue))}
    BY <1>4 DEF Read
  <2>3. Held(backlog', given)
    BY <1>1, <2>1, <2>2, HeldAppend, Zenon DEF CInv
  <2> QED BY <1>4, <2>1, <2>3, Zenon DEF Read, CInv
<1>5. ASSUME backlog # <<>>, backlog' = Tail(backlog), UNCHANGED <<rcvQueue, given>>
      PROVE  CInv'
  BY <1>1, <1>5, HeldTail DEF CInv
<1>6. CASE Induction
  <2>1. backlog # <<>> /\ backlog' = Tail(backlog) /\ rcvQueue' = rcvQueue
    BY <1>6 DEF Induction, Takes
  <2>2. \A p \in Peer : given[p] \subseteq given'[p]
    BY <1>6 DEF Induction, Cookies
  <2>3. Tail(backlog) \in Seq(Packet) /\ Held(Tail(backlog), given)
    BY <1>1, <2>1, HeldTail DEF CInv
  <2>4. Held(rcvQueue, given') /\ Held(Tail(backlog), given')
    BY <1>1, <2>2, <2>3, HeldGiven, Zenon DEF CInv
  <2> QED BY <2>1, <2>4 DEF CInv
<1>7. CASE Refused \/ Duplicate \/ NoSocketId \/ NewRequest
  BY <1>5, <1>7, Zenon DEF Refused, Duplicate, NoSocketId, NewRequest, Passes, Takes
<1>8. CASE SocketEnds \/ ReaderLeaves \/ Call \/ Done \/ Close \/ Closer \/ TimePasses
           \/ UNCHANGED vars
  BY <1>2, <1>8 DEF SocketEnds, ReaderLeaves, Call, Done, Close, Closer, CloseConns,
                    CloseSocket, TimePasses, vars
<1>9. ASSUME NEW r \in Req,
             SetPassphrase(r) \/ Handler(r) \/ CloseConn(r) \/ HandleShutdown(r)
      PROVE  CInv'
  BY <1>2, <1>9, Zenon
     DEF SetPassphrase, Handler, Reject, AcceptLocked, Accept, CloseConn, HandleShutdown
<1> QED BY <1>3, <1>4, <1>6, <1>7, <1>8, <1>9 DEF Next, Serve

(* The last element of a queue is the one just appended.                   *)
LEMMA AppendLast ==
  ASSUME NEW S, NEW q \in Seq(S), NEW e
  PROVE  Append(q, e)[Len(Append(q, e))] = e
<1>1. Len(Append(q, e)) = Len(q) + 1 /\ Len(q) \in Nat
  OBVIOUS
<1>2. Append(q, e)[Len(q) + 1] = e
  OBVIOUS
<1> QED BY <1>1, <1>2

(* Only newConnRequest makes requests, and it has verified the cookie.     *)
LEMMA RecentStep ==
  LInv /\ Cookies /\ CInv /\ [Next]_vars =>
    (Len(request') > Len(request) =>
       \E c \in given[request'[Len(request')].peer] : counter - c <= 1)
<1> SUFFICES ASSUME LInv, Cookies, CInv, [Next]_vars, Len(request') > Len(request)
             PROVE  \E c \in given[request'[Len(request')].peer] : counter - c <= 1
  OBVIOUS
<1> USE DEF reqs
<1>1. request \in Seq(Request) /\ backlog \in Seq(Packet)
  BY DEF LInv, TypeOK, Packet
<1>2. request' # request
  BY <1>1
<1>3. CASE NewRequest
  <2>1. /\ backlog # <<>> /\ Head(backlog).type = "conclusion"
        /\ Verify(Head(backlog).cookie)
    BY <1>3, Zenon DEF NewRequest, Passes, Takes
  <2>2. Head(backlog).cookie \in given[Head(backlog).peer] /\ Head(backlog).peer \in Peer
    BY <1>1, <2>1, HeldTail, HeadTyped, Zenon DEF CInv, LInv
  <2>3. counter - Head(backlog).cookie <= 1
    BY <2>1 DEF Verify, Cookies, Cookie
  <2>4. PICK s : request' = Append(request, [peer |-> Head(backlog).peer, sid |-> s,
                                             fault |-> Head(backlog).fault,
                                             crypt |-> Head(backlog).crypt])
    BY <1>3, Zenon DEF NewRequest
  <2> DEFINE rec == [peer |-> Head(backlog).peer, sid |-> s,
                     fault |-> Head(backlog).fault, crypt |-> Head(backlog).crypt]
  <2>5. request'[Len(request')] = rec
    <3> HIDE DEF rec
    <3>1. request' = Append(request, rec)
      BY <2>4 DEF rec
    <3> QED BY <1>1, <3>1, AppendLast
  <2>6. rec.peer = Head(backlog).peer
    OBVIOUS
  <2> QED BY <2>2, <2>3, <2>5, <2>6, Zenon
<1>4. CASE Send \/ Read \/ SocketEnds \/ ReaderLeaves \/ Call \/ Done \/ Close \/ Closer
           \/ TimePasses \/ UNCHANGED vars
  BY <1>2, <1>4, Zenon DEF Send, Arrive, Read, SocketEnds, ReaderLeaves, Call, Done, Close,
                    Closer, CloseConns, CloseSocket, TimePasses, vars
<1>5. CASE Induction \/ Refused \/ Duplicate \/ NoSocketId
  BY <1>2, <1>5, Zenon DEF Induction, Refused, Duplicate, NoSocketId
<1>6. ASSUME NEW r \in Req,
             SetPassphrase(r) \/ Handler(r) \/ CloseConn(r) \/ HandleShutdown(r)
      PROVE  FALSE
  BY <1>2, <1>6
     DEF SetPassphrase, Handler, Reject, AcceptLocked, Accept, CloseConn, HandleShutdown
<1> QED BY <1>3, <1>4, <1>5, <1>6, Zenon DEF Next, Serve

(* A request is made only for a peer that holds a cookie of the current or *)
(* the previous period, however late its handshake is read (Verify of      *)
(* net/syncookie.go, called by newConnRequest).                            *)
THEOREM CookieIsAlwaysRecent ==
  Spec => CookieIsRecent
<1>1. Init => CInv
  <2>1. \A g : Held(<<>>, g)
    BY DEF Held
  <2> QED BY <2>1 DEF Init, CInv
<1>2. Init => Cookies
  BY ListenerAssumption DEF Init, Cookies, Cookie
<1>3. LInv /\ Cookies /\ CInv /\ [Next]_vars =>
        [Len(request') > Len(request) =>
           \E c \in given[request'[Len(request')].peer] : counter - c <= 1]_vars
  BY RecentStep
<1> QED
  BY <1>1, <1>2, <1>3, CookieStep, CookieHeldStep, Invariance, PTL DEF Spec, CookieIsRecent

-----------------------------------------------------------------------------

\* The shutdown messages in a queue are among the goodbyes l.
Said(q, l) ==
  \A i \in 1..Len(q) : q[i].type = "shutdown" => <<q[i].peer, q[i].to>> \in l

SInv == Said(rcvQueue, left) /\ ShutdownIsOwn /\ asked \subseteq 1..Len(request)

(* A queue of said goodbyes stays one when its head is taken, ...          *)
LEMMA SaidTail ==
  ASSUME NEW q \in Seq(Packet), NEW l, Said(q, l), q # <<>>
  PROVE  /\ Said(Tail(q), l)
         /\ Head(q).type = "shutdown" => <<Head(q).peer, Head(q).to>> \in l
<1>1. /\ Len(Tail(q)) = Len(q) - 1 /\ Len(q) \in Nat
      /\ \A i \in 1..Len(Tail(q)) : Tail(q)[i] = q[i + 1] /\ i + 1 \in 1..Len(q)
      /\ Head(q) = q[1] /\ 1 \in 1..Len(q)
  OBVIOUS
<1> QED BY <1>1, Zenon DEF Said

(* ... and when another is said and appended.                              *)
LEMMA SaidAppend ==
  ASSUME NEW q \in Seq(Packet), NEW l, NEW k, Said(q, l), l \subseteq k, NEW e,
         e.type = "shutdown" => <<e.peer, e.to>> \in k
  PROVE  Said(Append(q, e), k) /\ Said(q, k)
<1>1. /\ Len(Append(q, e)) = Len(q) + 1 /\ Len(q) \in Nat
      /\ \A i \in 1..Len(q) : Append(q, e)[i] = q[i]
      /\ Append(q, e)[Len(q) + 1] = e
  OBVIOUS
<1>2. ASSUME NEW i \in 1..Len(Append(q, e)) PROVE i \in 1..Len(q) \/ i = Len(q) + 1
  BY <1>1
<1> QED BY <1>1, <1>2, Zenon DEF Said

(* Every step hands a shutdown message to nobody but the sender's own      *)
(* connection: the reader finds a connection by socket id, and the entry   *)
(* it finds has that socket id by TablesAgree.                             *)
LEMMA OwnStep ==
  LInv /\ SInv /\ [Next]_vars => SInv'
<1> SUFFICES ASSUME LInv, SInv, [Next]_vars PROVE SInv'
  OBVIOUS
<1> USE DEF queues, peers, reqs
<1>1. rcvQueue \in Seq(Packet) /\ request \in Seq(Request) /\ Len(request) \in Nat
  BY DEF LInv, TypeOK, Packet
<1>2. ASSUME UNCHANGED <<rcvQueue, left, asked, request>> PROVE SInv'
  BY <1>2, Zenon DEF SInv, ShutdownIsOwn
<1>3. CASE Send
  <2>1. PICK pkt : /\ Arrive(pkt) /\ left \subseteq left'
                   /\ pkt.type = "shutdown" => <<pkt.peer, pkt.to>> \in left'
    <3>1. CASE \E p \in Peer : /\ Arrive([type |-> "induction", peer |-> p])
                               /\ UNCHANGED left
      BY <3>1
    <3>2. CASE \E p \in Peer, f \in Faults, c \in Crypt : \E cookie \in given[p] :
                 /\ Arrive([type |-> "conclusion", peer |-> p, cookie |-> cookie,
                            fault |-> f, crypt |-> c])
                 /\ UNCHANGED left
      <4>1. PICK p \in Peer, f \in Faults, c \in Crypt : \E cookie \in given[p] :
                 /\ Arrive([type |-> "conclusion", peer |-> p, cookie |-> cookie,
                            fault |-> f, crypt |-> c])
                 /\ UNCHANGED left
        BY <3>2
      <4>2. PICK cookie \in given[p] :
                 /\ Arrive([type |-> "conclusion", peer |-> p, cookie |-> cookie,
                            fault |-> f, crypt |-> c])
                 /\ UNCHANGED left
        BY <4>1, Zenon
      <4> WITNESS [type |-> "conclusion", peer |-> p, cookie |-> cookie,
                   fault |-> f, crypt |-> c]
      <4> QED BY <4>2, Zenon
    <3>3. CASE \E p \in Peer, s \in SocketId :
                 /\ Arrive([type |-> "shutdown", peer |-> p, to |-> s])
                 /\ left' = left \cup {<<p, s>>}
      BY <3>3
    <3> QED BY <1>3, <3>1, <3>2, <3>3, Zenon DEF Send
  <2>2. Said(rcvQueue', left')
    BY <1>1, <2>1, SaidAppend, Zenon DEF Arrive, SInv
  <2> QED BY <2>1, <2>2 DEF Arrive, SInv, ShutdownIsOwn
<1>4. CASE Read
  <2>1. /\ Said(Tail(rcvQueue), left)
        /\ Head(rcvQueue).type = "shutdown" =>
             <<Head(rcvQueue).peer, Head(rcvQueue).to>> \in left
    BY <1>1, <1>4, SaidTail, Zenon DEF Read, SInv
  <2>2. UNCHANGED <<left, request>> /\ rcvQueue' = Tail(rcvQueue)
    BY <1>4 DEF Read
  <2>3. CASE asked' = asked
    BY <2>1, <2>2, <2>3 DEF SInv, ShutdownIsOwn
  <2>4. CASE /\ Head(rcvQueue).type = "shutdown" /\ Routes(Head(rcvQueue))
             /\ asked' = asked \cup {conns[Head(rcvQueue).to]}
    <3> DEFINE pkt == Head(rcvQueue)
               r == conns[pkt.to]
    <3>1. pkt.to \in SocketId
      <4>1. pkt \in Packet
        <5>1. rcvQueue # <<>>
          BY <1>4 DEF Read
        <5> QED BY <1>1, <5>1
      <4>2. ASSUME NEW e \in Packet, e.type = "shutdown" PROVE e.to \in SocketId
        BY <4>2 DEF Packet, Handshake, Shutdown
      <4> QED BY <2>4, <4>1, <4>2
    <3>2. r \in Req /\ request[r].peer = pkt.peer
      BY <2>4, Zenon DEF Routes
    <3>3. conn[r] \in {"open", "closing"} /\ request[r].sid = pkt.to
      BY <3>1, <3>2, Zenon DEF LInv, TablesAgree
    <3>4. r \in 1..Len(request)
      BY <3>2, <3>3, RequestTyped DEF LInv, Phases
    <3> QED BY <2>1, <2>2, <2>4, <3>2, <3>3, <3>4, Zenon DEF SInv, ShutdownIsOwn
  <2> QED BY <1>4, <2>3, <2>4, Zenon DEF Read
<1>5. CASE NewRequest
  <2>1. UNCHANGED <<rcvQueue, left, asked>>
    BY <1>5 DEF NewRequest
  <2>2. PICK e : request' = Append(request, e)
    BY <1>5 DEF NewRequest
  <2>3. /\ \A r \in 1..Len(request) : request'[r] = request[r]
        /\ 1..Len(request) \subseteq 1..Len(request')
    BY <1>1, <2>2
  <2> QED BY <2>1, <2>3, Zenon DEF SInv, ShutdownIsOwn
<1>6. CASE SocketEnds \/ ReaderLeaves \/ Call \/ Done \/ Close \/ Closer \/ TimePasses
           \/ UNCHANGED vars
  BY <1>2, <1>6, Zenon DEF SocketEnds, ReaderLeaves, Call, Done, Close, Closer, CloseConns,
                    CloseSocket, TimePasses, vars
<1>7. CASE Induction \/ Refused \/ Duplicate \/ NoSocketId
  BY <1>2, <1>7, Zenon DEF Induction, Refused, Duplicate, NoSocketId
<1>8. ASSUME NEW r \in Req,
             SetPassphrase(r) \/ Handler(r) \/ CloseConn(r) \/ HandleShutdown(r)
      PROVE  SInv'
  BY <1>2, <1>8, Zenon
     DEF SetPassphrase, Handler, Reject, AcceptLocked, Accept, CloseConn, HandleShutdown
<1> QED BY <1>3, <1>4, <1>5, <1>6, <1>7, <1>8 DEF Next, Serve

(* A shutdown message reaches only connections of the peer that sent it,   *)
(* also when its socket id has a new owner by then (listener.reader).      *)
THEOREM ShutdownIsAlwaysOwn ==
  Spec => []ShutdownIsOwn
<1>1. Init => SInv
  <2>1. \A l : Said(<<>>, l)
    BY DEF Said
  <2> QED BY <2>1, Zenon DEF Init, SInv, ShutdownIsOwn
<1>2. SInv => ShutdownIsOwn
  BY DEF SInv
<1> QED BY <1>1, <1>2, OwnStep, Invariance, PTL DEF Spec

=============================================================================
