------------------------------ MODULE Handshake ------------------------------
(***************************************************************************)
(* What the two ends of a connection settle in the handshake: version,     *)
(* delays, packet size, key, stream id and initial sequence number.  The   *)
(* dialer is handleHandshake of dial.go, the listener is newConnRequest    *)
(* and Accept of conn_request.go, and in version 4 the connections go on   *)
(* with the extension and key messages of connection.go.                   *)
(*                                                                         *)
(* Modules Dialer and Listener have the goroutines, queues and tables of   *)
(* the two ends, handshakes that reach a dialer which has its connection   *)
(* or has failed, and the shutdown message that turns a conclusion down;   *)
(* here there is one dialer, which has not been closed, and one listener.  *)
(* No valid configuration offers an MSS that leaves too small a payload.   *)
(*                                                                         *)
(* Then each end may send its first data packet, encrypted if it has a     *)
(* key, and acknowledge the one it gets.                                   *)
(*                                                                         *)
(* Every packet travels as the bytes of module Wire.  The network loses    *)
(* packets, repeats and reorders them: a packet is never taken away from   *)
(* it and may be received at any time or not at all.                       *)
(*                                                                         *)
(* The listener of this code always offers version 5.  A listener that     *)
(* offers version 4 stands for one of an older library; what it does with  *)
(* the conclusion is what this code does with a conclusion of version 4.   *)
(*                                                                         *)
(* A key, a salt or a passphrase is a byte, repeated to its length.        *)
(***************************************************************************)
EXTENDS Wire, Config

CONSTANTS
  DialerConfigs,        \* the configurations given to Dial
  ListenerConfigs,      \* the configurations given to Listen
  Offers,               \* the versions the listener may offer
  MaxInductions         \* bound on the inductions the dialer answers

ASSUME HandshakeAssumption ==
  /\ \A c \in DialerConfigs \union ListenerConfigs : DOMAIN c = DOMAIN defaultConfig
  /\ Offers \subseteq {4, 5}
  /\ MaxInductions \in Nat

VARIABLES
  given,                \* the configuration the dialer's URL was made from
  config,               \* of each end, validated
  offer,                \* the version of the induction response
  net,                  \* every packet ever sent
  dl,                   \* the dialer: phase, crypto and inductions answered
  req,                  \* the connection request of the listener, or None
  conn                  \* of each end: its connection, or None

vars == <<given, config, offer, net, dl, req, conn>>

sequence == INSTANCE Circular WITH MAX <- 2147483647

Ends == {"dl", "ln"}
EvenKeyEncrypted == 1
OddKeyEncrypted  == 2
Opposite(key) == 3 - key

-----------------------------------------------------------------------------
(* Keys (crypto/crypto.go).  The n-th context holds its own salt and keys. *)

NewCrypto(keyLength, n) ==
  [keyLength |-> keyLength, salt |-> 10 * n, evenSEK |-> 10 * n + 1,
   oddSEK |-> 10 * n + 2]

Secret(passphrase) == IF passphrase = <<>> THEN 0 ELSE passphrase[1]

\* The wrapped key: 8 bytes by which unwrapping recognises the right KEK.
WrapKey(passphrase, sek, length) ==
  [i \in 1..(length + 8) |-> IF i <= 8 THEN Secret(passphrase) ELSE sek]

KeyMaterial(crypto, passphrase, key) ==
  [Error |-> 0, KeyBasedEncryption |-> key, SLen |-> 16, KLen |-> crypto.keyLength,
   Salt |-> [i \in 1..16 |-> crypto.salt],
   Wrap |-> WrapKey(passphrase,
                    IF key = EvenKeyEncrypted THEN crypto.evenSEK ELSE crypto.oddSEK,
                    crypto.keyLength)]

Unwraps(crypto, km, passphrase) ==
  /\ Len(km.Wrap) - 8 = crypto.keyLength
  /\ km.Wrap[1] = Secret(passphrase)

\* Mutant: the salt of the peer is not taken over.
UnwrapOwnSalt(crypto, km) ==
  IF km.KeyBasedEncryption = EvenKeyEncrypted
  THEN [crypto EXCEPT !.evenSEK = km.Wrap[9]]
  ELSE [crypto EXCEPT !.oddSEK = km.Wrap[9]]

Unwrap(crypto, km) ==
  IF km.KeyBasedEncryption = EvenKeyEncrypted
  THEN [crypto EXCEPT !.salt = km.Salt[1], !.evenSEK = km.Wrap[9]]
  ELSE [crypto EXCEPT !.salt = km.Salt[1], !.oddSEK = km.Wrap[9]]

(* A payload is the sequence of key streams that it is mixed with: none if *)
(* it can be read.  Mixing it with the same one twice leaves it as it was. *)
EncryptOrDecryptPayload(payload, crypto, key, seq) ==
  LET stream == [salt |-> crypto.salt, number |-> seq,
                 sek |-> IF key = EvenKeyEncrypted THEN crypto.evenSEK
                                                   ELSE crypto.oddSEK]
  IN  IF Contains(payload, stream) THEN Remove(payload, stream)
                                   ELSE Append(payload, stream)

-----------------------------------------------------------------------------
(* The delays, in milliseconds as they are sent, and the connection that   *)
(* newSRTConn makes.  Its sender gives a packet up after dropThreshold     *)
(* microseconds.                                                           *)

Larger(a, b) == IF a < b THEN b ELSE a

Delay(duration) == Milliseconds(duration) % 65536       \* uint16

DropThreshold(delay, c) ==
  Larger((5 * delay) \div 4 + c.SendDropDelay, 1000000) + 20000

newSRTConn(version, c, peer, recv, send, isn, crypto) ==
  [version |-> version, config |-> c, peerSocketId |-> peer,
   tsbpdDelay |-> 1000 * recv, peerTsbpdDelay |-> 1000 * send,
   dropThreshold |-> DropThreshold(1000 * send, c),
   initialPacketSequenceNumber |-> isn,
   crypto |-> crypto, keyBaseEncryption |-> EvenKeyEncrypted,
   state |-> "open",
   sent |-> {},                 \* what it has sent of its own accord
   unacknowledged |-> {},       \* in the loss list of its sender
   received |-> {},             \* in the packet list of its receiver
   ackNumbers |-> {}]

\* "If the peer has a smaller MTU size, adjust to it".
Fit(c, mtu) ==
  IF mtu < c.MSS THEN [c EXCEPT !.MSS = mtu, !.PayloadSize = mtu - HEADER_SIZE]
  ELSE c

Required == {"TSBPDSND", "TSBPDRCV", "TLPKTDROP", "PERIODICNAK", "REXMITFLG"}
AllFlags == Required \union {"CRYPT"}

-----------------------------------------------------------------------------
(* Messages.                                                               *)

DialerIP   == <<254, 128, 0, 0, 0, 0, 0, 0, 0, 0, 0, 0, 0, 0, 0, 9>>
ListenerIP == <<127, 0, 0, 1>>          \* setDefault: it listens on [::]
DialerSocketId   == 1001
ListenerSocketId == -2002
SynCookie == -7
InitialSequenceNumber == 2147483647
Timestamp == 20000
Magic == 18967                          \* 0x4A17

REJ_PEER == 1002
REJ_ROGUE == 1004
REJ_VERSION == 1008
REJ_BADSECRET == 1010
REJ_MESSAGEAPI == 1012
REJ_CONGESTION == 1013

Control(destination, type, subType, cif) ==
  [header |-> [IsControlPacket |-> TRUE, ControlType |-> type, SubType |-> subType,
               TypeSpecific |-> 0, Timestamp |-> Timestamp,
               DestinationSocketId |-> destination],
   cif |-> cif]

Handshake(destination, cif) == Control(destination, CTRLTYPE_HANDSHAKE, 0, cif)
User(destination, type, cif) == Control(destination, CTRLTYPE_USER, type, cif)

Send(m) == net' = net \union {m}

\* The packet that arrives; what a data packet has for a cif is its data.
Packet(m) ==
  Unmarshal(Marshal(m.header,
    IF ~m.header.IsControlPacket THEN m.cif.data
    ELSE IF m.header.ControlType = CTRLTYPE_HANDSHAKE THEN MarshalCIF(m.cif)
    ELSE IF m.header.ControlType = CTRLTYPE_ACK THEN MarshalACK(m.cif)
    ELSE IF m.header.ControlType = CTRLTYPE_ACKACK THEN <<>>
    ELSE IF m.header.SubType \in {EXTTYPE_HSREQ, EXTTYPE_HSRSP} THEN MarshalHS(m.cif)
    ELSE MarshalKM(m.cif)))

Is(p, destination, type) ==
  /\ p.header.DestinationSocketId = destination
  /\ p.header.IsControlPacket /\ p.header.ControlType = type

sendInduction ==
  [IsRequest |-> TRUE, Version |-> 4, EncryptionField |-> 0, ExtensionField |-> 2,
   InitialPacketSequenceNumber |-> 0,
   MaxTransmissionUnitSize |-> config.dl.MSS, MaxFlowWindowSize |-> config.dl.FC,
   HandshakeType |-> HSTYPE_INDUCTION, SRTSocketId |-> DialerSocketId,
   SynCookie |-> 0, PeerIP |-> DialerIP,
   SRTHS |-> None, SRTKM |-> None, StreamId |-> <<>>, CongestionCtl |-> <<>>]

Init ==
  /\ given \in {Validated(c) : c \in {d \in DialerConfigs : IsValid(d)}}
  /\ config \in [dl : {Validated(UnmarshalQuery(defaultConfig, MarshalQuery(given)))},
                 ln : {Validated(c) : c \in {d \in ListenerConfigs : IsValid(d)}}]
  /\ offer \in Offers
  /\ net = {Handshake(0, sendInduction)}
  /\ dl = [phase |-> "waiting", crypto |-> None, inductions |-> 0]
  /\ req = None
  /\ conn = [e \in Ends |-> None]

-----------------------------------------------------------------------------
(* The dialer, handleHandshake.                                            *)

KeyLength(c) ==
  IF c.EncryptionField \in {2, 3, 4} THEN 8 * c.EncryptionField
  ELSE config.dl.PBKeylen

Conclusion(c, crypto) ==
  [c EXCEPT !.IsRequest = TRUE,
            !.HandshakeType = HSTYPE_CONCLUSION,
            !.InitialPacketSequenceNumber = InitialSequenceNumber,
            !.MaxTransmissionUnitSize = config.dl.MSS,
            !.MaxFlowWindowSize = config.dl.FC,
            !.SRTSocketId = DialerSocketId,
            !.PeerIP = DialerIP,
            !.SRTHS = IF c.Version = 4 THEN None
                      ELSE [SRTVersion |-> SRT_VERSION, SRTFlags |-> AllFlags,
                            RecvTSBPDDelay |-> Delay(config.dl.ReceiverLatency),
                            SendTSBPDDelay |-> Delay(config.dl.PeerLatency)],
            !.StreamId = IF c.Version = 4 THEN <<>> ELSE config.dl.StreamId,
            !.SRTKM = IF c.Version = 4 \/ crypto = None THEN None
                      ELSE KeyMaterial(crypto, config.dl.Passphrase,
                                       EvenKeyEncrypted)]

HandleInduction(p) ==
  /\ Is(p, DialerSocketId, CTRLTYPE_HANDSHAKE) /\ dl.phase = "waiting"
  /\ LET c == UnmarshalCIF(p.payload)
         crypto == IF config.dl.Passphrase = <<>> THEN dl.crypto
                   ELSE NewCrypto(KeyLength(c), dl.inductions + 1)
     IN  /\ c.HandshakeType = HSTYPE_INDUCTION
         /\ dl.inductions < MaxInductions
         /\ IF \/ c.Version \notin {4, 5}
               \/ c.Version = 5 /\ c.ExtensionField # Magic
            THEN dl' = [dl EXCEPT !.phase = "failed"] /\ UNCHANGED net
            ELSE /\ dl' = [dl EXCEPT !.crypto = crypto, !.inductions = @ + 1]
                 /\ Send(Handshake(0, Conclusion(c, crypto)))
  /\ UNCHANGED <<given, config, offer, req, conn>>

\* dial.go and conn_request.go ask the same of a peer's version and flags.
Unfit(hs) ==
  \/ hs.SRTVersion < SRT_VERSION
  \/ ~(Required \subseteq hs.SRTFlags)
  \/ "STREAM" \in hs.SRTFlags


DialerDelays(c) ==
  LET recv == Delay(config.dl.ReceiverLatency)
      send == Delay(config.dl.PeerLatency)
  IN  IF c.Version = 4 THEN [recv |-> recv, send |-> send]
      ELSE [recv |-> Larger(recv, c.SRTHS.SendTSBPDDelay),
            send |-> Larger(send, c.SRTHS.RecvTSBPDDelay)]

HandleConclusion(p) ==
  /\ Is(p, DialerSocketId, CTRLTYPE_HANDSHAKE) /\ dl.phase = "waiting"
  /\ LET c == UnmarshalCIF(p.payload)
         d == Fit(config.dl, c.MaxTransmissionUnitSize)
     IN  /\ c.HandshakeType = HSTYPE_CONCLUSION
         /\ IF \/ c.Version \notin {4, 5}
               \/ c.Version = 5 /\ (c.SRTHS = None \/ Unfit(c.SRTHS))
               \/ d.PayloadSize < MIN_PAYLOAD_SIZE
            THEN dl' = [dl EXCEPT !.phase = "failed"] /\ UNCHANGED <<conn, config>>
            ELSE /\ dl' = [dl EXCEPT !.phase = "connected"]
                 /\ config' = [config EXCEPT !.dl = d]
                 /\ conn' = [conn EXCEPT !.dl =
                      newSRTConn(c.Version, d, c.SRTSocketId, DialerDelays(c).recv,
                                 DialerDelays(c).send,
                                 c.InitialPacketSequenceNumber, dl.crypto)]
  /\ UNCHANGED <<given, offer, net, req>>

HandleRejection(p) ==
  /\ Is(p, DialerSocketId, CTRLTYPE_HANDSHAKE) /\ dl.phase = "waiting"
  /\ UnmarshalCIF(p.payload).HandshakeType \notin {HSTYPE_INDUCTION, HSTYPE_CONCLUSION}
  /\ dl' = [dl EXCEPT !.phase = "failed"]
  /\ UNCHANGED <<given, config, offer, net, req, conn>>

-----------------------------------------------------------------------------
(* The listener: newConnRequest, and what a server makes of the request.   *)

AnswerInduction(p) ==
  /\ Is(p, 0, CTRLTYPE_HANDSHAKE)
  /\ LET c == UnmarshalCIF(p.payload)
     IN  /\ c.HandshakeType = HSTYPE_INDUCTION
         /\ Send(Handshake(c.SRTSocketId, [c EXCEPT !.Version = offer, !.EncryptionField = 0,
                                           !.ExtensionField = Magic,
                                           !.SynCookie = SynCookie,
                                           !.PeerIP = ListenerIP]))
  /\ UNCHANGED <<given, config, offer, dl, req, conn>>

\* The reason to turn a conclusion down at once, or 0.
Refusal(c) ==
  IF c.SynCookie # SynCookie \/ c.MaxTransmissionUnitSize > MAX_MSS_SIZE
       \/ c.Version \notin {4, 5}
  THEN REJ_ROGUE
  ELSE IF c.Version = 4
  THEN IF c.EncryptionField # 0 \/ c.ExtensionField # 2 THEN REJ_ROGUE ELSE 0
  ELSE IF c.SRTHS = None THEN REJ_ROGUE
  ELSE IF c.SRTHS.SRTVersion < SRT_VERSION THEN REJ_VERSION
  ELSE IF ~(Required \subseteq c.SRTHS.SRTFlags) THEN REJ_ROGUE
  ELSE IF "STREAM" \in c.SRTHS.SRTFlags THEN REJ_MESSAGEAPI
  ELSE IF c.CongestionCtl \notin {<<>>, Live} THEN REJ_CONGESTION
  ELSE 0

Reply(c, type) ==
  Send(Handshake(DialerSocketId,
                 [c EXCEPT !.HandshakeType = type, !.PeerIP = ListenerIP]))

\* While there is a request or a connection, a conclusion is a repetition.
NewConnRequest(p) ==
  /\ Is(p, 0, CTRLTYPE_HANDSHAKE)
  /\ LET c == UnmarshalCIF(p.payload)
     IN  /\ c.HandshakeType = HSTYPE_CONCLUSION
         /\ IF Refusal(c) # 0 THEN Reply(c, Refusal(c)) /\ UNCHANGED req
            ELSE /\ req = None
                 /\ req' = [handshake |-> c,
                            config |-> Fit(config.ln, c.MaxTransmissionUnitSize),
                            crypto |-> IF c.SRTKM = None THEN None
                                       ELSE NewCrypto(c.SRTKM.KLen, 20),
                            accepted |-> FALSE]
                 /\ UNCHANGED net
  /\ UNCHANGED <<given, config, offer, dl, conn>>

Pending == req # None /\ ~req.accepted

Reject(reason) ==
  /\ Reply(req.handshake, reason)
  /\ req' = None
  /\ UNCHANGED conn

ListenerDelays ==
  LET recv == Delay(req.config.ReceiverLatency)
      send == Delay(req.config.PeerLatency)
      hs   == req.handshake.SRTHS
  IN  IF req.handshake.Version = 4 THEN [recv |-> recv, send |-> send]
      ELSE [recv |-> Larger(recv, hs.SendTSBPDDelay),
            send |-> Larger(send, hs.RecvTSBPDDelay)]

Accept(crypto) ==
  LET c == req.handshake
      d == ListenerDelays
  IN  /\ conn' = [conn EXCEPT !.ln =
           newSRTConn(c.Version,
                      [req.config EXCEPT
                         !.StreamId = IF c.Version = 5 THEN c.StreamId ELSE @,
                         !.Passphrase = IF c.Version = 5 /\ crypto = None
                                        THEN <<>> ELSE config.ln.Passphrase],
                      c.SRTSocketId, d.recv, d.send, c.InitialPacketSequenceNumber, crypto)]
      /\ req' = [req EXCEPT !.accepted = TRUE]
      /\ Reply([c EXCEPT !.SRTSocketId = ListenerSocketId, !.SynCookie = 0,
                         !.SRTHS = IF c.Version = 4 THEN None
                                   ELSE [SRTVersion |-> SRT_VERSION,
                                         SRTFlags |-> AllFlags,
                                         RecvTSBPDDelay |-> d.recv,
                                         SendTSBPDDelay |-> d.send]],
               HSTYPE_CONCLUSION)

(* The application sets its passphrase, if it has to, and accepts; a key   *)
(* that it cannot unwrap is its reason to reject the request (as in        *)
(* contrib/server) or is found missing by Accept (contrib/client).  Or it  *)
(* rejects the request for reasons of its own.                             *)
Decide ==
  /\ Pending
  /\ IF req.crypto = None THEN Accept(None)
     ELSE IF ~Unwraps(req.crypto, req.handshake.SRTKM, config.ln.Passphrase)
     THEN Reject(REJ_PEER) \/ Reject(REJ_BADSECRET)
     ELSE Accept(Unwrap(req.crypto, req.handshake.SRTKM))
  /\ UNCHANGED <<given, config, offer, dl>>

Forbid ==
  /\ Pending
  /\ Reject(REJ_PEER)
  /\ UNCHANGED <<given, config, offer, dl>>

-----------------------------------------------------------------------------
(* Version 4: half a second after the handshake the dialer's connection    *)
(* sends one extension request and, with a passphrase, one key request;    *)
(* close does not keep it from it.                                         *)

SocketId == [dl |-> DialerSocketId, ln |-> ListenerSocketId]

Open(e) == conn[e] # None /\ conn[e].state = "open"

IsUser(p, e, type) ==
  Open(e) /\ Is(p, SocketId[e], CTRLTYPE_USER) /\ p.header.SubType = type

SendHSRequest ==
  /\ conn.dl # None /\ conn.dl.version = 4 /\ "HS" \notin conn.dl.sent
  /\ conn' = [conn EXCEPT !.dl.sent = @ \union {"HS"}]
  /\ Send(User(conn.dl.peerSocketId, EXTTYPE_HSREQ,
       [SRTVersion |-> 66051,           \* 0x010203
        SRTFlags |-> {"TSBPDSND", "CRYPT", "TLPKTDROP", "REXMITFLG"},
        RecvTSBPDDelay |-> 0,
        SendTSBPDDelay |-> Delay(conn.dl.config.ReceiverLatency)]))
  /\ UNCHANGED <<given, config, offer, dl, req>>

SendKMRequest ==
  /\ conn.dl # None /\ conn.dl.version = 4 /\ conn.dl.crypto # None
  /\ "KM" \notin conn.dl.sent
  /\ conn' = [conn EXCEPT !.dl.sent = @ \union {"KM"}]
  /\ Send(User(conn.dl.peerSocketId, EXTTYPE_KMREQ,
       KeyMaterial(conn.dl.crypto, conn.dl.config.Passphrase,
                   conn.dl.keyBaseEncryption)))
  /\ UNCHANGED <<given, config, offer, dl, req>>

\* What an end requires of the other's extension in version 4.
UnfitV4(hs, required) ==
  \/ hs.SRTVersion \notin 66048..66303                  \* 0x010200..0x0102FF
  \/ ~(required \subseteq hs.SRTFlags)
  \/ hs.SRTFlags \intersect {"STREAM", "PACKET_FILTER"} # {}

HandleHSRequest(p) ==
  /\ IsUser(p, "ln", EXTTYPE_HSREQ)
  /\ LET c == UnmarshalHS(p.payload)
         delay == Larger(c.SendTSBPDDelay, Delay(conn.ln.config.ReceiverLatency))
     IN  IF UnfitV4(c, {"TSBPDSND", "TLPKTDROP", "CRYPT", "REXMITFLG"})
         THEN conn' = [conn EXCEPT !.ln.state = "closed"] /\ UNCHANGED net
         ELSE /\ conn' = [conn EXCEPT !.ln.tsbpdDelay = 1000 * delay]
              /\ Send(User(conn.ln.peerSocketId, EXTTYPE_HSRSP,
                   [c EXCEPT !.SRTFlags = (@ \ {"TSBPDSND"})
                                            \union {"TSBPDRCV", "PERIODICNAK"},
                             !.RecvTSBPDDelay = 0, !.SendTSBPDDelay = delay]))
  /\ UNCHANGED <<given, config, offer, dl, req>>

\* The threshold is made from milliseconds here, in newSRTConn from
\* microseconds.
HandleHSResponse(p) ==
  /\ IsUser(p, "dl", EXTTYPE_HSRSP)
  /\ conn.dl.version = 4
  /\ LET c == UnmarshalHS(p.payload)
         delay == Larger(c.SendTSBPDDelay, Delay(conn.dl.config.PeerLatency))
     IN  conn' = IF UnfitV4(c, {"TSBPDRCV", "TLPKTDROP", "CRYPT", "REXMITFLG"})
                 THEN [conn EXCEPT !.dl.state = "closed"]
                 ELSE [conn EXCEPT !.dl.dropThreshold =
                                      DropThreshold(delay, conn.dl.config)]
  /\ UNCHANGED <<given, config, offer, net, dl, req>>

(* The first request makes the crypto context; one for the key in use is   *)
(* refused.  One that does not unwrap is not answered, but the salt that   *)
(* came with it stays.                                                     *)
HandleKMRequest(p) ==
  /\ IsUser(p, "ln", EXTTYPE_KMREQ)
  /\ LET c == UnmarshalKM(p.payload)
         l == IF conn.ln.version = 4 /\ conn.ln.crypto = None
              THEN [conn.ln EXCEPT !.crypto = NewCrypto(c.KLen, 20),
                                   !.keyBaseEncryption = Opposite(c.KeyBasedEncryption)]
              ELSE conn.ln
     IN  IF c.KeyBasedEncryption = l.keyBaseEncryption
         THEN conn' = [conn EXCEPT !.ln = l] /\ UNCHANGED net
         ELSE IF ~Unwraps(l.crypto, c, l.config.Passphrase)
         THEN /\ conn' = [conn EXCEPT !.ln = [l EXCEPT !.crypto.salt = c.Salt[1]]]
              /\ UNCHANGED net
         ELSE /\ conn' = [conn EXCEPT !.ln =
                   [l EXCEPT !.crypto = Unwrap(@, c),
                             !.keyBaseEncryption = Opposite(@)]]
              /\ Send(User(conn.ln.peerSocketId, EXTTYPE_KMRSP, c))
  /\ UNCHANGED <<given, config, offer, dl, req>>

-----------------------------------------------------------------------------
(* The first data packet of an end, push and pop, and its acknowledgement. *)

Write(e) ==
  /\ Open(e) /\ "DATA" \notin conn[e].sent
  /\ LET c   == conn[e]
         seq == c.initialPacketSequenceNumber
     IN  /\ conn' = [conn EXCEPT ![e].sent = @ \union {"DATA"},
                                 ![e].unacknowledged = {seq}]
         /\ Send([header |->
                    [IsControlPacket |-> FALSE, PacketSequenceNumber |-> seq,
                     PacketPositionFlag |-> SinglePacket, OrderFlag |-> FALSE,
                     KeyBaseEncryptionFlag |->
                       IF c.crypto = None THEN 0 ELSE c.keyBaseEncryption,
                     RetransmittedPacketFlag |-> FALSE, MessageNumber |-> 1,
                     Timestamp |-> Timestamp, DestinationSocketId |-> c.peerSocketId],
                  cif |-> [data |->
                    IF c.crypto = None THEN <<>>
                    ELSE EncryptOrDecryptPayload(<<>>, c.crypto,
                                                 c.keyBaseEncryption, seq)]])
  /\ UNCHANGED <<given, config, offer, dl, req>>

HandlePacket(e, p) ==
  /\ Open(e) /\ ~p.header.IsControlPacket
  /\ p.header.DestinationSocketId = SocketId[e]
  /\ p.header.MessageNumber # 0
  /\ LET c    == conn[e]
         h    == p.header
         data == IF c.crypto = None \/ h.KeyBaseEncryptionFlag = 0 THEN p.payload
                 ELSE EncryptOrDecryptPayload(p.payload, c.crypto,
                        h.KeyBaseEncryptionFlag, h.PacketSequenceNumber)
     IN  /\ \A q \in c.received : q.seq # h.PacketSequenceNumber     \* recv.Push
         /\ conn' = [conn EXCEPT ![e].received =
                       @ \union {[seq |-> h.PacketSequenceNumber, data |-> data]}]
  /\ UNCHANGED <<given, config, offer, net, dl, req>>

SendACK(e) ==
  /\ Open(e) /\ "ACK" \notin conn[e].sent
  /\ \E q \in conn[e].received :
       /\ q.seq = conn[e].initialPacketSequenceNumber
       /\ LET ack == Control(conn[e].peerSocketId, CTRLTYPE_ACK, 0,
                       [IsLite |-> FALSE, IsSmall |-> FALSE,
                        LastACKPacketSequenceNumber |-> sequence!Inc(q.seq),
                        RTT |-> 100000, RTTVar |-> 50000,
                        AvailableBufferSize |-> conn[e].config.FC,
                        PacketsReceivingRate |-> 0, EstimatedLinkCapacity |-> 0,
                        ReceivingRate |-> 0])
          IN  Send([ack EXCEPT !.header.TypeSpecific = 1])      \* nextACKNumber
  /\ conn' = [conn EXCEPT ![e].sent = @ \union {"ACK"}, ![e].ackNumbers = {1}]
  /\ UNCHANGED <<given, config, offer, dl, req>>

HandleACK(e, p) ==
  /\ Open(e) /\ Is(p, SocketId[e], CTRLTYPE_ACK)
  /\ LET c      == UnmarshalACK(p.payload)
         ackack == Control(conn[e].peerSocketId, CTRLTYPE_ACKACK, 0, None)
     IN  /\ conn' = [conn EXCEPT ![e].unacknowledged =
                       {n \in @ : ~sequence!Lt(n, c.LastACKPacketSequenceNumber)}]
         /\ IF c.IsLite \/ c.IsSmall THEN UNCHANGED net
            ELSE Send([ackack EXCEPT !.header.TypeSpecific = p.header.TypeSpecific])
  /\ UNCHANGED <<given, config, offer, dl, req>>

HandleACKACK(e, p) ==
  /\ Open(e) /\ Is(p, SocketId[e], CTRLTYPE_ACKACK)
  /\ conn' = [conn EXCEPT ![e].ackNumbers = {n \in @ : n > p.header.TypeSpecific}]
  /\ UNCHANGED <<given, config, offer, net, dl, req>>

-----------------------------------------------------------------------------
Receive(p) ==
  \/ HandleInduction(p) \/ HandleConclusion(p) \/ HandleRejection(p)
  \/ AnswerInduction(p) \/ NewConnRequest(p)
  \/ HandleHSRequest(p) \/ HandleHSResponse(p) \/ HandleKMRequest(p)
  \/ \E e \in Ends : HandlePacket(e, p) \/ HandleACK(e, p) \/ HandleACKACK(e, p)

Next ==
  \/ \E m \in net : Receive(Packet(m))
  \/ Decide \/ Forbid
  \/ SendHSRequest \/ SendKMRequest
  \/ \E e \in Ends : Write(e) \/ SendACK(e)

Spec == Init /\ [][Next]_vars

-----------------------------------------------------------------------------
(* Every packet is read as it was written, with its header and its control *)
(* information (Marshal and Unmarshal of pkt, CIFHandshake,                *)
(* CIFHandshakeExtension, CIFKeyMaterialExtension and CIFACK); except that *)
(* only a conclusion has extensions.                                       *)
PacketsSurvive == \A m \in net :
  LET p == Packet(m)
      type == m.header.ControlType
  IN  /\ p.header = m.header
      /\ IF ~m.header.IsControlPacket THEN p.payload = m.cif.data
         ELSE IF type = CTRLTYPE_ACK THEN UnmarshalACK(p.payload) = m.cif
         ELSE IF type = CTRLTYPE_USER /\ m.header.SubType \in {EXTTYPE_HSREQ, EXTTYPE_HSRSP}
         THEN UnmarshalHS(p.payload) = m.cif
         ELSE IF type = CTRLTYPE_USER THEN UnmarshalKM(p.payload) = m.cif
         ELSE type = CTRLTYPE_HANDSHAKE =>
           LET c == [Settle(m.cif) EXCEPT !.IsRequest = FALSE]
           IN  UnmarshalCIF(p.payload) =
                 IF c.HandshakeType = HSTYPE_CONCLUSION THEN c
                 ELSE [c EXCEPT !.SRTHS = None, !.SRTKM = None, !.StreamId = <<>>]

(* A valid configuration that is written into a URL (MarshalQuery) and     *)
(* read from there over the defaults (UnmarshalQuery) is valid and is the  *)
(* same for a connection, when its durations are whole milliseconds.       *)
QueryKeepsConfig ==
  dl.phase = "waiting" => IsValid(config.dl) /\ config.dl = Effective(given)

Both == conn.dl # None /\ conn.ln # None


(* In version 5, what an end receives is what the other wrote: it has the  *)
(* number the end starts with and can be read, encrypted or not, and the   *)
(* sender keeps it until it is there.  That requires the dialer to have    *)
(* answered one induction only: a second one makes it replace the key that *)
(* the listener may have accepted by then.                                 *)
FirstPacketIsRead == Both /\ conn.dl.version = 5 /\ dl.inductions = 1 =>
  /\ conn.dl.crypto = None <=> conn.ln.crypto = None
  /\ \A e \in Ends : \A f \in Ends \ {e} :
       /\ conn[e].received \subseteq
            {[seq |-> conn[e].initialPacketSequenceNumber, data |-> <<>>]}
       /\ "DATA" \in conn[f].sent /\ conn[f].unacknowledged = {} =>
            conn[e].received # {}

=============================================================================
