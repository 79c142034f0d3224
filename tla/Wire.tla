-------------------------------- MODULE Wire --------------------------------
(***************************************************************************)
(* How packets and control information fields become bytes and how they    *)
(* are read again (packet/packet.go, net/ip.go).                           *)
(*                                                                         *)
(* A byte string is a sequence over 0..255.  A 32 bit word is the integer  *)
(* in -2^31..2^31-1 with the same bits, TLC's integers being no wider.     *)
(* What is read is what some Marshal has written: the bytes of a peer that *)
(* does not follow the format are not looked at, and Invalid stands for    *)
(* every error that Unmarshal returns.  The strings a field can be printed *)
(* as and the writer errors of Marshal are left out.                       *)
(***************************************************************************)
EXTENDS Integers, Sequences, SequencesExt, FiniteSetsExt

Byte    == 0..255
Invalid == [error |-> "unmarshal"]
None    == [none |-> "nil"]

Uint16(n) == <<(n \div 256) % 256, n % 256>>
Uint32(n) == Uint16(n \div 65536) \o Uint16(n)

\* At offset i, counted from 0 as in the code.
GetUint16(data, i) == 256 * data[i + 1] + data[i + 2]
GetUint32(data, i) ==
  LET high == GetUint16(data, i)
  IN  65536 * (IF high < 32768 THEN high ELSE high - 65536)
        + GetUint16(data, i + 2)

Low31(n) == IF n < 0 THEN n + 2^30 + 2^30 ELSE n      \* n & MAX_SEQUENCENUMBER

From(data, i) == SubSeq(data, i + 1, Len(data))
Zeros(n) == [i \in 1..n |-> 0]
Flag(b, k) == IF b THEN 2^k ELSE 0
IsSet(n, k) == (n \div 2^k) % 2 = 1

-----------------------------------------------------------------------------
(* Packets.  A header has the fields of a control or of a data packet.     *)

CTRLTYPE_HANDSHAKE == 0
CTRLTYPE_ACK == 2
CTRLTYPE_ACKACK == 6
CTRLTYPE_USER == 32767
SinglePacket == 3

\* The flags of a data packet and the low 26 bits of its message number.
MessageField(h) ==
  <<64 * h.PacketPositionFlag + Flag(h.OrderFlag, 5)
      + 8 * h.KeyBaseEncryptionFlag + Flag(h.RetransmittedPacketFlag, 2)
      + ((h.MessageNumber \div 2^24) % 4)>>
    \o Tail(Uint32(h.MessageNumber))

Marshal(h, payload) ==
  (IF h.IsControlPacket
   THEN Uint16(32768 + h.ControlType) \o Uint16(h.SubType)
          \o Uint32(h.TypeSpecific)
   ELSE Uint32(h.PacketSequenceNumber) \o MessageField(h))
  \o Uint32(h.Timestamp) \o Uint32(h.DestinationSocketId) \o payload

Unmarshal(data) ==
  IF Len(data) < 16 THEN Invalid
  ELSE [header |->
         IF IsSet(data[1], 7)
         THEN [IsControlPacket |-> TRUE,
               ControlType |-> GetUint16(data, 0) - 32768,
               SubType |-> GetUint16(data, 2),
               TypeSpecific |-> GetUint32(data, 4),
               Timestamp |-> GetUint32(data, 8),
               DestinationSocketId |-> GetUint32(data, 12)]
         ELSE [IsControlPacket |-> FALSE,
               PacketSequenceNumber |-> GetUint32(data, 0),
               PacketPositionFlag |-> data[5] \div 64,
               OrderFlag |-> IsSet(data[5], 5),
               KeyBaseEncryptionFlag |-> (data[5] \div 8) % 4,
               RetransmittedPacketFlag |-> IsSet(data[5], 2),
               MessageNumber |-> (data[5] % 4) * 2^24
                                   + 65536 * data[6] + GetUint16(data, 6),
               Timestamp |-> GetUint32(data, 8),
               DestinationSocketId |-> GetUint32(data, 12)],
        payload |-> From(data, 16)]

-----------------------------------------------------------------------------
(* Acknowledgements: the length tells a lite and a small one from a full.  *)

ACKFields == <<"LastACKPacketSequenceNumber", "RTT", "RTTVar",
               "AvailableBufferSize", "PacketsReceivingRate",
               "EstimatedLinkCapacity", "ReceivingRate">>

MarshalACK(c) ==
  LET buffer == FlattenSeq([i \in 1..7 |-> Uint32(c[ACKFields[i]])])
  IN  SubSeq(buffer, 1, IF c.IsLite THEN 4 ELSE IF c.IsSmall THEN 16 ELSE 28)

\* A field that was not sent keeps the 0 of the new CIFACK.
UnmarshalACK(data) ==
  LET Sent(i) == IF 4 * i <= Len(data) THEN GetUint32(data, 4 * (i - 1)) ELSE 0
  IN  IF Len(data) \notin {4, 16} /\ Len(data) < 28 THEN Invalid
      ELSE [IsLite  |-> Len(data) = 4,
            IsSmall |-> Len(data) = 16,
            LastACKPacketSequenceNumber |-> Low31(Sent(1)),
            RTT |-> Sent(2), RTTVar |-> Sent(3), AvailableBufferSize |-> Sent(4),
            PacketsReceivingRate |-> Sent(5), EstimatedLinkCapacity |-> Sent(6),
            ReceivingRate |-> Sent(7)]

-----------------------------------------------------------------------------
(* The handshake extension: the SRT version, the flags, the two delays.    *)

SRTFlags == <<"TSBPDSND", "TSBPDRCV", "CRYPT", "TLPKTDROP", "PERIODICNAK",
              "REXMITFLG", "STREAM", "PACKET_FILTER">>

FlagBits(flags) ==
  SumSet({2^(i - 1) : i \in {j \in 1..8 : SRTFlags[j] \in flags}})

MarshalHS(c) ==
  Uint32(c.SRTVersion)
    \o <<0, 0, 0, FlagBits(c.SRTFlags)>>
    \o Uint16(c.RecvTSBPDDelay) \o Uint16(c.SendTSBPDDelay)

UnmarshalHS(data) ==
  IF Len(data) < 12 THEN Invalid
  ELSE [SRTVersion |-> GetUint32(data, 0),
        SRTFlags |-> {SRTFlags[i] : i \in {j \in 1..8 : IsSet(data[8], j - 1)}},
        RecvTSBPDDelay |-> GetUint16(data, 8),
        SendTSBPDDelay |-> GetUint16(data, 10)]

-----------------------------------------------------------------------------
(* Key material.  The fields that MarshalKM of crypto/crypto.go always     *)
(* fills with the same values are those values; Unmarshal insists on most. *)

KeyLengths == {16, 24, 32}

MarshalKM(c) ==
  <<16 + 2>> \o Uint16(8233) \o <<c.KeyBasedEncryption>> \o Uint32(0)
    \o <<2, 0, 2, 0, 0, 0, c.SLen \div 4, c.KLen \div 4>>
    \o (IF c.SLen # 0 THEN c.Salt ELSE <<>>) \o c.Wrap

\* The salt, if there is one, and the wrapped keys come behind 16 bytes.
UnmarshalKM(data) ==
  LET error == Reverse(data)
      SLen  == 4 * data[15]
      KLen  == 4 * data[16]
      wrap  == (IF data[4] % 4 = 3 THEN 2 ELSE 1) * KLen + 8
  IN  IF Len(data) = 4
      THEN IF GetUint32(error, 0) \in {3, 4} THEN [Error |-> GetUint32(error, 0)]
                                             ELSE Invalid
      ELSE IF \/ Len(data) < 16
              \/ data[1] # 18 \/ GetUint16(data, 1) # 8233
              \/ data[4] % 4 = 0 \/ GetUint32(data, 4) # 0 \/ data[11] # 2
              \/ KLen \notin KeyLengths \/ SLen \notin {0, 16}
              \/ Len(data) < 16 + SLen + wrap
      THEN Invalid
      ELSE [Error |-> 0, KeyBasedEncryption |-> data[4] % 4,
            SLen |-> SLen, KLen |-> KLen,
            Salt |-> SubSeq(data, 17, 16 + SLen),
            Wrap |-> SubSeq(data, 17 + SLen, 16 + SLen + wrap)]

-----------------------------------------------------------------------------
(* Handshakes.  HasHS, HasKM, HasSID and HasCongestionCtl say whether SRTHS *)
(* and SRTKM are None and StreamId and CongestionCtl empty.                *)

HSTYPE_CONCLUSION == -1
HSTYPE_INDUCTION == 1

EXTTYPE_HSREQ == 1
EXTTYPE_HSRSP == 2
EXTTYPE_KMREQ == 3
EXTTYPE_KMRSP == 4
EXTTYPE_SID == 5
EXTTYPE_CONGESTION == 6

Live == <<108, 105, 118, 101>>          \* "live"

\* Addresses, of 4 or 16 bytes, are in host byte order.
MarshalIP(ip) == Reverse(ip) \o Zeros(16 - Len(ip))
UnmarshalIP(data) ==
  Reverse(IF From(data, 4) = Zeros(12) THEN SubSeq(data, 1, 4) ELSE data)

\* Mutant: the words are not turned round.
WordsStraight(string) == string \o Zeros((-Len(string)) % 4)

\* Strings are filled up to whole words, and every word is turned round.
Words(string) ==
  LET b == string \o Zeros((-Len(string)) % 4)
  IN  [i \in 1..Len(b) |-> b[4 * ((i - 1) \div 4) + 4 - ((i - 1) % 4)]]

UnmarshalWords(data) ==
  LET b == [i \in 1..Len(data) |-> data[4 * ((i - 1) \div 4) + 4 - ((i - 1) % 4)]]
  IN  SubSeq(b, 1, Max({0} \union {i \in 1..Len(b) : b[i] # 0}))

\* The fields that Marshal sets.
Settle(c) ==
  IF c.Version # 5 THEN [c EXCEPT !.EncryptionField = 0, !.ExtensionField = 2]
  ELSE [c EXCEPT
         !.EncryptionField = IF c.SRTKM # None THEN c.SRTKM.KLen \div 8 ELSE @,
         !.ExtensionField =
           LET set == {k \in 0..2 : \/ k = 0 /\ c.SRTHS # None
                                    \/ k = 1 /\ c.SRTKM # None
                                    \/ k = 2 /\ c.StreamId # <<>>
                                    \/ k = 2 /\ c.CongestionCtl # <<>>}
           IN  SumSet({2^k : k \in
                 IF c.HandshakeType = HSTYPE_CONCLUSION THEN set
                 ELSE set \union {k \in 0..15 : IsSet(@, k)}})]

MarshalCIF(cif) ==
  LET c == Settle(cif)
      Extension(present, type, data) ==
        IF ~present THEN <<>>
        ELSE Uint16(type) \o Uint16(Len(data) \div 4) \o data
  IN  Uint32(c.Version) \o Uint16(c.EncryptionField) \o Uint16(c.ExtensionField)
        \o Uint32(c.InitialPacketSequenceNumber)
        \o Uint32(c.MaxTransmissionUnitSize) \o Uint32(c.MaxFlowWindowSize)
        \o Uint32(c.HandshakeType) \o Uint32(c.SRTSocketId)
        \o Uint32(c.SynCookie) \o MarshalIP(c.PeerIP)
        \o Extension(c.SRTHS # None, IF c.IsRequest THEN EXTTYPE_HSREQ ELSE EXTTYPE_HSRSP,
                     MarshalHS(c.SRTHS))
        \o Extension(c.SRTKM # None, IF c.IsRequest THEN EXTTYPE_KMREQ ELSE EXTTYPE_KMRSP,
                     MarshalKM(c.SRTKM))
        \o Extension(c.StreamId # <<>>, EXTTYPE_SID, Words(c.StreamId))
        \o Extension(c.CongestionCtl \notin {<<>>, Live}, EXTTYPE_CONGESTION,
                     Words(c.CongestionCtl))

(* The extensions from `data` on; the key material is read from all that   *)
(* follows, whatever its extension length says.                            *)
RECURSIVE UnmarshalExtensions(_, _)
UnmarshalExtensions(c, data) ==
  LET type   == GetUint16(data, 0)
      length == 4 * GetUint16(data, 2)
      pivot  == From(data, 4)
      km     == UnmarshalKM(pivot)
      enc    == IF c.EncryptionField = 0 THEN 2 ELSE c.EncryptionField
      d == CASE Len(pivot) < length -> Invalid
             [] type \in {EXTTYPE_HSREQ, EXTTYPE_HSRSP} ->
                  IF length # 12 THEN Invalid
                  ELSE [c EXCEPT !.SRTHS = UnmarshalHS(pivot)]
             [] type \in {EXTTYPE_KMREQ, EXTTYPE_KMRSP} ->
                  IF km = Invalid \/ 8 * enc # (IF km.Error = 0 THEN km.KLen ELSE 0)
                  THEN Invalid
                  ELSE [c EXCEPT !.SRTKM = km, !.EncryptionField = enc]
             [] type = EXTTYPE_SID ->
                  IF length > 512 THEN Invalid
                  ELSE [c EXCEPT !.StreamId = UnmarshalWords(SubSeq(pivot, 1, length))]
             [] type = EXTTYPE_CONGESTION ->
                  IF length > 4 THEN Invalid
                  ELSE [c EXCEPT !.CongestionCtl =
                          UnmarshalWords(SubSeq(pivot, 1, length))]
             [] OTHER -> c
  IN  IF d = Invalid \/ Len(pivot) <= length THEN d
      ELSE UnmarshalExtensions(d, From(pivot, length))

UnmarshalCIF(data) ==
  LET c == [IsRequest |-> FALSE,
            Version |-> GetUint32(data, 0), EncryptionField |-> GetUint16(data, 4),
            ExtensionField |-> GetUint16(data, 6),
            InitialPacketSequenceNumber |-> Low31(GetUint32(data, 8)),
            MaxTransmissionUnitSize |-> GetUint32(data, 12),
            MaxFlowWindowSize |-> GetUint32(data, 16),
            HandshakeType |-> GetUint32(data, 20),
            SRTSocketId |-> GetUint32(data, 24), SynCookie |-> GetUint32(data, 28),
            PeerIP |-> UnmarshalIP(SubSeq(data, 33, 48)),
            SRTHS |-> None, SRTKM |-> None, StreamId |-> <<>>, CongestionCtl |-> <<>>]
  IN  IF Len(data) < 48 THEN Invalid
      ELSE IF c.HandshakeType # HSTYPE_CONCLUSION \/ c.ExtensionField = 0
                \/ Len(data) = 48
      THEN c
      ELSE IF c.EncryptionField \notin {0, 2, 3, 4} THEN Invalid
      ELSE UnmarshalExtensions(c, From(data, 48))

=============================================================================
