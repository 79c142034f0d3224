------------------------------- MODULE Config -------------------------------
(***************************************************************************)
(* The configuration of a connection and the query string that holds it    *)
(* (config.go).                                                            *)
(*                                                                         *)
(* Strings are byte strings, of which only the length and whether two are  *)
(* the same is looked at.  Durations are in microseconds; the default of   *)
(* Latency, -1 nanosecond, is -1 as well.  A query is a function from the  *)
(* fields it holds (under the names of the Config type) to their values:   *)
(* a number or a Boolean stands for its text, a duration for the text of   *)
(* its milliseconds.  Logger, ListenerControl and AllowPeerIpChange have   *)
(* no place in a query and are left out.                                   *)
(***************************************************************************)
EXTENDS Integers, Sequences

SRT_VERSION == 66561                    \* 0x010401
HEADER_SIZE == 16 + 28                  \* SRT_HEADER_SIZE + UDP_HEADER_SIZE
MIN_MSS_SIZE == 76
MAX_MSS_SIZE == 1500
MIN_PAYLOAD_SIZE == MIN_MSS_SIZE - HEADER_SIZE
MAX_PAYLOAD_SIZE == MAX_MSS_SIZE - HEADER_SIZE

LiveMode == <<108, 105, 118, 101>>      \* "live"

defaultConfig == [
  Congestion |-> LiveMode, ConnectionTimeout |-> 3000000, DriftTracer |-> TRUE,
  EnforcedEncryption |-> TRUE, FC |-> 25600, GroupConnect |-> FALSE,
  GroupStabilityTimeout |-> 0, InputBW |-> 0, IPTOS |-> 0, IPTTL |-> 0,
  IPv6Only |-> -1, KMPreAnnounce |-> 2^12, KMRefreshRate |-> 2^24,
  Latency |-> -1, LossMaxTTL |-> 0, MaxBW |-> -1, MessageAPI |-> FALSE,
  MinInputBW |-> 0, MinVersion |-> SRT_VERSION, MSS |-> MAX_MSS_SIZE,
  NAKReport |-> TRUE, OverheadBW |-> 25, PacketFilter |-> <<>>,
  Passphrase |-> <<>>, PayloadSize |-> MAX_PAYLOAD_SIZE, PBKeylen |-> 16,
  PeerIdleTimeout |-> 5000000, PeerLatency |-> 120000,
  ReceiverBufferSize |-> 0, ReceiverLatency |-> 120000, SendBufferSize |-> 0,
  SendDropDelay |-> 1000000, StreamId |-> <<>>, TooLatePacketDrop |-> TRUE,
  TransmissionType |-> LiveMode, TSBPDMode |-> TRUE]

Fields    == DOMAIN defaultConfig \ {"MinVersion"}      \* of a query
Strings   == {"Congestion", "PacketFilter", "Passphrase", "StreamId",
              "TransmissionType"}
Durations == {"ConnectionTimeout", "GroupStabilityTimeout", "Latency",
              "PeerIdleTimeout", "PeerLatency", "ReceiverLatency",
              "SendDropDelay"}
KMFields  == {"KMPreAnnounce", "KMRefreshRate"}

\* Go's division cuts towards zero.
Milliseconds(d) == IF d < 0 THEN -((-d) \div 1000) ELSE d \div 1000

-----------------------------------------------------------------------------
\* Mutant: the fields of an encrypted connection are left out.
WrittenPlain(c, f) ==
  /\ f \notin KMFields
  /\ c[f] # IF f = "MinInputBW" THEN defaultConfig.InputBW ELSE defaultConfig[f]

\* Only what differs from the default is written.
Written(c, f) ==
  /\ f \in KMFields => c.Passphrase # <<>>
  /\ c[f] # IF f = "MinInputBW" THEN defaultConfig.InputBW ELSE defaultConfig[f]

MarshalQuery(c) ==
  [f \in {g \in Fields : Written(c, g)} |->
     IF f \in Durations THEN Milliseconds(c[f]) ELSE c[f]]

UnmarshalQuery(c, query) ==
  [f \in DOMAIN c |->
     IF f \notin DOMAIN query THEN c[f]
     ELSE IF f \in Strings /\ query[f] = <<>> THEN c[f]
     ELSE IF f \in Durations THEN 1000 * query[f] ELSE query[f]]

-----------------------------------------------------------------------------
(* Validate returns an error unless IsValid, and changes the configuration *)
(* as Validated says.                                                      *)

Validated(c) ==
  LET delays == IF c.Latency >= 0 THEN {"PeerLatency", "ReceiverLatency"} ELSE {}
  IN  [f \in DOMAIN c |->
         IF f \in delays THEN c.Latency
         ELSE IF f = "Congestion" THEN LiveMode
         ELSE IF f \in {"NAKReport", "TooLatePacketDrop", "TSBPDMode"} THEN TRUE
         ELSE c[f]]

IsValid(config) ==
  LET c == Validated(config)
  IN  /\ c.TransmissionType = LiveMode
      /\ c.ConnectionTimeout > 0
      /\ ~c.GroupConnect
      /\ c.IPTOS <= 255 /\ c.IPTTL <= 255 /\ c.IPv6Only <= 0
      /\ c.KMRefreshRate # 0 => c.KMPreAnnounce \in 1..(c.KMRefreshRate \div 2)
      /\ c.MinVersion = SRT_VERSION
      /\ c.MSS \in MIN_MSS_SIZE..MAX_MSS_SIZE
      /\ c.OverheadBW \in 10..100
      /\ c.PacketFilter = <<>>
      /\ c.Passphrase # <<>> => Len(c.Passphrase) \in 10..80
      /\ c.PayloadSize \in MIN_PAYLOAD_SIZE..MAX_PAYLOAD_SIZE
      /\ c.PayloadSize <= c.MSS - HEADER_SIZE
      /\ c.PBKeylen \in {16, 24, 32}
      /\ c.PeerLatency >= 0 /\ c.ReceiverLatency >= 0 /\ c.SendDropDelay >= 0
      /\ Len(c.StreamId) <= 512

-----------------------------------------------------------------------------
\* What of a configuration a connection uses: without a passphrase there are
\* no keys to renew.
Effective(c) ==
  [f \in DOMAIN c |-> IF f \in KMFields /\ c.Passphrase = <<>>
                      THEN defaultConfig[f] ELSE c[f]]

=============================================================================
