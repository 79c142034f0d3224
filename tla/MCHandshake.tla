----------------------------- MODULE MCHandshake -----------------------------
(***************************************************************************)
(* The handshake with configurations whose delays, packet sizes, keys and  *)
(* stream ids lie around the places where the code distinguishes them.     *)
(***************************************************************************)
EXTENDS Handshake

Text(n, byte) == [i \in 1..n |-> byte]

WithDelays(c, delays) ==
  {[c EXCEPT !.ReceiverLatency = d[1], !.PeerLatency = d[2]] : d \in delays}

WithMSS(c, sizes) ==
  {[c EXCEPT !.MSS = n, !.PayloadSize = n - HEADER_SIZE] : n \in sizes}

\* Every field differs from the default, in two ways (what Validate insists
\* on or sets is left alone, and the second has no passphrase).
Unusual ==
  {[defaultConfig EXCEPT
      !.Congestion = <<>>, !.ConnectionTimeout = 1000, !.DriftTracer = FALSE,
      !.EnforcedEncryption = FALSE, !.FC = 1, !.GroupStabilityTimeout = 7000,
      !.InputBW = 5, !.IPTOS = 255, !.IPTTL = 1, !.IPv6Only = 0,
      !.KMPreAnnounce = 1, !.KMRefreshRate = n, !.LossMaxTTL = 3, !.MaxBW = 0,
      !.MessageAPI = TRUE, !.MinInputBW = 9, !.MSS = 200, !.NAKReport = FALSE,
      !.OverheadBW = 10, !.Passphrase = Text(n, 97), !.PayloadSize = 100,
      !.PBKeylen = 24, !.PeerIdleTimeout = 2000, !.PeerLatency = 65535000,
      !.ReceiverBufferSize = 11, !.ReceiverLatency = 1000, !.SendBufferSize = 12,
      !.SendDropDelay = 0, !.StreamId = Text(6, 100),
      !.TooLatePacketDrop = FALSE, !.TSBPDMode = FALSE] : n \in {0, 10}}

\* Delays, with one beyond the second that dropThreshold starts from; sizes,
\* of which 75 is not valid; keys; and stream ids around a word.
DialerConfigsMC ==
  WithDelays(defaultConfig, {<<0, 120000>>, <<3000000, 0>>, <<120000, 3000000>>})
    \union WithMSS(defaultConfig, {75, 76})
    \union {[defaultConfig EXCEPT !.Passphrase = Text(10, 97), !.PBKeylen = n,
                                  !.StreamId = Text(n - 12, 98)] : n \in {16, 32}}
    \union {[defaultConfig EXCEPT !.StreamId = Text(n, 99)] : n \in {1, 512}}
    \union {[defaultConfig EXCEPT !.Latency = 250000, !.SendDropDelay = 0]}
    \union Unusual

ListenerConfigsMC ==
  WithDelays([defaultConfig EXCEPT !.MSS = 76, !.PayloadSize = 32], {<<0, 120000>>})
    \union WithDelays([defaultConfig EXCEPT !.Passphrase = Text(10, 97)],
                      {<<120000, 4000000>>})
    \union WithMSS([defaultConfig EXCEPT !.Passphrase = Text(10, 122)], {1400})

=============================================================================
