-------------------------------- MODULE Tsbpd --------------------------------
(***************************************************************************)
(* Timestamp based packet delivery: handlePacket (connection.go) extends   *)
(* the 32 bit timestamp of a data packet to the time since the start of    *)
(* the connection.  The sender's clock (getTimestamp, Push of              *)
(* congestion/live/send.go) keeps only the low bits, so the receiver has   *)
(* to find out how often they have wrapped from the packets alone, which   *)
(* the network drops, repeats and reorders.                                *)
(*                                                                         *)
(* A time is the number of laps of the timestamp and the timestamp.  The   *)
(* fixed summands of PktTsbpdTime (time base, delay, drift) are left out.  *)
(***************************************************************************)
EXTENDS Integers

CONSTANTS
  MAX_TIMESTAMP,
  WrapPeriod,           \* 30 seconds in the code
  Silence,              \* bound on the time between two packets that are new
  Lateness,             \* bound on how far a late packet lies back
  MaxLap                \* bound on the laps

ASSUME TsbpdAssumption ==
  /\ WrapPeriod \in Nat /\ WrapPeriod >= 1
  /\ MAX_TIMESTAMP \in Nat /\ MAX_TIMESTAMP >= 4 * WrapPeriod
  /\ Silence \in Nat /\ Silence <= WrapPeriod
  /\ Lateness \in Nat /\ Lateness <= WrapPeriod
  /\ MaxLap \in Nat

VARIABLES
  tsbpdWrapPeriod,      \* "yes" between the two ends of a wrap
  tsbpdTimeBaseOffset,  \* in laps
  PktTsbpdTime,         \* of the latest packet
  sentAt,               \* history: when the latest packet was really sent
  newest                \* history: the latest such time of all packets

tsbpdVars == <<tsbpdWrapPeriod, tsbpdTimeBaseOffset, PktTsbpdTime, sentAt, newest>>

Time == [lap : Nat, ts : 0..MAX_TIMESTAMP]

TsbpdTypeOK ==
  /\ tsbpdWrapPeriod \in {"no", "yes"}
  /\ tsbpdTimeBaseOffset \in Nat
  /\ PktTsbpdTime \in Time
  /\ sentAt \in Time
  /\ newest \in Time

\* Time t is not after time u plus d, for d within a lap.
NotAfter(t, u, d) ==
  \/ t.lap < u.lap
  \/ t.lap = u.lap /\ t.ts <= u.ts + d
  \/ t.lap = u.lap + 1 /\ t.ts + MAX_TIMESTAMP + 1 <= u.ts + d

-----------------------------------------------------------------------------

\* After the first packet, sent some time after the start of the connection.
TsbpdInit ==
  /\ tsbpdWrapPeriod = "no"
  /\ tsbpdTimeBaseOffset = 0
  /\ newest \in [lap : {0}, ts : 0..(MAX_TIMESTAMP - WrapPeriod)]
  /\ sentAt = newest
  /\ PktTsbpdTime = newest

Starts(ts) == tsbpdWrapPeriod = "no" /\ ts > MAX_TIMESTAMP - WrapPeriod

Ends(ts) == tsbpdWrapPeriod = "yes" /\ ts >= WrapPeriod /\ ts <= 2 * WrapPeriod

Offset(ts) == IF Ends(ts) THEN tsbpdTimeBaseOffset + 1 ELSE tsbpdTimeBaseOffset

\* Mutant: the packets after the wrap are not told from those before.
HandlePacketOneOffset(t) ==
  /\ tsbpdWrapPeriod' = IF Starts(t.ts) THEN "yes"
                        ELSE IF Ends(t.ts) THEN "no" ELSE tsbpdWrapPeriod
  /\ tsbpdTimeBaseOffset' = Offset(t.ts)
  /\ PktTsbpdTime' = [lap |-> Offset(t.ts), ts |-> t.ts]

\* Of a packet sent at time t the header holds only t.ts.
HandlePacket(t) ==
  /\ tsbpdWrapPeriod' = IF Starts(t.ts) THEN "yes"
                        ELSE IF Ends(t.ts) THEN "no" ELSE tsbpdWrapPeriod
  /\ tsbpdTimeBaseOffset' = Offset(t.ts)
  /\ PktTsbpdTime' = [lap |-> IF tsbpdWrapPeriod' = "yes" /\ t.ts < WrapPeriod
                              THEN Offset(t.ts) + 1 ELSE Offset(t.ts),
                      ts |-> t.ts]

\* Packets are new or late, in any order, within the two bounds.
Receive ==
  \E t \in [lap : {newest.lap - 1, newest.lap, newest.lap + 1}, ts : 0..MAX_TIMESTAMP] :
    /\ t.lap \in 0..MaxLap
    /\ NotAfter(t, newest, Silence)
    /\ NotAfter(newest, t, Lateness)
    /\ HandlePacket(t)
    /\ sentAt' = t
    /\ newest' = IF NotAfter(t, newest, 0) THEN newest ELSE t

TsbpdNext == Receive

TsbpdSpec == TsbpdInit /\ [][TsbpdNext]_tsbpdVars

-----------------------------------------------------------------------------

(* The receiver finds the true time of every packet, before, during and    *)
(* after a wrap, as long as neither a pause between new packets nor the    *)
(* delay of a late one exceeds the wrap period.                            *)
TimeIsUnwrapped == PktTsbpdTime = sentAt

(* The receiver counts a lap once, when the newest packet has passed the   *)
(* wrap by the whole period, and is in a wrap period only around a wrap.   *)
WrapIsFollowed ==
  IF tsbpdWrapPeriod = "no"
  THEN /\ newest.lap = tsbpdTimeBaseOffset
       /\ newest.lap > 0 => newest.ts >= WrapPeriod
       /\ newest.ts <= MAX_TIMESTAMP - WrapPeriod
  ELSE \/ newest.lap = tsbpdTimeBaseOffset /\ newest.ts > MAX_TIMESTAMP - WrapPeriod
       \/ newest.lap = tsbpdTimeBaseOffset + 1 /\ newest.ts < WrapPeriod

=============================================================================
