----------------------------- MODULE KeyRefresh -----------------------------
(***************************************************************************)
(* The exchange of stream encryption keys (SEKs) between the end of a      *)
(* connection that writes data and the one that reads it: pop counts the   *)
(* packets it sends, renews, announces and switches the keys, and          *)
(* handleKMRequest and handleKMResponse take the announcement over         *)
(* (connection.go, crypto/crypto.go).  All of it happens under cryptoLock. *)
(*                                                                         *)
(* A key is a number, fresh for every GenerateSEK; a payload is the key it *)
(* is encrypted with.  The network loses, duplicates and reorders, but     *)
(* nothing in it survives more than Lifetime packets of the stream.        *)
(***************************************************************************)
EXTENDS Integers

CONSTANTS
  KMRefreshRate,
  KMPreAnnounce,
  ResendShare,          \* 10 in the code: a request is resent ten times
  UINT64,               \* 2^64: the countdowns are unsigned
  Lifetime,             \* packets sent while a message is in the network
  MaxSent               \* bound on the number of packets sent

\* What Config.Validate lets through.
ASSUME KeyAssumption ==
  /\ KMRefreshRate \in Nat
  /\ KMPreAnnounce \in Nat /\ KMPreAnnounce >= 1
  /\ KMPreAnnounce <= KMRefreshRate \div 2
  /\ ResendShare \in Nat /\ ResendShare >= 1
  /\ UINT64 \in Nat /\ UINT64 > 2 * KMRefreshRate
  /\ Lifetime \in Nat
  /\ MaxSent \in Nat

VARIABLES
  keyBaseEncryption,    \* the writer's key in use, "even" or "odd"
  sek,                  \* the writer's keys
  kmPreAnnounceCountdown,
  kmRefreshCountdown,
  kmConfirmed,
  peerKeyBase,          \* keyBaseEncryption of the reader
  peerSek,              \* the reader's keys
  sent,                 \* history: data packets sent; also numbers the keys
  trusted,              \* history: the key in use was confirmed before the switch
  net                   \* what may still arrive at either end

writer == <<keyBaseEncryption, sek, kmPreAnnounceCountdown, kmRefreshCountdown,
            kmConfirmed, sent, trusted>>
reader == <<peerKeyBase, peerSek>>
keyVars == <<writer, reader, net>>

Flag == {"even", "odd"}

\* A data packet: the flag of its header, the key its payload is encrypted
\* with and that key's flag.
Data == [type : {"data"}, flag : Flag, key : Int, of : Flag, retrans : {"no", "yes"},
         trusted : {"no", "yes"}, no : Nat]
KMReq == [type : {"KMREQ"}, flag : Flag, key : Int, no : Nat]
\* The response repeats the request; no is when it was sent.
KMRsp == [type : {"KMRSP"}, req : Nat, no : Nat]

KeyTypeOK ==
  /\ keyBaseEncryption \in Flag
  /\ sek \in [Flag -> Int]
  /\ kmPreAnnounceCountdown \in 0..(UINT64 - 1)
  /\ kmRefreshCountdown \in 1..KMRefreshRate
  /\ kmConfirmed \in {"no", "yes"}
  /\ peerKeyBase \in Flag
  /\ peerSek \in [Flag -> Int]
  /\ sent \in Nat
  /\ trusted \in {"no", "yes"}
  /\ net \subseteq Data \cup KMReq \cup KMRsp

Opposite(flag) == IF flag = "even" THEN "odd" ELSE "even"

\* Both ends come out of the handshake with the even key in common; the odd
\* keys are what crypto.New has drawn at either end.
KeyInit ==
  /\ keyBaseEncryption = "even"
  /\ sek = [f \in Flag |-> IF f = "even" THEN 0 ELSE -1]
  /\ kmPreAnnounceCountdown = KMRefreshRate - KMPreAnnounce
  /\ kmRefreshCountdown = KMRefreshRate
  /\ kmConfirmed = "no"
  /\ peerKeyBase = "even"
  /\ peerSek = [f \in Flag |-> IF f = "even" THEN 0 ELSE -2]
  /\ sent = 0
  /\ trusted = "yes"
  /\ net = {}

-----------------------------------------------------------------------------
(* pop: the bookkeeping of one data packet, first or repeated.             *)

MinusOne(countdown) == IF countdown = 0 THEN UINT64 - 1 ELSE countdown - 1

\* The countdowns after the decrement at the top.
preAnnounce == MinusOne(kmPreAnnounceCountdown)
refresh == MinusOne(kmRefreshCountdown)

Announces == preAnnounce = 0 /\ kmConfirmed = "no"
Switches == refresh = 0

\* Mutant: the new key is drawn when the old one is announced.
RenewsLate == ~Switches /\ refresh = KMPreAnnounce

\* The previous key is replaced KMPreAnnounce packets after the switch.
Renews == (IF Switches THEN KMRefreshRate ELSE refresh) = KMRefreshRate - KMPreAnnounce

\* The key that is neither in use nor, after a switch, about to be.
Spare == IF Switches THEN keyBaseEncryption ELSE Opposite(keyBaseEncryption)

Alive(messages) == {m \in messages : m.no + Lifetime > sent}

Request == [type |-> "KMREQ", flag |-> Opposite(keyBaseEncryption),
            key |-> sek[Opposite(keyBaseEncryption)], no |-> sent + 1]

\* Mutant: the confirmation of the key now in use is kept after the switch.
PopStaysConfirmed(data) ==
  /\ sent < MaxSent
  /\ sent' = sent + 1
  /\ net' = Alive(net) \cup {data} \cup (IF Announces THEN {Request} ELSE {})
  /\ IF Switches
     THEN /\ kmPreAnnounceCountdown' = KMRefreshRate - KMPreAnnounce
          /\ kmRefreshCountdown' = KMRefreshRate
          /\ keyBaseEncryption' = Opposite(keyBaseEncryption)
          /\ trusted' = kmConfirmed
          /\ UNCHANGED kmConfirmed
     ELSE /\ kmPreAnnounceCountdown' =
               IF Announces THEN KMPreAnnounce \div ResendShare + 1 ELSE preAnnounce
          /\ kmRefreshCountdown' = refresh
          /\ UNCHANGED <<keyBaseEncryption, kmConfirmed, trusted>>
  /\ sek' = IF Renews THEN [sek EXCEPT ![Spare] = sent + 1] ELSE sek
  /\ UNCHANGED reader

Pop(data) ==
  /\ sent < MaxSent
  /\ sent' = sent + 1
  /\ net' = Alive(net) \cup {data} \cup (IF Announces THEN {Request} ELSE {})
  /\ IF Switches
     THEN /\ kmPreAnnounceCountdown' = KMRefreshRate - KMPreAnnounce
          /\ kmRefreshCountdown' = KMRefreshRate
          /\ keyBaseEncryption' = Opposite(keyBaseEncryption)
          /\ trusted' = kmConfirmed
          /\ kmConfirmed' = "no"
     ELSE /\ kmPreAnnounceCountdown' =
               IF Announces THEN KMPreAnnounce \div ResendShare + 1 ELSE preAnnounce
          /\ kmRefreshCountdown' = refresh
          /\ UNCHANGED <<keyBaseEncryption, kmConfirmed, trusted>>
  /\ sek' = IF Renews THEN [sek EXCEPT ![Spare] = sent + 1] ELSE sek
  /\ UNCHANGED reader

\* A packet is encrypted when it is sent for the first time ...
Send ==
  Pop([type |-> "data", flag |-> keyBaseEncryption, key |-> sek[keyBaseEncryption],
       of |-> keyBaseEncryption, retrans |-> "no", trusted |-> trusted, no |-> sent + 1])

\* ... and not again when it is repeated, but the flag is set anew.
Retransmit ==
  \E m \in net :
    /\ m.type = "data"
    /\ Pop([type |-> "data", flag |-> keyBaseEncryption, key |-> m.key, of |-> m.of,
            retrans |-> "yes", trusted |-> m.trusted, no |-> sent + 1])

-----------------------------------------------------------------------------

\* Mutant: a repeated request is taken over again.
HandleKMRequestAgain ==
  \E m \in net :
    /\ m.type = "KMREQ"
    /\ peerSek' = [peerSek EXCEPT ![m.flag] = m.key]
    /\ peerKeyBase' = Opposite(peerKeyBase)
    /\ net' = net \cup {[type |-> "KMRSP", req |-> m.no, no |-> sent]}
    /\ UNCHANGED writer

\* Take the announced key over and switch to it; answer with the request.  A
\* request for the key already in use is refused without an answer.
HandleKMRequest ==
  \E m \in net :
    /\ m.type = "KMREQ"
    /\ m.flag # peerKeyBase
    /\ peerSek' = [peerSek EXCEPT ![m.flag] = m.key]
    /\ peerKeyBase' = Opposite(peerKeyBase)
    /\ net' = net \cup {[type |-> "KMRSP", req |-> m.no, no |-> sent]}
    /\ UNCHANGED writer

\* Mutant: the response is taken whenever it comes.
InPreAnnouncePeriodAlways == TRUE

InPreAnnouncePeriod == kmPreAnnounceCountdown < KMPreAnnounce

\* Any response will do, its contents are not looked at.
HandleKMResponse ==
  /\ \E m \in net : m.type = "KMRSP"
  /\ InPreAnnouncePeriod
  /\ kmConfirmed' = "yes"
  /\ UNCHANGED <<keyBaseEncryption, sek, kmPreAnnounceCountdown, kmRefreshCountdown,
                 sent, trusted, reader, net>>

KeyNext == Send \/ Retransmit \/ HandleKMRequest \/ HandleKMResponse

KeySpec == KeyInit /\ [][KeyNext]_keyVars

-----------------------------------------------------------------------------

(* handlePacket decrypts with the reader's key of the flag in the header.  *)
Decrypts(m) == peerSek[m.flag] = m.key

(* When the peer has confirmed the next key, it has this key: switching is *)
(* safe.  This takes 2 * KMPreAnnounce < KMRefreshRate, and answers that   *)
(* do not reach over into the next announcement.                           *)
ConfirmedKeyIsShared ==
  kmConfirmed = "yes" =>
    peerSek[Opposite(keyBaseEncryption)] = sek[Opposite(keyBaseEncryption)]

(* A packet sent for the first time under a key that the peer confirmed    *)
(* can be decrypted whenever it arrives, also after the next switch.       *)
DecryptedInTransit ==
  \A m \in net :
    (m.type = "data" /\ m.retrans = "no" /\ m.trusted = "yes") => Decrypts(m)

(* No key is ever in use at the writer for more than one period: it is     *)
(* drawn after the switch before and never drawn again while in use.       *)
KeysAreRenewed ==
  [][keyBaseEncryption' # keyBaseEncryption =>
       /\ sent' % KMRefreshRate = 0
       /\ sek'[keyBaseEncryption'] = sent' - KMRefreshRate + KMPreAnnounce]_keyVars

(* handleKMRequest refuses, without an answer, a request for the flag the  *)
(* reader is using already.  While the keys are confirmed in time this     *)
(* meets only repetitions of a request the reader has taken over: no new   *)
(* key is refused, whatever is lost, repeated or late.  (After a switch    *)
(* without a confirmation it may be: the ends agree again one switch       *)
(* later.)                                                                 *)
RefusedIsKnown ==
  trusted = "yes" =>
    \A m \in net :
      (m.type = "KMREQ" /\ m.flag = peerKeyBase) => peerSek[m.flag] = m.key

(* The header field in packet.go: "01b" indicates that data is encrypted   *)
(* with an even key, and "10b" is used for odd key encryption.  A packet   *)
(* repeated after a switch carries the flag of the new key on a payload    *)
(* encrypted with the old one.                                             *)
FlagNamesKey == \A m \in net : m.type = "data" => m.flag = m.of

=============================================================================
