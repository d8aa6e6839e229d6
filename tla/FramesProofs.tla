---------------------------- MODULE FramesProofs ----------------------------
(***************************************************************************)
(* Theorems about Frames, for every frame: Regenerates for any bytes that  *)
(* can be parsed; Delivered, and Authentic of intact frames, for any       *)
(* header, address, counter of 32 bits, FOpts, payload and join message;   *)
(* and that MAC commands reach the parser at the other end.                *)
(*                                                                         *)
(*   The receiver      any bytes: parse, then generate (RegeneratesHolds)  *)
(*   Sums and blocks   the key stream and the MIC are numbers and bytes,   *)
(*                     and a MIC depends on all bytes of the counter       *)
(*   The sender        every message that can be sent arrives              *)
(*                     (DeliveredHolds), those of the checker among them   *)
(*   MAC commands      sender to receiver, with the parser of CodecProofs  *)
(*                                                                         *)
(* ReceiverSpec, SenderSpec and CarrierSpec have the steps of Frames and   *)
(* begin with more than the frames that the checker takes from FrameInit.  *)
(***************************************************************************)
EXTENDS Frames, CodecProofs

\* The reserved bits of MHDR and of FCtrl.
LEMMA Cleared ==
  ASSUME NEW r
  PROVE  /\ Clear(r, 1, 2, 3) = [r EXCEPT ![1] = @ - ((@ \div 4) % 8) * 4]
         /\ Clear(r, 6, 6, 1) = [r EXCEPT ![6] = @ - ((@ \div 64) % 2) * 64]
<1>1. 4 = 2^2 /\ 8 = 2^3 /\ 64 = 2^6 /\ 2 = 2^1
  BY PowersOf2
<1>2. Clear(r, 1, 2, 3) = [r EXCEPT ![1] = @ - ((@ \div 2^2) % 2^3) * 2^2]
  BY Zenon DEF Clear
<1>3. Clear(r, 6, 6, 1) = [r EXCEPT ![6] = @ - ((@ \div 2^6) % 2^1) * 2^6]
  BY Zenon DEF Clear
<1> QED
  BY <1>1, <1>2, <1>3, Zenon

\* The bytes of Canonical.
MHDRByte(r) == r[1] - ((r[1] \div 4) % 8) * 4
FCtrlByte(r) == r[6] - ((r[6] \div 64) % 2) * 64
CanonicalOf(t, r) ==
  [k \in 1..Len(r) |-> IF k = 1 THEN MHDRByte(r)
                       ELSE IF k = 6 /\ t \in DownlinkTypes THEN FCtrlByte(r) ELSE r[k]]

\* What Canonical does to the bytes.
LEMMA CanonicalBytes ==
  ASSUME NEW r \in Seq(Byte), Len(r) >= 5, NEW t, t \in DownlinkTypes => Len(r) >= 12
  PROVE  Canonical(t, r) = CanonicalOf(t, r)
<1>v. PICK x, y : x = MHDRByte(r) /\ y = FCtrlByte(r)
  OBVIOUS
<1>x. x = r[1] - ((r[1] \div 4) % 8) * 4 /\ y = r[6] - ((r[6] \div 64) % 2) * 64
  BY <1>v DEF MHDRByte, FCtrlByte
<1>w. CanonicalOf(t, r) =
        [k \in 1..Len(r) |-> IF k = 1 THEN x
                             ELSE IF k = 6 /\ t \in DownlinkTypes THEN y ELSE r[k]]
  BY <1>v DEF CanonicalOf
<1>1. r = [k \in 1..Len(r) |-> r[k]] /\ 1 \in 1..Len(r) /\ Len(r) \in Nat
  OBVIOUS
<1> DEFINE b == Clear(r, 1, 2, 3)
<1>2. b = [k \in 1..Len(r) |-> IF k = 1 THEN x ELSE r[k]]
  <2>1. b = [r EXCEPT ![1] = x]
    BY <1>x, Cleared
  <2> HIDE DEF b
  <2> QED
    BY <1>1, <2>1
<1>3. CASE t \in DownlinkTypes
  <2>1. 6 \in 1..Len(r)
    BY <1>1, <1>3
  <2>2. b[6] = r[6]
    BY <1>2, <2>1
  <2>3. Canonical(t, r) = [b EXCEPT ![6] = @ - ((@ \div 64) % 2) * 64]
    <3>1. Canonical(t, r) = Clear(b, 6, 6, 1)
      BY <1>3 DEF Canonical
    <3> HIDE DEF b
    <3> QED
      BY <3>1, Cleared, Zenon
  <2> HIDE DEF b
  <2>4. Canonical(t, r) = [b EXCEPT ![6] = y]
    BY <1>x, <2>2, <2>3
  <2>5. [b EXCEPT ![6] = y] = [k \in 1..Len(r) |-> IF k = 6 THEN y ELSE b[k]]
    BY <1>2, <2>1
  <2>6. ASSUME NEW k \in 1..Len(r)
        PROVE  (IF k = 6 THEN y ELSE b[k]) =
                 IF k = 1 THEN x ELSE IF k = 6 /\ t \in DownlinkTypes THEN y ELSE r[k]
    BY <1>2, <1>3
  <2> QED
    BY <1>w, <2>4, <2>5, <2>6
<1>4. CASE t \notin DownlinkTypes
  <2>1. Canonical(t, r) = b
    BY <1>4 DEF Canonical
  <2> QED
    BY <1>w, <1>2, <1>4, <2>1
<1> QED
  BY <1>3, <1>4

\* What is put together of the header, the payload as it was and the MIC.
LEMMA CanonicalAgain ==
  ASSUME NEW r \in Seq(Byte), Len(r) >= 5, NEW b, b = SubSeq(r, 2, Len(r) - 4),
         NEW h, h = Decode(MHDR, r),
         NEW w, w \in Seq(Int), Len(w) = Len(b),
         h.mtype \notin DownlinkTypes => w = b,
         h.mtype \in DownlinkTypes => Len(b) >= 7 /\ IsBack("MACPayloadDownlink", b, w)
  PROVE  (Encode(MHDR, h) \o w) \o SubSeq(r, Len(r) - 3, Len(r)) = Canonical(h.mtype, r)
<1>1. PICK n \in Nat : n = Len(r) /\ n >= 5
  OBVIOUS
<1>2. Len(b) = n - 5 /\ \A k \in 1..(n - 5) : b[k] = r[k + 1]
  <2>1. PICK x \in Nat, y \in Nat : x = 2 /\ y = n - 4 /\ 1 <= x /\ x <= y + 1 /\ y <= n
    <3>1. 2 \in Nat /\ n - 4 \in Nat /\ 1 <= 2 /\ 2 <= (n - 4) + 1 /\ n - 4 <= n
      BY <1>1
    <3> QED
      BY <3>1, Zenon
  <2>2. Len(SubSeq(r, x, y)) = y + 1 - x /\ \A k \in 1..(y + 1 - x) : SubSeq(r, x, y)[k] = r[x - 1 + k]
    BY <1>1, <2>1, PartOf, SMTT(30)
  <2>3. y + 1 - x = n - 5 /\ \A k \in Nat : x - 1 + k = k + 1
    BY <1>1, <2>1
  <2>4. b = SubSeq(r, x, y)
    BY <1>1, <2>1
  <2> QED
    BY <2>2, <2>3, <2>4
<1>3. PICK x \in Int : x = r[1] - ((r[1] \div 4) % 8) * 4 /\ Encode(MHDR, h) = <<x>>
  <2>1. r[1] \in Byte
    BY <1>1
  <2> QED
    BY <2>1, MHDRBack
<1>4. PICK y : y = r[6] - ((r[6] \div 64) % 2) * 64
  OBVIOUS
<1>5. (<<x>> \o w) \o SubSeq(r, n - 3, n) =
        [k \in 1..n |-> IF k = 1 THEN x ELSE IF k <= n - 4 THEN w[k - 1] ELSE r[k]]
  <2>1. Len(w) = Len(r) - 5 /\ Len(r) >= 5
    BY <1>1, <1>2
  <2>2. (<<x>> \o w) \o SubSeq(r, Len(r) - 3, Len(r)) =
           [k \in 1..Len(r) |->
              IF k = 1 THEN x ELSE IF k <= Len(r) - 4 THEN w[k - 1] ELSE r[k]]
    BY <2>1, PutTogether
  <2> QED
    BY <1>1, <2>2
<1>6. Canonical(h.mtype, r) =
        [k \in 1..n |-> IF k = 1 THEN x
                        ELSE IF k = 6 /\ h.mtype \in DownlinkTypes THEN y ELSE r[k]]
  <2>1. h.mtype \in DownlinkTypes => Len(r) >= 12
    BY <1>1, <1>2
  <2>2. Canonical(h.mtype, r) = CanonicalOf(h.mtype, r)
    BY <1>1, <2>1, CanonicalBytes
  <2>3. x = MHDRByte(r) /\ y = FCtrlByte(r)
    BY <1>3, <1>4 DEF MHDRByte, FCtrlByte
  <2> QED
    BY <1>1, <2>2, <2>3 DEF CanonicalOf
<1>7. ASSUME NEW k \in 1..n, k # 1, k <= n - 4
      PROVE  w[k - 1] = IF k = 6 /\ h.mtype \in DownlinkTypes THEN y ELSE r[k]
  <2>1. PICK j \in 1..(n - 5) : j = k - 1 /\ k = j + 1
    <3>1. k - 1 \in 1..(n - 5) /\ k = (k - 1) + 1
      BY <1>1, <1>7
    <3> QED
      BY <3>1
  <2>2. b[j] = r[k]
    BY <1>2, <2>1
  <2>3. CASE h.mtype \notin DownlinkTypes
    BY <2>1, <2>2, <2>3
  <2>4. CASE h.mtype \in DownlinkTypes /\ k # 6
    <3>1. j # 5 /\ j \in 1..Len(b)
      BY <1>2, <2>1, <2>4
    <3> QED
      BY <2>1, <2>2, <2>4, <3>1 DEF IsBack
  <2>5. CASE h.mtype \in DownlinkTypes /\ k = 6
    <3>1. j = 5
      BY <2>1, <2>5
    <3>2. w[5] = b[5] - ((b[5] \div 64) % 2) * 64
      BY <2>5 DEF IsBack
    <3>3. b[5] = r[6]
      BY <2>2, <2>5, <3>1
    <3>4. w[5] = y
      BY <1>4, <3>2, <3>3
    <3> QED
      BY <2>1, <2>5, <3>1, <3>4
  <2> QED
    BY <2>3, <2>4, <2>5
<1>8. ASSUME NEW k \in 1..n, ~(k <= n - 4)
      PROVE  r[k] = IF k = 6 /\ h.mtype \in DownlinkTypes THEN y ELSE r[k]
  BY <1>1, <1>2, <1>8
<1> QED
  <2>1. ASSUME NEW k \in 1..n
        PROVE  (IF k = 1 THEN x ELSE IF k <= n - 4 THEN w[k - 1] ELSE r[k]) =
                 IF k = 1 THEN x ELSE IF k = 6 /\ h.mtype \in DownlinkTypes THEN y ELSE r[k]
    BY <1>7, <1>8
  <2>2. (<<x>> \o w) \o SubSeq(r, n - 3, n) = Canonical(h.mtype, r)
    BY <1>5, <1>6, <2>1
  <2> QED
    BY <1>1, <1>3, <2>2

\* No type of a frame is of two kinds.
LEMMA TypesApart ==
  /\ UplinkTypes \cap DownlinkTypes = {}
  /\ JoinRequestType \notin UplinkTypes \cup DownlinkTypes
  /\ ProprietaryType \notin UplinkTypes \cup DownlinkTypes /\ ProprietaryType # JoinRequestType
BY DEF UplinkTypes, DownlinkTypes, JoinRequestType, ProprietaryType

\* The payload of a parsed frame is generated as it was, but for a bit.
LEMMA PayloadBack ==
  ASSUME NEW t, NEW b \in Seq(Byte), NEW m \in parsePayload(t, b)
  PROVE  \E w : /\ generatePayload(m) = {w}
                /\ w \in Seq(Int) /\ Len(w) = Len(b)
                /\ t \notin DownlinkTypes => w = b
                /\ t \in DownlinkTypes => Len(b) >= 7 /\ IsBack("MACPayloadDownlink", b, w)
<1>0. b \in Seq(Int)
  BY BytesAreInts
<1>1. CASE t \in UplinkTypes
  <2>0. "MACPayloadUplink" \in DataClasses
    BY DEF DataClasses
  <2>1. m \in parseMACPayload("MACPayloadUplink", b) /\ "MACPayloadUplink" \in DataClasses
    BY <1>1, <2>0, TypesApart DEF parsePayload
  <2>2. m.class = "MACPayloadUplink"
    BY <2>1, Divided
  <2>3. PICK w : IsBack("MACPayloadUplink", b, w) /\ generateMACPayload(m) = {w}
    BY <2>1, MACPayloadBack
  <2>4. generatePayload(m) = {w}
    BY <2>2, <2>3 DEF generatePayload
  <2>5. w \in Seq(Int) /\ Len(w) = Len(b) /\ \A k \in 1..Len(b) : w[k] = b[k]
    BY <2>3 DEF IsBack
  <2>6. w = b
    BY <1>0, <2>5, SameBytes
  <2> QED
    BY <1>1, <2>4, <2>5, <2>6, TypesApart
<1>2. CASE t \in DownlinkTypes
  <2>1. m \in parseMACPayload("MACPayloadDownlink", b) /\ "MACPayloadDownlink" \in DataClasses
    BY <1>2, TypesApart DEF parsePayload, DataClasses
  <2>2. m.class = "MACPayloadDownlink" /\ Len(b) >= 7
    BY <2>1, Divided
  <2>3. PICK w : IsBack("MACPayloadDownlink", b, w) /\ generateMACPayload(m) = {w}
    BY <2>1, MACPayloadBack
  <2>4. generatePayload(m) = {w}
    BY <2>2, <2>3 DEF generatePayload
  <2>5. w \in Seq(Int) /\ Len(w) = Len(b)
    BY <2>3 DEF IsBack
  <2> QED
    BY <1>2, <2>2, <2>3, <2>4, <2>5
<1>3. CASE t = JoinRequestType
  <2>1. m \in parseJoinRequest(b)
    BY <1>3, TypesApart DEF parsePayload
  <2>2. Len(b) = 18 /\ m = JoinRequest(Decode(JoinRequestFields, b))
    BY <2>1 DEF parseJoinRequest
  <2>3. m.class = "JoinRequest" /\ m.fields = Decode(JoinRequestFields, b)
    BY <2>2 DEF JoinRequest
  <2>4. generatePayload(m) = {b}
    BY <2>2, <2>3, JoinRequestBack DEF generatePayload, generateJoinRequest
  <2> QED
    BY <1>0, <1>3, <2>4, TypesApart
<1>4. CASE t = ProprietaryType
  <2>1. m = Proprietary(b)
    BY <1>4, TypesApart DEF parsePayload
  <2>2. generatePayload(m) = {b}
    BY <2>1 DEF generatePayload, Proprietary
  <2> QED
    BY <1>0, <1>4, <2>2, TypesApart
<1>5. CASE t \notin UplinkTypes \cup DownlinkTypes \cup {JoinRequestType, ProprietaryType}
  BY <1>5 DEF parsePayload
<1> QED
  BY <1>1, <1>2, <1>3, <1>4, <1>5

\* The parts of a frame that has been parsed.
LEMMA ParsedFrame ==
  ASSUME NEW r \in Seq(Byte), NEW p \in parsePHYPayload(r)
  PROVE  /\ Len(r) >= 5 /\ p.mhdr = Decode(MHDR, r)
         /\ p.payload \in parsePayload(p.mhdr.mtype, SubSeq(r, 2, Len(r) - 4))
         /\ p.mic = SubSeq(r, Len(r) - 3, Len(r))
         /\ p = PHYPayload(p.mhdr, p.payload, p.mic)
         /\ SubSeq(r, 2, Len(r) - 4) \in Seq(Byte) /\ Len(SubSeq(r, 2, Len(r) - 4)) = Len(r) - 5
<1>1. Len(r) >= 5 /\ Len(r) \in Nat
  BY DEF parsePHYPayload
<1>2. PICK m \in parsePayload(Decode(MHDR, r).mtype, SubSeq(r, 2, Len(r) - 4)) :
        p = PHYPayload(Decode(MHDR, r), m, SubSeq(r, Len(r) - 3, Len(r)))
  BY <1>1 DEF parsePHYPayload
<1>3. /\ p.mhdr = Decode(MHDR, r) /\ p.payload = m /\ p.mic = SubSeq(r, Len(r) - 3, Len(r))
  BY <1>2 DEF PHYPayload
<1>4. SubSeq(r, 2, Len(r) - 4) \in Seq(Byte) /\ Len(SubSeq(r, 2, Len(r) - 4)) = Len(r) - 5
  <2>1. PICK x \in Nat, y \in Nat : x = 2 /\ y = Len(r) - 4 /\ 1 <= x /\ x <= y + 1 /\ y <= Len(r)
    <3>1. 2 \in Nat /\ Len(r) - 4 \in Nat /\ 1 <= 2 /\ 2 <= (Len(r) - 4) + 1 /\ Len(r) - 4 <= Len(r)
      BY <1>1
    <3> QED
      BY <3>1, Zenon
  <2>2. SubSeq(r, x, y) \in Seq(Byte) /\ Len(SubSeq(r, x, y)) = y + 1 - x
    BY <2>1, PartOf
  <2>3. y + 1 - x = Len(r) - 5
    BY <1>1, <2>1
  <2> QED
    BY <2>1, <2>2, <2>3
<1> QED
  BY <1>1, <1>2, <1>3, <1>4

\* What was parsed is generated again, and only the reserved bits are lost.
LEMMA FrameBack ==
  ASSUME NEW r \in Seq(Byte), NEW p \in parsePHYPayload(r)
  PROVE  generatePHYPayload(p) = {Canonical(p.mhdr.mtype, r)}
<1> DEFINE b == SubSeq(r, 2, Len(r) - 4)
<1>1. /\ Len(r) >= 5 /\ p.mhdr = Decode(MHDR, r) /\ p.payload \in parsePayload(p.mhdr.mtype, b)
      /\ p.mic = SubSeq(r, Len(r) - 3, Len(r)) /\ b \in Seq(Byte)
  BY ParsedFrame
<1>b. b = SubSeq(r, 2, Len(r) - 4)
  OBVIOUS
<1> HIDE DEF b
<1>2. PICK w : /\ generatePayload(p.payload) = {w}
               /\ w \in Seq(Int) /\ Len(w) = Len(b)
               /\ p.mhdr.mtype \notin DownlinkTypes => w = b
               /\ p.mhdr.mtype \in DownlinkTypes =>
                    Len(b) >= 7 /\ IsBack("MACPayloadDownlink", b, w)
  BY <1>1, PayloadBack
<1>3. (Encode(MHDR, p.mhdr) \o w) \o SubSeq(r, Len(r) - 3, Len(r)) = Canonical(p.mhdr.mtype, r)
  BY <1>1, <1>b, <1>2, CanonicalAgain, ZenonT(40)
<1>4. generatePHYPayload(p) = {(Encode(MHDR, p.mhdr) \o w) \o p.mic}
  BY <1>2 DEF generatePHYPayload
<1> QED
  BY <1>1, <1>3, <1>4

\* A data frame: its parts, and the counter among the values of its FHDR.
HasCounter(p) ==
  /\ p = PHYPayload(p.mhdr, p.payload, p.mic)
  /\ p.payload = MACPayload(p.payload.class, p.payload.fhdr, p.payload.f_opts,
                            p.payload.f_port, p.payload.frm_payload)
  /\ p.payload.fhdr = [x \in DOMAIN p.payload.fhdr |-> p.payload.fhdr[x]]
  /\ "f_cnt" \in DOMAIN p.payload.fhdr /\ p.payload.fhdr["f_cnt"] \in Nat

\* A frame with the upper half u of its counter set.
Counted(p, u) == [p EXCEPT !.payload.fhdr.f_cnt = (@ % 65536) + 65536 * u]

Upper(m) == m.payload.fhdr.f_cnt \div 65536

\* The values of an FHDR that is decoded.
LEMMA FHDRValues ==
  ASSUME NEW class \in DataClasses, NEW b \in Seq(Byte), Len(b) >= 7,
         NEW d, d = Decode(FHDR(class), b)
  PROVE  d = [x \in DOMAIN d |-> d[x]] /\ "f_cnt" \in DOMAIN d
<1>1. b[6] \in Int /\ b[7] \in Int
  BY BytesAreInts
<1>2. CASE class = "MACPayloadUplink"
  <2>1. d = [x \in {"dev_addr", "f_cnt", "adr", "adr_ack_req", "ack", "class_b", "f_opts_len"} |-> d[x]]
    BY <1>1, <1>2, FHDRUplinkDecoded
  <2> QED
    BY <2>1
<1>3. CASE class = "MACPayloadDownlink"
  <2>1. d = [x \in {"dev_addr", "f_cnt", "adr", "ack", "f_pending", "f_opts_len"} |-> d[x]]
    BY <1>1, <1>3, FHDRDownlinkDecoded
  <2> QED
    BY <2>1
<1> QED
  BY <1>2, <1>3 DEF DataClasses

\* A data frame that has been parsed, with the two bytes of its counter.
LEMMA ParsedData ==
  ASSUME NEW r \in Seq(Byte), NEW p \in parsePHYPayload(r), IsData(p)
  PROVE  /\ HasCounter(p) /\ p.payload.fhdr["f_cnt"] < 65536
         /\ p.mhdr.mtype \in DownlinkTypes <=> p.payload.class = "MACPayloadDownlink"
<1> DEFINE b == SubSeq(r, 2, Len(r) - 4)
           m == p.payload
<1>1. p.payload \in parsePayload(p.mhdr.mtype, b) /\ b \in Seq(Byte) /\ p = PHYPayload(p.mhdr, p.payload, p.mic)
  BY ParsedFrame
<1> HIDE DEF b
<1>2. m.class \in DataClasses
  BY DEF IsData, DataClasses
<1>0. DataClasses = {"MACPayloadUplink", "MACPayloadDownlink"}
  BY DEF DataClasses
<1>3. \/ p.mhdr.mtype \in UplinkTypes /\ m \in parseMACPayload("MACPayloadUplink", b)
      \/ p.mhdr.mtype \in DownlinkTypes /\ m \in parseMACPayload("MACPayloadDownlink", b)
  <2>1. ASSUME m \in parseJoinRequest(b)
        PROVE  FALSE
    <3>1. m.class = "JoinRequest"
      BY <2>1 DEF parseJoinRequest, JoinRequest
    <3> QED
      BY <1>0, <1>2, <3>1
  <2>2. ASSUME m = Proprietary(b)
        PROVE  FALSE
    BY <1>0, <1>2, <2>2 DEF Proprietary
  <2> QED
    BY <1>1, <2>1, <2>2, TypesApart DEF parsePayload
<1>4. PICK class \in DataClasses : m \in parseMACPayload(class, b) /\
        (class = "MACPayloadDownlink" <=> p.mhdr.mtype \in DownlinkTypes)
  BY <1>0, <1>3, TypesApart
<1>5. /\ Len(b) >= 7 /\ m.class = class /\ m.fhdr = Decode(FHDR(class), b)
      /\ m = MACPayload(class, m.fhdr, m.f_opts, m.f_port, m.frm_payload)
  BY <1>1, <1>4, Divided
<1>6. m.fhdr = [x \in DOMAIN m.fhdr |-> m.fhdr[x]] /\ "f_cnt" \in DOMAIN m.fhdr
  BY <1>1, <1>5, FHDRValues
<1>7. m.fhdr["f_cnt"] \in Nat /\ m.fhdr["f_cnt"] < 65536
  BY <1>1, <1>5, CounterIsShort
<1> QED
  BY <1>1, <1>4, <1>5, <1>6, <1>7 DEF HasCounter

\* What setting the upper half changes, and what it does not.
CountedFrom(q, p, u) ==
  /\ HasCounter(q)
  /\ q.mhdr = p.mhdr /\ q.mic = p.mic /\ q.payload.class = p.payload.class
  /\ q.payload.f_opts = p.payload.f_opts /\ q.payload.f_port = p.payload.f_port
  /\ q.payload.frm_payload = p.payload.frm_payload
  /\ q.payload.fhdr["f_cnt"] = (p.payload.fhdr["f_cnt"] % 65536) + 65536 * u
  /\ DOMAIN q.payload.fhdr = DOMAIN p.payload.fhdr
  /\ \A x \in DOMAIN p.payload.fhdr : x # "f_cnt" => q.payload.fhdr[x] = p.payload.fhdr[x]

\* Setting the counter changes the counter.
LEMMA Counting ==
  ASSUME NEW p, HasCounter(p), NEW u \in Nat, NEW q, q = Counted(p, u)
  PROVE  CountedFrom(q, p, u)
<1> DEFINE m == p.payload
           h == m.fhdr
<1>0. PICK c \in Nat : c = (h["f_cnt"] % 65536) + 65536 * u
  <2>1. PICK v \in Nat : v = h["f_cnt"]
    BY DEF HasCounter
  <2>2. (v % 65536) + 65536 * u \in Nat
    OBVIOUS
  <2> QED
    BY <2>1, <2>2
<1>1. PICK g : g = [h EXCEPT !["f_cnt"] = c]
  OBVIOUS
<1>2. /\ DOMAIN g = DOMAIN h /\ g = [x \in DOMAIN g |-> g[x]] /\ g["f_cnt"] = c
      /\ \A x \in DOMAIN h : x # "f_cnt" => g[x] = h[x]
  BY <1>1 DEF HasCounter
<1>3. PICK n : n = [m EXCEPT !.fhdr = g]
  OBVIOUS
<1>4. n = MACPayload(m.class, g, m.f_opts, m.f_port, m.frm_payload)
  BY <1>3 DEF HasCounter, MACPayload
<1>5. q = [p EXCEPT !.payload = n]
  BY <1>0, <1>1, <1>3 DEF Counted
<1>6. q = PHYPayload(p.mhdr, n, p.mic)
  BY <1>5 DEF HasCounter, PHYPayload
<1>7. q.mhdr = p.mhdr /\ q.payload = n /\ q.mic = p.mic
  BY <1>6 DEF PHYPayload
<1>8. /\ n.class = m.class /\ n.fhdr = g /\ n.f_opts = m.f_opts /\ n.f_port = m.f_port
      /\ n.frm_payload = m.frm_payload
  BY <1>4 DEF MACPayload
<1> QED
  BY <1>0, <1>2, <1>4, <1>6, <1>7, <1>8, SMTT(30) DEF HasCounter, CountedFrom

\* Setting it to what it is, is no change.
LEMMA CountedAgain ==
  ASSUME NEW p, HasCounter(p), NEW u \in Nat
  PROVE  /\ Counted(Counted(p, u), u) = Counted(p, u)
         /\ u = 0 /\ p.payload.fhdr["f_cnt"] < 65536 => Counted(p, u) = p
<1>1. ASSUME NEW q, HasCounter(q), (q.payload.fhdr["f_cnt"] % 65536) + 65536 * u = q.payload.fhdr["f_cnt"]
      PROVE  Counted(q, u) = q
  <2> DEFINE m == q.payload
             h == m.fhdr
  <2>1. [h EXCEPT !["f_cnt"] = h["f_cnt"]] = h
    BY <1>1 DEF HasCounter
  <2>2. [m EXCEPT !.fhdr = h] = m
    BY <1>1 DEF HasCounter, MACPayload
  <2>3. [q EXCEPT !.payload = m] = q
    BY <1>1 DEF HasCounter, PHYPayload
  <2>4. Counted(q, u) = [q EXCEPT !.payload = [m EXCEPT !.fhdr = [h EXCEPT !["f_cnt"] = h["f_cnt"]]]]
    BY <1>1 DEF Counted
  <2> QED
    BY <2>1, <2>2, <2>3, <2>4
<1>2. PICK q : q = Counted(p, u)
  OBVIOUS
<1>3. HasCounter(q) /\ q.payload.fhdr["f_cnt"] = (p.payload.fhdr["f_cnt"] % 65536) + 65536 * u
  <2>1. CountedFrom(q, p, u)
    BY <1>2, Counting, Zenon
  <2> QED
    BY <2>1 DEF CountedFrom
<1>4. p.payload.fhdr["f_cnt"] \in Nat
  BY DEF HasCounter
<1>5. (q.payload.fhdr["f_cnt"] % 65536) + 65536 * u = q.payload.fhdr["f_cnt"]
  BY <1>3, <1>4
<1>6. u = 0 /\ p.payload.fhdr["f_cnt"] < 65536 =>
        (p.payload.fhdr["f_cnt"] % 65536) + 65536 * u = p.payload.fhdr["f_cnt"]
  BY <1>4
<1> QED
  BY <1>1, <1>2, <1>3, <1>5, <1>6

\* The receiver, to which any bytes come.
ReceiverInit ==
  /\ raw \in Seq(Byte)
  /\ IsData(intent) => intent.payload.fhdr.f_cnt \in Nat
  /\ phy = <<>> /\ stage = "arrived"

ReceiverSpec == ReceiverInit /\ [][FrameNext]_frameVars

\* What has been parsed is a frame of the bytes that arrived, with the upper
\* half of its counter set or not.
IsParsed(p) ==
  \/ p \in parsePHYPayload(raw)
  \/ /\ IsData(intent)
     /\ \E q \in parsePHYPayload(raw) : IsData(q) /\ p = Counted(q, Upper(intent))

ReceiverInv ==
  /\ raw \in Seq(Byte)
  /\ IsData(intent) => intent.payload.fhdr.f_cnt \in Nat
  /\ stage \in {"parsed", "verified", "extracted"} => IsParsed(phy)

\* No step of the receiver loses what it has parsed.
LEMMA ReceiverStep == ReceiverInv /\ [FrameNext]_frameVars => ReceiverInv'
<1> SUFFICES ASSUME ReceiverInv, [FrameNext]_frameVars
             PROVE  ReceiverInv'
  OBVIOUS
<1> USE DEF ReceiverInv
<1>1. CASE ParsePHYPayload
  BY <1>1 DEF ParsePHYPayload, IsParsed
<1>2. CASE ParseJoinAccept
  BY <1>2 DEF ParseJoinAccept
<1>3. CASE ParseError
  BY <1>3 DEF ParseError
<1>4. CASE SetCounter
  <2>1. /\ IsParsed(phy) /\ IsData(phy) /\ IsData(intent)
        /\ raw' = raw /\ intent' = intent /\ stage' = stage
        /\ phy' = Counted(phy, Upper(intent))
    BY <1>4 DEF SetCounter, Counted, Upper
  <2>2. PICK u \in Nat : u = Upper(intent)
    <3>1. intent.payload.fhdr.f_cnt \in Nat
      BY <2>1
    <3>2. Upper(intent) \in Nat
      BY <3>1 DEF Upper
    <3> QED
      BY <3>2
  <2>3. CASE phy \in parsePHYPayload(raw)
    BY <2>1, <2>2, <2>3 DEF IsParsed
  <2>4. CASE \E q \in parsePHYPayload(raw) : IsData(q) /\ phy = Counted(q, u)
    <3>1. PICK q \in parsePHYPayload(raw) : IsData(q) /\ phy = Counted(q, u)
      BY <2>4
    <3>2. HasCounter(q)
      BY <3>1, ParsedData
    <3>3. phy' = Counted(q, u)
      BY <2>1, <2>2, <3>1, <3>2, CountedAgain
    <3> QED
      BY <2>1, <2>2, <3>1, <3>3 DEF IsParsed
  <2> QED
    BY <2>1, <2>2, <2>3, <2>4 DEF IsParsed
<1>5. CASE Verify
  BY <1>5 DEF Verify, IsParsed
<1>6. CASE Extract
  BY <1>6 DEF Extract, IsParsed
<1>7. CASE ParseCommands
  BY <1>7 DEF ParseCommands, IsParsed
<1>8. CASE UNCHANGED frameVars
  BY <1>8 DEF frameVars, IsParsed
<1> QED
  BY <1>1, <1>2, <1>3, <1>4, <1>5, <1>6, <1>7, <1>8 DEF FrameNext

\* It is what it parsed at every step.
LEMMA ReceiverAlways == ReceiverSpec => []ReceiverInv
<1>1. ReceiverInit => ReceiverInv
  BY DEF ReceiverInit, ReceiverInv
<1> QED
  BY <1>1, ReceiverStep, PTL DEF ReceiverSpec

\* What is parsed is generated again.
LEMMA ReceiverRegenerates == ReceiverInv => Regenerates
<1>1. ASSUME ReceiverInv, stage = "parsed", IsData(phy) => phy.payload.fhdr.f_cnt < 65536
      PROVE  generatePHYPayload(phy) = {Canonical(phy.mhdr.mtype, raw)}
  <2>1. CASE phy \in parsePHYPayload(raw)
    BY <1>1, <2>1, FrameBack DEF ReceiverInv
  <2>2. CASE IsData(intent) /\ \E q \in parsePHYPayload(raw) : IsData(q) /\ phy = Counted(q, Upper(intent))
    <3>1. PICK q \in parsePHYPayload(raw) : IsData(q) /\ phy = Counted(q, Upper(intent))
      BY <2>2
    <3>2. PICK u \in Nat : u = Upper(intent)
      <4>1. intent.payload.fhdr.f_cnt \in Nat
        BY <1>1, <2>2 DEF ReceiverInv
      <4>2. Upper(intent) \in Nat
        BY <4>1 DEF Upper
      <4> QED
        BY <4>2
    <3>3. HasCounter(q) /\ q.payload.fhdr["f_cnt"] < 65536
      BY <1>1, <3>1, ParsedData DEF ReceiverInv
    <3>4. CountedFrom(phy, q, u)
      BY <3>1, <3>2, <3>3, Counting
    <3>5. u = 0
      <4>1. PICK c \in Nat : c = q.payload.fhdr["f_cnt"] /\ c < 65536
        BY <3>3 DEF HasCounter
      <4>2. IsData(phy) /\ phy.payload.fhdr["f_cnt"] = (c % 65536) + 65536 * u
        BY <3>1, <3>4, <4>1 DEF CountedFrom, IsData
      <4>3. (c % 65536) + 65536 * u < 65536
        BY <1>1, <4>2
      <4> QED
        BY <4>1, <4>3
    <3>6. phy = q
      BY <3>1, <3>2, <3>3, <3>5, CountedAgain
    <3> QED
      BY <1>1, <3>1, <3>6, FrameBack DEF ReceiverInv
  <2> QED
    BY <1>1, <2>1, <2>2 DEF ReceiverInv, IsParsed
<1> QED
  BY <1>1 DEF Regenerates

\* RegeneratesHolds: PHYPayload.generate gives back the bytes that
\* PHYPayload.parse was given, but for the reserved bits (message.py:116-142):
\* for every byte string that can be parsed, of any length, from anyone.
THEOREM RegeneratesHolds == ReceiverSpec => []Regenerates
BY ReceiverRegenerates, ReceiverAlways, PTL

-----------------------------------------------------------------------------
(* The sums of the cipher and of the MIC.                                  *)

\* The checksum of a block is such a sum.
LEMMA ChecksumSum ==
  ASSUME NEW b, NEW S, S = 1..16, \A i \in S : b[i] \in Int, NEW v, v = [i \in S |-> i * b[i]]
  PROVE  \E H : Summed(S, v, H) /\ Checksum(b) = H[S]
<1> DEFINE Is(G) == G = [s \in SUBSET S |-> IF s = {} THEN 0
                           ELSE First(s) * b[First(s)] + G[s \ {First(s)}]]
<1>0. v \in [S -> Int]
  OBVIOUS
<1>s. IsFiniteSet(S)
  <2>1. PICK x \in Int, y \in Int : x = 1 /\ y = 16 /\ S = x..y
    OBVIOUS
  <2> QED
    BY <2>1, FS_Interval
<1>1. PICK G \in [SUBSET S -> Int] : Adds(G, v, SUBSET S)
  BY <1>0, <1>s, SumsExist
<1>f. \A s \in SUBSET S : s # {} => First(s) \in S
  BY DEF First
<1>2. Is(G)
  BY <1>1, <1>f DEF Adds
<1>3. PICK H : H = CHOOSE K : Is(K)
  OBVIOUS
<1>4. Is(H)
  <2> HIDE DEF Is
  <2> QED
    BY <1>2, <1>3, Zenon
<1>5. H = [s \in SUBSET S |-> IF s = {} THEN 0 ELSE First(s) * b[First(s)] + H[s \ {First(s)}]]
  BY <1>4, Zenon
<1>6. Checksum(b) = H[S]
  BY <1>3 DEF Checksum, MapThenSumSet, MapThenFoldSet, First
<1> HIDE DEF Is
<1>7. Summed(S, v, H)
  BY <1>0, <1>s, <1>5, <1>f, ZenonT(60) DEF Adds, Summed
<1> QED
  BY <1>6, <1>7

\* The four bytes for two sums.
MICOf(x, y) ==
  <<(x % 65521) % 256, (x % 65521) \div 256, (y % 65521) % 256, (y % 65521) \div 256>>

\* What they are the sums of.
Weighs(key, t, b, S, v, w) ==
  /\ b \in Seq(Int) /\ b = key \o t /\ S = DOMAIN b
  /\ v = [i \in S |-> i * (b[i] + 1)] /\ w = [i \in S |-> (i * i) * (b[i] + 1)]

\* And so are what the two numbers of a MIC are made of.
LEMMA MICSums ==
  ASSUME NEW key, NEW t, NEW b, NEW S, NEW v, NEW w, Weighs(key, t, b, S, v, w)
  PROVE  \E H, J : /\ Summed(S, v, H) /\ Summed(S, w, J)
                   /\ generate_mic(key, t) = MICOf(H[S], J[S])
<1> DEFINE FirstIs(G) == G = [s \in SUBSET S |-> IF s = {} THEN 0
                           ELSE First(s) * (b[First(s)] + 1) + G[s \ {First(s)}]]
           SecondIs(G) == G = [s \in SUBSET S |-> IF s = {} THEN 0
                           ELSE (First(s) * First(s)) * (b[First(s)] + 1) + G[s \ {First(s)}]]
<1>0. b \in Seq(Int) /\ b = key \o t /\ S = DOMAIN b /\ v = [i \in S |-> i * (b[i] + 1)] /\ w = [i \in S |-> (i * i) * (b[i] + 1)]
  BY DEF Weighs
<1>s. IsFiniteSet(S)
  <2>1. S = 1..Len(b) /\ Len(b) \in Nat
    BY <1>0
  <2> QED
    BY <2>1, FS_Interval
<1>f. \A s \in SUBSET S : s # {} => First(s) \in S
  BY DEF First
<1>a0. v \in [S -> Int]
  BY <1>0
<1>a1. PICK G \in [SUBSET S -> Int] : Adds(G, v, SUBSET S)
  BY <1>a0, <1>s, SumsExist
<1>a2. FirstIs(G)
  BY <1>0, <1>a1, <1>f DEF Adds
<1>a3. PICK H : H = CHOOSE K : FirstIs(K)
  OBVIOUS
<1>a4. FirstIs(H)
  <2> HIDE DEF FirstIs
  <2> QED
    BY <1>a2, <1>a3, Zenon
<1>a5. H = [s \in SUBSET S |-> IF s = {} THEN 0
             ELSE First(s) * (b[First(s)] + 1) + H[s \ {First(s)}]]
  BY <1>a4, Zenon
<1>a6. Summed(S, v, H)
  <2> HIDE DEF FirstIs
  <2> QED
    BY <1>0, <1>a0, <1>s, <1>a5, <1>f, ZenonT(60) DEF Adds, Summed
<1>b0. w \in [S -> Int]
  BY <1>0
<1>b1. PICK L \in [SUBSET S -> Int] : Adds(L, w, SUBSET S)
  BY <1>b0, <1>s, SumsExist
<1>b2. SecondIs(L)
  BY <1>0, <1>b1, <1>f DEF Adds
<1>b3. PICK J : J = CHOOSE K : SecondIs(K)
  OBVIOUS
<1>b4. SecondIs(J)
  <2> HIDE DEF SecondIs
  <2> QED
    BY <1>b2, <1>b3, Zenon
<1>b5. J = [s \in SUBSET S |-> IF s = {} THEN 0
             ELSE (First(s) * First(s)) * (b[First(s)] + 1) + J[s \ {First(s)}]]
  BY <1>b4, Zenon
<1>b6. Summed(S, w, J)
  <2> HIDE DEF SecondIs
  <2> QED
    BY <1>0, <1>b0, <1>s, <1>b5, <1>f, ZenonT(60) DEF Adds, Summed
<1>1. generate_mic(key, t) = MICOf(H[S], J[S])
  BY <1>0, <1>a3, <1>b3 DEF MICOf, generate_mic, Weighted, MapThenSumSet, MapThenFoldSet, First
<1> HIDE DEF FirstIs, SecondIs
<1> QED
  BY <1>1, <1>a6, <1>b6, Zenon

\* The two numbers are told from the bytes.
LEMMA MICParts ==
  ASSUME NEW x \in Int, NEW y \in Int
  PROVE  /\ MICOf(x, y) \in Seq(Byte) /\ Len(MICOf(x, y)) = 4
         /\ \A i \in Int, j \in Int : MICOf(x, y) = MICOf(i, j) => x % 65521 = i % 65521
<1>1. ASSUME NEW z \in Int
      PROVE  (z % 65521) % 256 \in Byte /\ (z % 65521) \div 256 \in Byte /\ z % 65521 \in Nat
  BY DEF Byte
<1>2. ASSUME NEW m \in Nat, NEW n \in Nat, m % 256 = n % 256, m \div 256 = n \div 256
      PROVE  m = n
  BY <1>2
<1>3. ASSUME NEW i \in Int, NEW j \in Int, MICOf(x, y) = MICOf(i, j)
      PROVE  x % 65521 = i % 65521
  <2>1. (x % 65521) % 256 = (i % 65521) % 256 /\ (x % 65521) \div 256 = (i % 65521) \div 256
    BY <1>3 DEF MICOf
  <2>2. x % 65521 \in Nat /\ i % 65521 \in Nat
    OBVIOUS
  <2> QED
    BY <1>2, <2>1, <2>2
<1>4. MICOf(x, y) \in Seq(Byte) /\ Len(MICOf(x, y)) = 4
  BY <1>1 DEF MICOf
<1> QED
  BY <1>3, <1>4

\* A MIC has four bytes.
LEMMA MICBytes ==
  ASSUME NEW key \in Seq(Int), NEW t \in Seq(Int)
  PROVE  generate_mic(key, t) \in Seq(Byte) /\ Len(generate_mic(key, t)) = 4
<1>1. PICK b \in Seq(Int) : b = key \o t
  <2>1. key \o t \in Seq(Int)
    BY Concatenated DEF Joined
  <2> QED
    BY <2>1, Zenon
<1>2. PICK S, v, w : Weighs(key, t, b, S, v, w)
  BY <1>1 DEF Weighs
<1>4. PICK H, J : Summed(S, v, H) /\ Summed(S, w, J) /\ generate_mic(key, t) = MICOf(H[S], J[S])
  BY <1>2, MICSums
<1>5. Additive(S, v, H) /\ Additive(S, w, J)
  BY <1>4, AnyFirst
<1>6. H[S] \in Int /\ J[S] \in Int
  BY <1>5 DEF Additive
<1> QED
  BY <1>4, <1>6, MICParts

\* A block of the cipher.
IsBlock(b) == b \in Seq(Byte) /\ Len(b) = 16

\* A checksum is a number.
LEMMA ChecksumInt ==
  ASSUME NEW b, \A i \in 1..16 : b[i] \in Int
  PROVE  Checksum(b) \in Int
<1>1. PICK S : S = 1..16
  OBVIOUS
<1>2. PICK v : v = [i \in S |-> i * b[i]]
  OBVIOUS
<1>3. PICK H : Summed(S, v, H) /\ Checksum(b) = H[S]
  BY <1>1, <1>2, ChecksumSum
<1>4. Additive(S, v, H)
  BY <1>3, AnyFirst
<1> QED
  BY <1>3, <1>4 DEF Additive

\* So is a weight.
LEMMA MixInt ==
  ASSUME NEW i \in Nat
  PROVE  Mix(i) \in Int
BY DEF Mix

\* The bytes of a block.
LEMMA BlockBytes ==
  ASSUME NEW b, IsBlock(b)
  PROVE  \A i \in 1..16 : b[i] \in Int /\ b[i] \in Byte
<1>0. b \in Seq(Byte)
  BY DEF IsBlock
<1>1. \A i \in 1..Len(b) : b[i] \in Byte
  BY <1>0, ElementOfSeq
<1>2. Len(b) = 16
  BY DEF IsBlock
<1> QED
  BY <1>1, <1>2, BytesAreInts

\* What the cipher makes of a block is a block.
LEMMA CipherBlocks ==
  ASSUME NEW key, IsBlock(key), NEW b, IsBlock(b)
  PROVE  IsBlock(EncryptBlock(key, b)) /\ IsBlock(DecryptBlock(key, b))
<1>1. \A i \in 1..16 : b[i] \in Int /\ key[i] \in Int /\ Mix(i) \in Int
  BY BlockBytes, MixInt
<1>2. PICK x \in Int, y \in Int : x = Checksum(b) /\ y = Checksum(key)
  BY <1>1, ChecksumInt
<1>3. PICK s \in Int, d \in Int : s = x % 256 /\ d = (x - y) % 256
  OBVIOUS
<1>4. \A z \in Int : z % 256 \in Byte
  BY DEF Byte
<1>5. ASSUME NEW i \in 1..16
      PROVE  b[i] + s * Mix(i) + key[i] \in Int /\ b[i] - d * Mix(i) - key[i] \in Int
  <2>1. PICK m \in Int, n \in Int, o \in Int : m = b[i] /\ n = Mix(i) /\ o = key[i]
    BY <1>1
  <2>2. m + s * n + o \in Int /\ m - d * n - o \in Int
    OBVIOUS
  <2> QED
    BY <2>1, <2>2
<1>6. PICK p : p = [i \in 1..16 |-> (b[i] + s * Mix(i) + key[i]) % 256]
  OBVIOUS
<1>7. PICK q : q = [i \in 1..16 |-> (b[i] - d * Mix(i) - key[i]) % 256]
  OBVIOUS
<1>8. \A i \in 1..16 : p[i] \in Byte /\ q[i] \in Byte
  BY <1>4, <1>5, <1>6, <1>7
<1>9. IsBlock(p) /\ IsBlock(q)
  BY <1>6, <1>7, <1>8 DEF IsBlock
<1>10. EncryptBlock(key, b) = p
  BY <1>2, <1>3, <1>6 DEF EncryptBlock
<1>11. DecryptBlock(key, b) = q
  BY <1>2, <1>3, <1>7 DEF DecryptBlock
<1> QED
  BY <1>9, <1>10, <1>11

\* A number of up to four bytes.
LEMMA LittleBytes ==
  ASSUME NEW n \in Nat, NEW size \in 1..4
  PROVE  /\ Little(n, size) \in Seq(Byte) /\ Len(Little(n, size)) = size
         /\ \A k \in 1..size : Little(n, size)[k] = (n \div 256^(k - 1)) % 256
<1>1. ASSUME NEW k \in 1..size
      PROVE  (n \div 256^(k - 1)) % 256 \in Byte
  <2>1. PICK p \in Nat \ {0} : p = 256^(k - 1)
    <3>1. k - 1 \in 0..4
      OBVIOUS
    <3> QED
      BY <3>1, Powers
  <2>2. n \div p \in Nat
    OBVIOUS
  <2> QED
    BY <2>1, <2>2 DEF Byte
<1>2. Little(n, size) = [k \in 1..size |-> (n \div 256^(k - 1)) % 256]
  BY DEF Little
<1>3. Little(n, size) = [k \in 1..size |-> Little(n, size)[k]] /\ \A k \in 1..size : Little(n, size)[k] \in Byte
  BY <1>1, <1>2
<1>4. Little(n, size) \in Seq(Byte) /\ Len(Little(n, size)) = size
  BY <1>3, IsSequence
<1> QED
  BY <1>2, <1>4

\* Five byte strings, one behind the other.
LEMMA FiveJoined ==
  ASSUME NEW a \in Seq(Byte), NEW b \in Seq(Byte), NEW c \in Seq(Byte), NEW d \in Seq(Byte),
         NEW e \in Seq(Byte)
  PROVE  /\ a \o b \o c \o d \o e \in Seq(Byte)
         /\ Len(a \o b \o c \o d \o e) = Len(a) + Len(b) + Len(c) + Len(d) + Len(e)
<1>0. Len(a) \in Nat /\ Len(b) \in Nat /\ Len(c) \in Nat /\ Len(d) \in Nat /\ Len(e) \in Nat
  OBVIOUS
<1> DEFINE s1 == a \o b
           s2 == s1 \o c
           s3 == s2 \o d
<1>1. s1 \in Seq(Byte) /\ Len(s1) = Len(a) + Len(b)
  BY BytesJoined
<1> HIDE DEF s1
<1>2. s2 \in Seq(Byte) /\ Len(s2) = Len(s1) + Len(c)
  BY <1>1, BytesJoined
<1> HIDE DEF s2
<1>3. s3 \in Seq(Byte) /\ Len(s3) = Len(s2) + Len(d)
  BY <1>2, BytesJoined
<1> HIDE DEF s3
<1>4. s3 \o e \in Seq(Byte) /\ Len(s3 \o e) = Len(s3) + Len(e)
  BY <1>3, BytesJoined
<1>5. s3 \o e = a \o b \o c \o d \o e
  BY DEF s1, s2, s3
<1> QED
  BY <1>0, <1>1, <1>2, <1>3, <1>4, <1>5

\* A key that is generated is a block.
LEMMA GeneratedKey ==
  ASSUME NEW key, IsBlock(key), NEW t \in Byte, NEW n \in Nat, NEW i \in Nat, NEW o \in Nat
  PROVE  IsBlock(generate_key(key, t, n, i, o))
<1> DEFINE x == <<t>>
           a == Little(n, 3)
           b == Little(i, 3)
           c == Little(o, 2)
           z == [k \in 1..7 |-> 0]
           y == x \o a \o b \o c \o z
<1>0. 3 \in 1..4 /\ 2 \in 1..4
  OBVIOUS
<1>1. x \in Seq(Byte) /\ Len(x) = 1
  OBVIOUS
<1>2. a \in Seq(Byte) /\ Len(a) = 3
  BY <1>0, LittleBytes
<1>3. b \in Seq(Byte) /\ Len(b) = 3
  BY <1>0, LittleBytes
<1>4. c \in Seq(Byte) /\ Len(c) = 2
  BY <1>0, LittleBytes
<1>5. z \in Seq(Byte) /\ Len(z) = 7
  BY DEF Byte
<1>6. generate_key(key, t, n, i, o) = EncryptBlock(key, y)
  BY DEF generate_key
<1> HIDE DEF x, a, b, c, z
<1>7. y \in Seq(Byte) /\ Len(y) = Len(x) + Len(a) + Len(b) + Len(c) + Len(z)
  <2>1. x \in Seq(Byte) /\ a \in Seq(Byte) /\ b \in Seq(Byte) /\ c \in Seq(Byte) /\ z \in Seq(Byte)
    BY <1>1, <1>2, <1>3, <1>4, <1>5
  <2> QED
    BY <2>1, FiveJoined
<1>8. IsBlock(y)
  BY <1>1, <1>2, <1>3, <1>4, <1>5, <1>7 DEF IsBlock
<1> HIDE DEF y
<1> QED
  BY <1>6, <1>8, CipherBlocks

\* The keys are blocks.
LEMMA KeyBlocks == IsBlock(appKey) /\ IsBlock(nwkSKey) /\ IsBlock(appSKey)
<1>1. IsBlock(appKey)
  BY DEF appKey, IsBlock, Byte
<1>2. NwkSKey \in Byte /\ AppSKey \in Byte
  BY DEF NwkSKey, AppSKey, Byte
<1>3. 70000 \in Nat /\ 19 \in Nat /\ 1 \in Nat
  OBVIOUS
<1> QED
  BY <1>1, <1>2, <1>3, GeneratedKey DEF nwkSKey, appSKey

-----------------------------------------------------------------------------
(* Blocks one behind the other, and the key stream.                        *)

\* n blocks, and the bytes of them.
AreBlocks(q, n) == q = [b \in 1..n |-> q[b]] /\ \A b \in 1..n : IsBlock(q[b])

BytesOfBlocks(w, q, n) ==
  /\ w \in Seq(Int) /\ Len(w) = 16 * n
  /\ \A b \in 1..n : \A i \in 1..16 : w[16 * b - 16 + i] = q[b][i]

\* FlattenSeq makes them of the blocks.
LEMMA BlocksFlat ==
  ASSUME NEW n \in Nat, NEW q, AreBlocks(q, n), NEW w, BytesOfBlocks(w, q, n)
  PROVE  FlattenSeq(q) = w
<1>0. /\ w \in Seq(Int) /\ Len(w) = 16 * n
      /\ \A b \in 1..n : \A i \in 1..16 : w[16 * b - 16 + i] = q[b][i]
  BY DEF BytesOfBlocks
<1>w. w \in Seq(Int)
  BY <1>0
<1>1. \A b \in 1..n : q[b] \in Seq(Int) /\ Len(q[b]) = 16
  BY BytesAreInts DEF AreBlocks, IsBlock
<1>2. q \in Seq(Seq(Int)) /\ Len(q) = n
  BY <1>1, IsSequence DEF AreBlocks
<1> DEFINE B == [b \in 0..n |-> SubSeq(w, 1, 16 * b)]
<1>3. ASSUME NEW b \in 0..n
      PROVE  SubSeq(w, 1, 16 * b) \in Seq(Int)
  <2>1. PICK x \in Nat, y \in Nat : x = 1 /\ y = 16 * b /\ 1 <= x /\ x <= y + 1 /\ y <= Len(w)
    <3>1. 1 \in Nat /\ 16 * b \in Nat /\ 1 <= 1 /\ 1 <= 16 * b + 1 /\ 16 * b <= Len(w)
      BY <1>0
    <3> QED
      BY <3>1, Zenon
  <2> QED
    BY <1>0, <2>1, PartOf
<1>4. B[0] = <<>>
  <2>1. PICK x \in Nat, y \in Nat : x = 1 /\ y = 0 /\ y < x
    OBVIOUS
  <2>2. B[0] = SubSeq(w, x, y)
    BY <2>1
  <2> QED
    BY <1>0, <2>1, <2>2, NoPart
<1>5. ASSUME NEW b \in 1..n
      PROVE  SubSeq(w, 1, 16 * b) = SubSeq(w, 1, 16 * (b - 1)) \o q[b]
  <2>1. PICK x \in Nat, y \in Nat, z \in Nat :
          x = 1 /\ y = 16 * (b - 1) /\ z = 16 * b /\ y + 16 = z /\ 1 <= x /\ x <= y + 1 /\ y <= z /\ z <= Len(w)
    <3>1. /\ 1 \in Nat /\ 16 * (b - 1) \in Nat /\ 16 * b \in Nat /\ 16 * (b - 1) + 16 = 16 * b
          /\ 1 <= 1 /\ 1 <= 16 * (b - 1) + 1 /\ 16 * (b - 1) <= 16 * b /\ 16 * b <= Len(w)
      BY <1>0
    <3> QED
      BY <3>1, Zenon
  <2>b. 1 <= x /\ x <= y + 1 /\ y <= z /\ z <= Len(w)
    BY <2>1
  <2>2. SubSeq(w, x, y) \o SubSeq(w, y + 1, z) = SubSeq(w, x, z)
    BY <1>w, <2>b, PartsJoined
  <2>3. SubSeq(w, y + 1, z) = q[b]
    <3>1. /\ SubSeq(w, y + 1, z) \in Seq(Int) /\ Len(SubSeq(w, y + 1, z)) = z + 1 - (y + 1)
          /\ \A k \in 1..(z + 1 - (y + 1)) : SubSeq(w, y + 1, z)[k] = w[y + 1 - 1 + k]
      <4>1. PICK u \in Nat : u = y + 1 /\ 1 <= u /\ u <= z + 1
        <5>1. y + 1 \in Nat /\ 1 <= y + 1 /\ y + 1 <= z + 1
          BY <2>1
        <5> QED
          BY <5>1, Zenon
      <4>2. /\ SubSeq(w, u, z) \in Seq(Int) /\ Len(SubSeq(w, u, z)) = z + 1 - u
            /\ \A k \in 1..(z + 1 - u) : SubSeq(w, u, z)[k] = w[u - 1 + k]
        <5>1. 1 <= u /\ u <= z + 1 /\ z <= Len(w)
          BY <2>1, <4>1
        <5>2. u \in Nat /\ z \in Nat /\ w \in Seq(Int)
          BY <1>w
        <5> QED
          BY <5>1, <5>2, PartOf
      <4> QED
        BY <4>1, <4>2
    <3> DEFINE v == SubSeq(w, y + 1, z)
    <3>2. z + 1 - (y + 1) = 16
      BY <2>1
    <3>3. v \in Seq(Int) /\ Len(v) = 16
      BY <3>1, <3>2
    <3>4. ASSUME NEW k \in 1..16
          PROVE  v[k] = q[b][k]
      <4>1. v[k] = w[y + 1 - 1 + k]
        BY <3>1, <3>2
      <4>2. y + 1 - 1 + k = 16 * b - 16 + k
        BY <2>1
      <4> QED
        BY <1>0, <4>1, <4>2
    <3> HIDE DEF v
    <3>5. q[b] \in Seq(Int) /\ Len(v) = Len(q[b]) /\ \A k \in 1..Len(v) : v[k] = q[b][k]
      BY <1>1, <3>3, <3>4
    <3>6. v = q[b]
      BY <3>3, <3>5, SameBytes, Zenon
    <3> QED
      BY <3>6 DEF v
  <2> QED
    BY <2>1, <2>2, <2>3
<1>6. B \in [0..n -> Seq(Int)]
  BY <1>3
<1>7. \A b \in 1..n : B[b] = B[b - 1] \o q[b]
  <2>1. \A b \in 1..n : b - 1 \in 0..n /\ b \in 0..n
    OBVIOUS
  <2> QED
    BY <1>5, <2>1
<1>8. B[n] = w
  <2>1. SubSeq(w, 1, Len(w)) = w
    BY <1>0, AllOf
  <2> QED
    BY <1>0, <2>1
<1> HIDE DEF B
<1>9. FlattenSeq(q) = B[Len(q)]
  BY <1>2, <1>4, <1>6, <1>7, Flattened
<1> QED
  BY <1>2, <1>8, <1>9

\* There are such bytes.
LEMMA BlocksAreBytes ==
  ASSUME NEW n \in Nat, NEW q, AreBlocks(q, n)
  PROVE  /\ FlattenSeq(q) \in Seq(Byte) /\ Len(FlattenSeq(q)) = 16 * n
         /\ BytesOfBlocks(FlattenSeq(q), q, n)
<1> DEFINE w == [j \in 1..(16 * n) |-> q[((j - 1) \div 16) + 1][((j - 1) % 16) + 1]]
<1>0. 16 * n \in Nat
  OBVIOUS
<1>1. ASSUME NEW j \in 1..(16 * n)
      PROVE  q[((j - 1) \div 16) + 1][((j - 1) % 16) + 1] \in Byte
  <2>1. PICK b \in 1..n, i \in 1..16 : b = ((j - 1) \div 16) + 1 /\ i = ((j - 1) % 16) + 1
    <3>1. ((j - 1) \div 16) + 1 \in 1..n /\ ((j - 1) % 16) + 1 \in 1..16
      OBVIOUS
    <3> QED
      BY <3>1
  <2>2. IsBlock(q[b])
    BY DEF AreBlocks
  <2> QED
    BY <2>1, <2>2, BlockBytes
<1>2. w = [j \in 1..(16 * n) |-> w[j]] /\ \A j \in 1..(16 * n) : w[j] \in Byte
  BY <1>1
<1>3. ASSUME NEW b \in 1..n, NEW i \in 1..16
      PROVE  w[16 * b - 16 + i] = q[b][i]
  <2>1. PICK j \in 1..(16 * n) : j = 16 * b - 16 + i /\ ((j - 1) \div 16) + 1 = b /\ ((j - 1) % 16) + 1 = i
    <3>1. 16 * b - 16 + i \in 1..(16 * n)
      OBVIOUS
    <3>2. (((16 * b - 16 + i) - 1) \div 16) + 1 = b /\ (((16 * b - 16 + i) - 1) % 16) + 1 = i
      OBVIOUS
    <3> QED
      BY <3>1, <3>2
  <2> QED
    BY <2>1
<1> HIDE DEF w
<1>4. w \in Seq(Byte) /\ Len(w) = 16 * n
  BY <1>0, <1>2, IsSequence
<1>5. BytesOfBlocks(w, q, n)
  BY <1>3, <1>4, BytesAreInts DEF BytesOfBlocks
<1>6. FlattenSeq(q) = w
  BY <1>5, BlocksFlat
<1> QED
  BY <1>4, <1>5, <1>6

\* A byte as the sum of its bits.
SumOfBits(h) ==
  h[0] * 1 + h[1] * 2 + h[2] * 4 + h[3] * 8 + h[4] * 16 + h[5] * 32 + h[6] * 64 + h[7] * 128

\* A bit is 0 or 1.
LEMMA BitIs ==
  ASSUME NEW n \in Int, NEW i \in 0..7
  PROVE  /\ Bit(n, i) \in 0..1
         /\ Bit(n, i) = (n \div 2^i) % 2
<1>1. PICK p \in Nat \ {0} : p = 2^i
  <2>1. i \in 0..8
    OBVIOUS
  <2> QED
    BY <2>1, PowerOf2
<1>2. (n \div p) % 2 \in 0..1
  OBVIOUS
<1> QED
  BY <1>1, <1>2 DEF Bit

\* The bits of a byte are those of the sum.
LEMMA BitsOfSum ==
  ASSUME NEW h \in [0..7 -> 0..1]
  PROVE  SumOfBits(h) \in Byte /\ \A i \in 0..7 : Bit(SumOfBits(h), i) = h[i]
<1>1. PICK x0 \in 0..1, x1 \in 0..1, x2 \in 0..1, x3 \in 0..1,
           x4 \in 0..1, x5 \in 0..1, x6 \in 0..1, x7 \in 0..1 :
        /\ h[0] = x0 /\ h[1] = x1 /\ h[2] = x2 /\ h[3] = x3
        /\ h[4] = x4 /\ h[5] = x5 /\ h[6] = x6 /\ h[7] = x7
  OBVIOUS
<1>2. PICK x : x = x0 * 1 + x1 * 2 + x2 * 4 + x3 * 8 + x4 * 16 + x5 * 32 + x6 * 64 + x7 * 128
  OBVIOUS
<1>3. SumOfBits(h) = x
  BY <1>1, <1>2 DEF SumOfBits
<1>4. /\ x \in 0..255
      /\ (x \div 1) % 2 = x0 /\ (x \div 2) % 2 = x1 /\ (x \div 4) % 2 = x2 /\ (x \div 8) % 2 = x3
      /\ (x \div 16) % 2 = x4 /\ (x \div 32) % 2 = x5 /\ (x \div 64) % 2 = x6
      /\ (x \div 128) % 2 = x7
  BY <1>2
<1>5. /\ Bit(x, 0) = (x \div 1) % 2 /\ Bit(x, 1) = (x \div 2) % 2 /\ Bit(x, 2) = (x \div 4) % 2
      /\ Bit(x, 3) = (x \div 8) % 2 /\ Bit(x, 4) = (x \div 16) % 2 /\ Bit(x, 5) = (x \div 32) % 2
      /\ Bit(x, 6) = (x \div 64) % 2 /\ Bit(x, 7) = (x \div 128) % 2
  BY PowersOf2 DEF Bit
<1>6. ASSUME NEW i \in 0..7
      PROVE  Bit(x, i) = h[i]
  <2>1. i = 0 \/ i = 1 \/ i = 2 \/ i = 3 \/ i = 4 \/ i = 5 \/ i = 6 \/ i = 7
    OBVIOUS
  <2> QED
    BY <1>1, <1>4, <1>5, <2>1
<1> QED
  BY <1>3, <1>4, <1>6 DEF Byte

\* A byte is the sum of its bits.
LEMMA ByteOfBits ==
  ASSUME NEW a \in Byte, NEW h, h = [i \in 0..7 |-> Bit(a, i)]
  PROVE  SumOfBits(h) = a
<1>1. /\ Bit(a, 0) = (a \div 1) % 2 /\ Bit(a, 1) = (a \div 2) % 2 /\ Bit(a, 2) = (a \div 4) % 2
      /\ Bit(a, 3) = (a \div 8) % 2 /\ Bit(a, 4) = (a \div 16) % 2 /\ Bit(a, 5) = (a \div 32) % 2
      /\ Bit(a, 6) = (a \div 64) % 2 /\ Bit(a, 7) = (a \div 128) % 2
  BY PowersOf2 DEF Bit
<1>2. a = ((a \div 1) % 2) * 1 + ((a \div 2) % 2) * 2 + ((a \div 4) % 2) * 4 + ((a \div 8) % 2) * 8
             + ((a \div 16) % 2) * 16 + ((a \div 32) % 2) * 32 + ((a \div 64) % 2) * 64
             + ((a \div 128) % 2) * 128
  BY SMTT(30) DEF Byte
<1>3. SumOfBits(h) = Bit(a, 0) * 1 + Bit(a, 1) * 2 + Bit(a, 2) * 4 + Bit(a, 3) * 8
        + Bit(a, 4) * 16 + Bit(a, 5) * 32 + Bit(a, 6) * 64 + Bit(a, 7) * 128
  BY DEF SumOfBits
<1> QED
  BY <1>1, <1>2, <1>3

\* The exclusive or, bit by bit.
LEMMA XorOfBits ==
  ASSUME NEW a \in Int, NEW b \in Int, NEW h, h = [i \in 0..7 |-> (Bit(a, i) + Bit(b, i)) % 2]
  PROVE  Xor(a, b) = SumOfBits(h) /\ h \in [0..7 -> 0..1]
<1>1. ASSUME NEW i \in 0..7
      PROVE  (Bit(a, i) + Bit(b, i)) % 2 \in 0..1
  <2>1. PICK m \in 0..1, n \in 0..1 : m = Bit(a, i) /\ n = Bit(b, i)
    BY BitIs
  <2> QED
    BY <2>1
<1>2. /\ h[0] = (Bit(a, 0) + Bit(b, 0)) % 2 /\ h[1] = (Bit(a, 1) + Bit(b, 1)) % 2
      /\ h[2] = (Bit(a, 2) + Bit(b, 2)) % 2 /\ h[3] = (Bit(a, 3) + Bit(b, 3)) % 2
      /\ h[4] = (Bit(a, 4) + Bit(b, 4)) % 2 /\ h[5] = (Bit(a, 5) + Bit(b, 5)) % 2
      /\ h[6] = (Bit(a, 6) + Bit(b, 6)) % 2 /\ h[7] = (Bit(a, 7) + Bit(b, 7)) % 2
  OBVIOUS
<1>3. Xor(a, b) = SumOfBits(h)
  BY <1>2, PowersOf2 DEF Xor, SumOfBits
<1> QED
  BY <1>1, <1>3

\* The same key stream twice is none.
LEMMA XorTwice ==
  ASSUME NEW a \in Byte, NEW b \in Int
  PROVE  Xor(a, b) \in Byte /\ Xor(Xor(a, b), b) = a
<1>0. a \in Int
  BY BytesAreInts
<1>1. PICK h : h = [i \in 0..7 |-> (Bit(a, i) + Bit(b, i)) % 2]
  OBVIOUS
<1>2. Xor(a, b) = SumOfBits(h) /\ h \in [0..7 -> 0..1]
  BY <1>0, <1>1, XorOfBits
<1>3. PICK x \in Byte : x = SumOfBits(h) /\ \A i \in 0..7 : Bit(x, i) = h[i]
  BY <1>2, BitsOfSum
<1>4. PICK k : k = [i \in 0..7 |-> (Bit(x, i) + Bit(b, i)) % 2]
  OBVIOUS
<1>5. Xor(x, b) = SumOfBits(k)
  BY <1>4, XorOfBits, BytesAreInts
<1>6. ASSUME NEW i \in 0..7
      PROVE  (Bit(x, i) + Bit(b, i)) % 2 = Bit(a, i)
  <2>1. Bit(x, i) = (Bit(a, i) + Bit(b, i)) % 2
    BY <1>1, <1>3
  <2>2. PICK m \in 0..1, n \in 0..1 : m = Bit(a, i) /\ n = Bit(b, i)
    BY <1>0, BitIs
  <2>3. (((m + n) % 2) + n) % 2 = m
    OBVIOUS
  <2> QED
    BY <2>1, <2>2, <2>3
<1>7. k = [i \in 0..7 |-> Bit(a, i)]
  BY <1>4, <1>6
<1>8. SumOfBits(k) = a
  BY <1>7, ByteOfBits
<1> QED
  BY <1>2, <1>3, <1>5, <1>8

\* The key stream: at least as many numbers as there are bytes.
Stream(n, key, dev_addr, counter, direc) ==
  FlattenSeq([i \in 1..((n + 15) \div 16) |->
    EncryptBlock(key, StreamBlock(dev_addr, counter, direc, i))])

\* What is encrypted for the key stream are blocks.
LEMMA StreamBlocks ==
  ASSUME NEW a, IsAddr(a), NEW c \in Nat, NEW d \in Byte, NEW i \in Byte
  PROVE  IsBlock(StreamBlock(a, c, d, i))
<1> DEFINE x == <<1, 0, 0, 0, 0, d>>
           y == Reverse(a)
           z == Little(c, 4)
           u == << 0, i >>
           s == x \o y \o z \o u \o <<>>
<1>1. x \in Seq(Byte) /\ Len(x) = 6
  <2>1. 0 \in Byte /\ 1 \in Byte
    BY DEF Byte
  <2> QED
    BY <2>1
<1>2. y \in Seq(Byte) /\ Len(y) = 4
  BY Reversed DEF IsAddr
<1>3. z \in Seq(Byte) /\ Len(z) = 4
  <2>1. 4 \in 1..4
    OBVIOUS
  <2> QED
    BY <2>1, LittleBytes
<1>4. u \in Seq(Byte) /\ Len(u) = 2
  <2>1. 0 \in Byte
    BY DEF Byte
  <2> QED
    BY <2>1
<1>5. StreamBlock(a, c, d, i) = x \o y \o z \o u
  BY DEF StreamBlock
<1> HIDE DEF x, y, z, u
<1>6. << >> \in Seq(Byte) /\ Len(<< >>) = 0
  OBVIOUS
<1>7. s \in Seq(Byte) /\ Len(s) = Len(x) + Len(y) + Len(z) + Len(u) + Len(<< >>)
  <2>1. x \in Seq(Byte) /\ y \in Seq(Byte) /\ z \in Seq(Byte) /\ u \in Seq(Byte) /\ << >> \in Seq(Byte)
    BY <1>1, <1>2, <1>3, <1>4, <1>6
  <2> QED
    BY <2>1, FiveJoined
<1>8. x \o y \o z \o u \in Seq(Byte)
  BY <1>1, <1>2, <1>3, <1>4, BytesJoined
<1>9. s = x \o y \o z \o u
  <2> DEFINE v == x \o y \o z \o u
  <2>1. v \in Seq(Int)
    BY <1>8, BytesAreInts
  <2> HIDE DEF v
  <2>2. v \o <<>> = v
    BY <2>1, NoMore
  <2> QED
    BY <2>2 DEF v
<1> QED
  BY <1>1, <1>2, <1>3, <1>4, <1>5, <1>6, <1>7, <1>9 DEF IsBlock

\* The key stream consists of numbers.
LEMMA StreamInts ==
  ASSUME NEW n \in 0..255, NEW key, IsBlock(key), NEW a, IsAddr(a), NEW c \in Nat, NEW d \in Byte
  PROVE  \A j \in 1..n : Stream(n, key, a, c, d)[j] \in Int
<1>1. PICK m \in Nat : m = (n + 15) \div 16 /\ m <= 16 /\ n <= 16 * m
  <2>1. (n + 15) \div 16 \in Nat /\ (n + 15) \div 16 <= 16 /\ n <= 16 * ((n + 15) \div 16)
    OBVIOUS
  <2> QED
    BY <2>1
<1> DEFINE q == [i \in 1..m |-> EncryptBlock(key, StreamBlock(a, c, d, i))]
<1>2. ASSUME NEW i \in 1..m
      PROVE  IsBlock(EncryptBlock(key, StreamBlock(a, c, d, i)))
  <2>1. i \in Byte
    BY <1>1 DEF Byte
  <2> QED
    BY <2>1, StreamBlocks, CipherBlocks
<1>3. AreBlocks(q, m)
  BY <1>2 DEF AreBlocks
<1>4. Stream(n, key, a, c, d) = FlattenSeq(q)
  BY <1>1 DEF Stream
<1> HIDE DEF q
<1> DEFINE f == FlattenSeq(q)
<1>5. f \in Seq(Byte) /\ Len(f) = 16 * m
  BY <1>3, BlocksAreBytes
<1> HIDE DEF f
<1>6. f \in Seq(Int)
  BY <1>5, BytesAreInts
<1>7. \A j \in 1..n : j \in 1..Len(f)
  BY <1>1, <1>5
<1>8. \A j \in 1..n : f[j] \in Int
  BY <1>6, <1>7
<1> QED
  BY <1>4, <1>8 DEF f

\* Decrypting what was encrypted.
LEMMA DecryptedAgain ==
  ASSUME NEW s \in Seq(Byte), Len(s) \in 0..255,
         NEW key, IsBlock(key), NEW a, IsAddr(a), NEW c \in Nat, NEW d \in Byte,
         NEW t, t = decrypt_frm_payload(s, key, a, c, d)
  PROVE  /\ t \in Seq(Byte) /\ Len(t) = Len(s)
         /\ decrypt_frm_payload(t, key, a, c, d) = s
<1>1. PICK n \in 0..255 : n = Len(s)
  OBVIOUS
<1>2. PICK f : f = Stream(n, key, a, c, d) /\ \A j \in 1..n : f[j] \in Int
  BY StreamInts
<1>3. s = [j \in 1..n |-> s[j]] /\ \A j \in 1..n : s[j] \in Byte
  <2>1. s = [j \in 1..Len(s) |-> s[j]] /\ \A j \in 1..Len(s) : s[j] \in Byte
    OBVIOUS
  <2> QED
    BY <1>1, <2>1
<1>4. t = [j \in 1..n |-> Xor(s[j], f[j])]
  <2>1. t = [j \in DOMAIN s |-> Xor(s[j], Stream(Len(s), key, a, c, d)[j])]
    BY DEF decrypt_frm_payload, Stream
  <2>2. DOMAIN s = 1..n
    <3>1. DOMAIN s = 1..Len(s)
      OBVIOUS
    <3> QED
      BY <1>1, <3>1
  <2> QED
    BY <1>1, <1>2, <2>1, <2>2
<1>5. \A j \in 1..n : Xor(s[j], f[j]) \in Byte /\ Xor(Xor(s[j], f[j]), f[j]) = s[j]
  BY <1>2, <1>3, XorTwice
<1>6. t = [j \in 1..n |-> t[j]] /\ \A j \in 1..n : t[j] \in Byte
  BY <1>4, <1>5
<1>7. t \in Seq(Byte) /\ Len(t) = n
  <2>1. n \in Nat
    OBVIOUS
  <2> QED
    BY <1>6, <2>1, SMTT(30)
<1>8. decrypt_frm_payload(t, key, a, c, d) = [j \in 1..n |-> Xor(t[j], f[j])]
  <2>1. decrypt_frm_payload(t, key, a, c, d) = [j \in DOMAIN t |-> Xor(t[j], Stream(Len(t), key, a, c, d)[j])]
    BY DEF decrypt_frm_payload, Stream
  <2>2. DOMAIN t = 1..n
    BY <1>7
  <2> QED
    BY <1>2, <1>7, <2>1, <2>2
<1>9. \A j \in 1..n : Xor(t[j], f[j]) = s[j]
  BY <1>4, <1>5
<1>10. [j \in 1..n |-> Xor(t[j], f[j])] = s
  BY <1>3, <1>9
<1> QED
  BY <1>1, <1>7, <1>8, <1>10

\* A checksum, one term after the other.
Adding(g, b) ==
  /\ g \in [0..16 -> Int] /\ g[0] = 0
  /\ \A k \in 1..16 : g[k] = k * b[k] + g[k - 1]

\* The checksum is sixteen additions, one behind the other.
LEMMA ChecksumIs ==
  ASSUME NEW b, \A i \in 1..16 : b[i] \in Int
  PROVE  \E g : Adding(g, b) /\ Checksum(b) = g[16]
<1>1. PICK S : S = 1..16
  OBVIOUS
<1>2. PICK v : v = [i \in S |-> i * b[i]]
  OBVIOUS
<1>3. PICK H : Summed(S, v, H) /\ Checksum(b) = H[S]
  BY <1>1, <1>2, ChecksumSum
<1>4. Additive(S, v, H)
  BY <1>3, AnyFirst
<1> DEFINE g == [k \in 0..16 |-> H[1..k]]
<1>5. ASSUME NEW k \in 0..16
      PROVE  1..k \in SUBSET S /\ H[1..k] \in Int
  <2>1. 1..k \in SUBSET S
    BY <1>1
  <2> QED
    BY <1>4, <2>1 DEF Additive
<1>6. ASSUME NEW k \in 1..16
      PROVE  g[k] = k * b[k] + g[k - 1]
  <2>1. k \in 0..16 /\ k - 1 \in 0..16
    OBVIOUS
  <2>2. 1..k \in SUBSET S
    BY <1>5, <2>1
  <2>3. k \in 1..k /\ (1..k) \ {k} = 1..(k - 1)
    OBVIOUS
  <2>4. H[1..k] = v[k] + H[(1..k) \ {k}]
    BY <1>4, <2>2, <2>3 DEF Additive
  <2>5. H[1..k] = v[k] + H[1..(k - 1)]
    BY <2>3, <2>4
  <2>6. g[k] = H[1..k] /\ g[k - 1] = H[1..(k - 1)]
    BY <2>1
  <2>7. v[k] = k * b[k]
    BY <1>1, <1>2
  <2> QED
    BY <2>5, <2>6, <2>7
<1>7. g[0] = 0
  <2>1. 1..0 = {} /\ 0 \in 0..16
    OBVIOUS
  <2>2. g[0] = H[1..0]
    BY <2>1
  <2> QED
    BY <1>4, <2>1, <2>2 DEF Additive
<1>8. g \in [0..16 -> Int]
  BY <1>5
<1>9. g[16] = H[S]
  BY <1>1
<1> HIDE DEF g
<1> QED
  BY <1>3, <1>6, <1>7, <1>8, <1>9 DEF Adding

\* The weights.
LEMMA MixIs ==
  /\ Mix(1) = 2 /\ Mix(2) = 255 /\ Mix(3) = 4 /\ Mix(4) = 253 /\ Mix(5) = 6 /\ Mix(6) = 251 /\ Mix(7) = 8 /\ Mix(8) = 249
  /\ Mix(9) = 10 /\ Mix(10) = 247 /\ Mix(11) = 12 /\ Mix(12) = 245 /\ Mix(13) = 14 /\ Mix(14) = 243 /\ Mix(15) = 16 /\ Mix(16) = 241
BY DEF Mix

\* Sums of i * Mix(i) are 0 modulo 256.
LEMMA MixAdded ==
  ASSUME NEW m, m = [i \in 1..16 |-> Mix(i)], NEW g, Adding(g, m)
  PROVE  g[16] = 256 * 72
<1>0. g[0] = 0
  BY DEF Adding
<1>1. g[1] = 2
  <2>1. g[1] = 1 * m[1] + g[0]
    BY DEF Adding
  <2> QED
    BY <1>0, <2>1, MixIs
<1>2. g[2] = 512
  <2>1. g[2] = 2 * m[2] + g[1]
    BY DEF Adding
  <2> QED
    BY <1>1, <2>1, MixIs
<1>3. g[3] = 524
  <2>1. g[3] = 3 * m[3] + g[2]
    BY DEF Adding
  <2> QED
    BY <1>2, <2>1, MixIs
<1>4. g[4] = 1536
  <2>1. g[4] = 4 * m[4] + g[3]
    BY DEF Adding
  <2> QED
    BY <1>3, <2>1, MixIs
<1>5. g[5] = 1566
  <2>1. g[5] = 5 * m[5] + g[4]
    BY DEF Adding
  <2> QED
    BY <1>4, <2>1, MixIs
<1>6. g[6] = 3072
  <2>1. g[6] = 6 * m[6] + g[5]
    BY DEF Adding
  <2> QED
    BY <1>5, <2>1, MixIs
<1>7. g[7] = 3128
  <2>1. g[7] = 7 * m[7] + g[6]
    BY DEF Adding
  <2> QED
    BY <1>6, <2>1, MixIs
<1>8. g[8] = 5120
  <2>1. g[8] = 8 * m[8] + g[7]
    BY DEF Adding
  <2> QED
    BY <1>7, <2>1, MixIs
<1>9. g[9] = 5210
  <2>1. g[9] = 9 * m[9] + g[8]
    BY DEF Adding
  <2> QED
    BY <1>8, <2>1, MixIs
<1>10. g[10] = 7680
  <2>1. g[10] = 10 * m[10] + g[9]
    BY DEF Adding
  <2> QED
    BY <1>9, <2>1, MixIs
<1>11. g[11] = 7812
  <2>1. g[11] = 11 * m[11] + g[10]
    BY DEF Adding
  <2> QED
    BY <1>10, <2>1, MixIs
<1>12. g[12] = 10752
  <2>1. g[12] = 12 * m[12] + g[11]
    BY DEF Adding
  <2> QED
    BY <1>11, <2>1, MixIs
<1>13. g[13] = 10934
  <2>1. g[13] = 13 * m[13] + g[12]
    BY DEF Adding
  <2> QED
    BY <1>12, <2>1, MixIs
<1>14. g[14] = 14336
  <2>1. g[14] = 14 * m[14] + g[13]
    BY DEF Adding
  <2> QED
    BY <1>13, <2>1, MixIs
<1>15. g[15] = 14576
  <2>1. g[15] = 15 * m[15] + g[14]
    BY DEF Adding
  <2> QED
    BY <1>14, <2>1, MixIs
<1>16. g[16] = 18432
  <2>1. g[16] = 16 * m[16] + g[15]
    BY DEF Adding
  <2> QED
    BY <1>15, <2>1, MixIs
<1> QED
  BY <1>16

\* One term of a checksum, when its byte is less by a multiple.
LEMMA TermLost ==
  ASSUME NEW i \in Int, NEW b \in Int, NEW m \in Int, NEW k \in Int, NEW u \in Int, NEW d \in Int,
         NEW q, q = b - d * m - k - 256 * u
  PROVE  i * q = i * b - d * (i * m) - i * k - 256 * (i * u)
OBVIOUS

\* Of sixteen terms each of which loses a multiple of 256.
Loses(q, b, k, d, u) ==
  \A i \in 1..16 : /\ b[i] \in Int /\ k[i] \in Int /\ q[i] \in Int /\ u[i] \in Int
                   /\ q[i] = b[i] - d * Mix(i) - k[i] - 256 * u[i]

\* A checksum changes as its bytes do.
LEMMA ChecksumKept ==
  ASSUME NEW b, NEW k, NEW q, NEW d \in Int, NEW u, Loses(q, b, k, d, u)
  PROVE  \E n \in Int : Checksum(q) = Checksum(b) - Checksum(k) - 256 * n
<1> USE DEF Loses
<1>1. PICK m : m = [i \in 1..16 |-> Mix(i)]
  OBVIOUS
<1>2. \A i \in 1..16 : m[i] \in Int
  BY <1>1, MixInt
<1>3. PICK gb : Adding(gb, b) /\ Checksum(b) = gb[16]
  BY ChecksumIs
<1>4. PICK gk : Adding(gk, k) /\ Checksum(k) = gk[16]
  BY ChecksumIs
<1>5. PICK gq : Adding(gq, q) /\ Checksum(q) = gq[16]
  BY ChecksumIs
<1>6. PICK gm : Adding(gm, m)
  BY <1>2, ChecksumIs
<1> DEFINE Kept == {j \in 0..16 : \E n \in Int : gq[j] = gb[j] - d * gm[j] - gk[j] - 256 * n}
<1>7. 0 \in Kept
  <2>1. gq[0] = gb[0] - d * gm[0] - gk[0] - 256 * 0
    BY <1>3, <1>4, <1>5, <1>6 DEF Adding
  <2> QED
    BY <2>1
<1>8. ASSUME NEW j \in 0..(16 - 1), j \in Kept
      PROVE  j + 1 \in Kept
  <2>1. PICK i \in 1..16 : i = j + 1 /\ i - 1 = j
    OBVIOUS
  <2>2. PICK n \in Int : gq[j] = gb[j] - d * gm[j] - gk[j] - 256 * n
    BY <1>8
  <2>3. /\ gq[i] = i * q[i] + gq[j] /\ gb[i] = i * b[i] + gb[j]
        /\ gm[i] = i * m[i] + gm[j] /\ gk[i] = i * k[i] + gk[j]
    BY <1>3, <1>4, <1>5, <1>6, <2>1 DEF Adding
  <2>4. /\ gq[j] \in Int /\ gb[j] \in Int /\ gm[j] \in Int /\ gk[j] \in Int
    BY <1>3, <1>4, <1>5, <1>6 DEF Adding
  <2>5. i * q[i] = i * b[i] - d * (i * m[i]) - i * k[i] - 256 * (i * u[i])
    <3>1. /\ b[i] \in Int /\ k[i] \in Int /\ m[i] \in Int /\ u[i] \in Int
          /\ q[i] = b[i] - d * m[i] - k[i] - 256 * u[i]
      BY <1>1, <1>2
    <3> QED
      BY <3>1, TermLost
  <2>6. PICK xb \in Int, xm \in Int, xk \in Int, xu \in Int :
          xb = i * b[i] /\ xm = i * m[i] /\ xk = i * k[i] /\ xu = i * u[i]
    <3>1. i * b[i] \in Int /\ i * m[i] \in Int /\ i * k[i] \in Int /\ i * u[i] \in Int
      BY <1>2
    <3> QED
      BY <3>1, Zenon
  <2>7. gq[i] = gb[i] - d * gm[i] - gk[i] - 256 * (n + xu)
    <3>1. PICK yb \in Int, ym \in Int, yk \in Int : yb = gb[j] /\ ym = gm[j] /\ yk = gk[j]
      BY <2>4, Zenon
    <3>2. gq[i] = (xb - d * xm - xk - 256 * xu) + (yb - d * ym - yk - 256 * n)
      BY <2>2, <2>3, <2>5, <2>6, <3>1
    <3>3. gb[i] = xb + yb /\ gm[i] = xm + ym /\ gk[i] = xk + yk
      BY <2>3, <2>6, <3>1
    <3>4. (xb - d * xm - xk - 256 * xu) + (yb - d * ym - yk - 256 * n) =
            (xb + yb) - d * (xm + ym) - (xk + yk) - 256 * (n + xu)
      OBVIOUS
    <3> QED
      BY <3>2, <3>3, <3>4
  <2>8. n + xu \in Int /\ i \in 0..16
    OBVIOUS
  <2>9. \E o \in Int : gq[i] = gb[i] - d * gm[i] - gk[i] - 256 * o
    BY <2>7, <2>8
  <2> QED
    BY <2>1, <2>8, <2>9
<1>9. 0..16 \subseteq Kept
  <2>1. PICK x \in Nat : x = 16
    OBVIOUS
  <2> HIDE DEF Kept
  <2>2. \A j \in 0..(x - 1) : j \in Kept => j + 1 \in Kept
    BY <1>8, <2>1
  <2> QED
    BY <1>7, <2>1, <2>2, UpTo
<1>10. PICK n \in Int : gq[16] = gb[16] - d * gm[16] - gk[16] - 256 * n
  BY <1>9
<1>11. gm[16] = 256 * 72
  BY <1>1, <1>6, MixAdded
<1>12. gq[16] = gb[16] - gk[16] - 256 * (n + d * 72)
  <2>1. gb[16] \in Int /\ gk[16] \in Int
    BY <1>3, <1>4 DEF Adding
  <2> QED
    BY <1>10, <1>11, <2>1
<1>13. n + d * 72 \in Int
  OBVIOUS
<1> QED
  BY <1>3, <1>4, <1>5, <1>12, <1>13, ZenonT(40)

\* What is decrypted is encrypted again.
LEMMA EncryptedAgain ==
  ASSUME NEW key, IsBlock(key), NEW b, IsBlock(b)
  PROVE  EncryptBlock(key, DecryptBlock(key, b)) = b
<1>1. /\ \A i \in 1..16 : b[i] \in Int /\ key[i] \in Int /\ Mix(i) \in Int
      /\ \A i \in 1..16 : b[i] \in Byte
  BY BlockBytes, MixInt
<1>2. PICK x \in Int, y \in Int : x = Checksum(b) /\ y = Checksum(key)
  BY <1>1, ChecksumInt
<1>3. PICK d \in Int : d = (x - y) % 256
  OBVIOUS
<1>4. PICK q : q = [i \in 1..16 |-> (b[i] - d * Mix(i) - key[i]) % 256]
  OBVIOUS
<1>5. DecryptBlock(key, b) = q
  BY <1>2, <1>3, <1>4 DEF DecryptBlock
<1>6. PICK u : u = [i \in 1..16 |-> (b[i] - d * Mix(i) - key[i]) \div 256]
  OBVIOUS
<1>7. ASSUME NEW i \in 1..16
      PROVE  /\ b[i] \in Int /\ key[i] \in Int /\ q[i] \in Int /\ u[i] \in Int
             /\ q[i] = b[i] - d * Mix(i) - key[i] - 256 * u[i]
             /\ (q[i] + d * Mix(i) + key[i]) % 256 = b[i]
  <2>1. PICK m \in Byte, n \in Int, o \in Int : m = b[i] /\ n = d * Mix(i) /\ o = key[i]
    <3>1. d * Mix(i) \in Int
      BY <1>1
    <3> QED
      BY <1>1, <3>1
  <2>2. PICK v \in Int, w \in Int : v = (m - n - o) % 256 /\ w = (m - n - o) \div 256
    BY <2>1 DEF Byte
  <2>3. v = m - n - o - 256 * w /\ (v + n + o) % 256 = m
    BY <2>2 DEF Byte
  <2>4. q[i] = v /\ u[i] = w
    BY <1>4, <1>6, <2>1, <2>2
  <2> QED
    BY <1>1, <2>1, <2>3, <2>4
<1>8. PICK n \in Int : Checksum(q) = x - y - 256 * n
  <2>1. Loses(q, b, key, d, u)
    BY <1>7 DEF Loses
  <2> QED
    BY <1>2, <2>1, ChecksumKept
<1>9. Checksum(q) % 256 = d
  BY <1>3, <1>8
<1>10. EncryptBlock(key, q) = [i \in 1..16 |-> (q[i] + d * Mix(i) + key[i]) % 256]
  BY <1>9 DEF EncryptBlock
<1>11. b = [i \in 1..16 |-> b[i]]
  BY DEF IsBlock
<1> QED
  BY <1>5, <1>7, <1>10, <1>11

\* Sums of the same terms are the same.
LEMMA SumsAgree ==
  ASSUME NEW S, NEW f, NEW g, NEW G, NEW H, Summed(S, f, G), Summed(S, g, H),
         NEW T \in SUBSET S, \A x \in T : f[x] = g[x]
  PROVE  G[T] = H[T]
<1>1. IsFiniteSet(T)
  BY FS_Subset DEF Summed
<1>2. Adds(G, f, SUBSET T) /\ Adds(H, f, SUBSET T)
  <2>1. \A s \in SUBSET T : s \in SUBSET S
    OBVIOUS
  <2>2. ASSUME NEW s \in SUBSET T
        PROVE  H[s] = IF s = {} THEN 0 ELSE f[First(s)] + H[s \ {First(s)}]
    <3>1. H[s] = IF s = {} THEN 0 ELSE g[First(s)] + H[s \ {First(s)}]
      BY <2>1 DEF Summed, Adds
    <3>2. CASE s = {}
      BY <3>1, <3>2
    <3>3. CASE s # {}
      <4>1. First(s) \in T
        BY <3>3 DEF First
      <4> QED
        BY <3>1, <3>3, <4>1
    <3> QED
      BY <3>2, <3>3
  <2>3. ASSUME NEW s \in SUBSET T
        PROVE  G[s] = IF s = {} THEN 0 ELSE f[First(s)] + G[s \ {First(s)}]
    BY <2>1 DEF Summed, Adds
  <2> QED
    BY <2>2, <2>3 DEF Adds
<1>3. \A s \in SUBSET T : G[s] = H[s]
  BY <1>1, <1>2, SumsAreOne
<1> QED
  BY <1>3

\* Terms that are the same but for two of them.
AgreeBut(S, f, g, i, j) == i \in S /\ j \in S /\ i # j /\ \A x \in S \ {i, j} : f[x] = g[x]

\* Sums that differ in two terms differ by what these do.
LEMMA SumsDiffer ==
  ASSUME NEW S, NEW f, NEW g, NEW G, NEW H, Summed(S, f, G), Summed(S, g, H),
         NEW i, NEW j, AgreeBut(S, f, g, i, j)
  PROVE  /\ G[S] \in Int /\ H[S] \in Int /\ f[i] \in Int /\ f[j] \in Int /\ g[i] \in Int /\ g[j] \in Int
         /\ G[S] - H[S] = (f[i] - g[i]) + (f[j] - g[j])
<1>0. i \in S /\ j \in S /\ i # j /\ \A x \in S \ {i, j} : f[x] = g[x]
  BY DEF AgreeBut
<1>1. Additive(S, f, G) /\ Additive(S, g, H)
  BY AnyFirst
<1> DEFINE T == S \ {i, j}
           U == S \ {i}
<1>2. T \in SUBSET S /\ U \in SUBSET S /\ S \in SUBSET S /\ U \ {j} = T /\ j \in U
  BY <1>0
<1>3. G[T] = H[T]
  <2>1. \A x \in T : f[x] = g[x]
    BY <1>0
  <2> HIDE DEF T
  <2> QED
    BY <1>2, <2>1, SumsAgree
<1>4. G[S] = f[i] + G[U] /\ H[S] = g[i] + H[U]
  BY <1>0, <1>1, <1>2 DEF Additive
<1> HIDE DEF T, U
<1>5. G[U] = f[j] + G[T] /\ H[U] = g[j] + H[T]
  BY <1>1, <1>2 DEF Additive
<1>6. G[T] \in Int /\ G[S] \in Int /\ H[S] \in Int
  BY <1>1, <1>2 DEF Additive
<1>7. f[i] \in Int /\ f[j] \in Int /\ g[i] \in Int /\ g[j] \in Int
  BY <1>0 DEF Summed
<1> QED
  BY <1>3, <1>4, <1>5, <1>6, <1>7

\* One term of such a difference.
LEMMA TermsLess ==
  ASSUME NEW i \in Int, NEW x \in Int, NEW y \in Int
  PROVE  i * (x + 1) - i * (y + 1) = i * (x - y)
OBVIOUS

SameRest(x, y) == x % 65521 = y % 65521
IsSmall(e) == 0 < e /\ e < 65521

\* Numbers that are not far from one another are told apart by their rests.
LEMMA RestsApart ==
  ASSUME NEW x \in Int, NEW y \in Int, IsSmall(x - y)
  PROVE  ~ SameRest(x, y)
<1> USE DEF IsSmall, SameRest
<1>1. ASSUME x % 65521 = y % 65521
      PROVE  FALSE
  <2>1. PICK m \in Int, n \in Int, z \in Int : x = 65521 * m + z /\ y = 65521 * n + z
    <3>1. PICK m \in Int, n \in Int : m = x \div 65521 /\ n = y \div 65521
      OBVIOUS
    <3>2. PICK z \in Int : z = x % 65521 /\ z = y % 65521
      BY <1>1
    <3>3. x = 65521 * m + z /\ y = 65521 * n + z
      BY <3>1, <3>2
    <3> QED
      BY <3>3
  <2>2. 0 < 65521 * (m - n) /\ 65521 * (m - n) < 65521
    BY <2>1
  <2> QED
    BY <2>2
<1> QED
  BY <1>1

\* A MIC tells apart what its checksum does.
LEMMA MICsTell ==
  ASSUME NEW x \in Int, NEW y \in Int, NEW i \in Int, NEW j \in Int, MICOf(x, y) = MICOf(i, j)
  PROVE  SameRest(x, i)
<1> USE DEF SameRest
<1>1. (x % 65521) % 256 = (i % 65521) % 256 /\ (x % 65521) \div 256 = (i % 65521) \div 256
  BY DEF MICOf
<1>2. PICK m \in Nat, n \in Nat : m = x % 65521 /\ n = i % 65521
  OBVIOUS
<1> QED
  BY <1>1, <1>2

\* Bytes of the same number that differ in two places.
DifferAt(b, d, i, j) ==
  /\ b \in Seq(Int) /\ d \in Seq(Int) /\ Len(b) = Len(d)
  /\ i \in 1..Len(b) /\ j \in 1..Len(b) /\ i # j
  /\ \A k \in 1..Len(b) : k # i /\ k # j => b[k] = d[k]

\* Their sums are e apart.
IsApart(b, d, i, j, e) == e = i * (b[i] - d[i]) + j * (b[j] - d[j])

\* Their MICs differ when that is less than the sums are counted to.
LEMMA MICsApart ==
  ASSUME NEW key, NEW r, NEW s, NEW b, NEW d, b = key \o r, d = key \o s,
         NEW i, NEW j, DifferAt(b, d, i, j),
         NEW e \in Int, IsSmall(e), IsApart(b, d, i, j, e)
  PROVE  generate_mic(key, r) # generate_mic(key, s)
<1>0. /\ b \in Seq(Int) /\ d \in Seq(Int) /\ Len(b) = Len(d) /\ Len(b) \in Nat
      /\ i \in 1..Len(b) /\ j \in 1..Len(b) /\ i # j
      /\ \A k \in 1..Len(b) : k # i /\ k # j => b[k] = d[k]
  <2>1. b \in Seq(Int) /\ Len(b) \in Nat
    BY DEF DifferAt
  <2> QED
    BY <2>1 DEF DifferAt
<1>s. PICK S : S = 1..Len(b)
  OBVIOUS
<1>v. PICK v, w, x, y : /\ v = [k \in S |-> k * (b[k] + 1)] /\ w = [k \in S |-> (k * k) * (b[k] + 1)]
                        /\ x = [k \in S |-> k * (d[k] + 1)] /\ y = [k \in S |-> (k * k) * (d[k] + 1)]
  BY Zenon
<1>1. S = DOMAIN b /\ S = DOMAIN d
  BY <1>0, <1>s
<1>2. Weighs(key, r, b, S, v, w) /\ Weighs(key, s, d, S, x, y)
  BY <1>0, <1>1, <1>v DEF Weighs
<1>i. i \in S /\ j \in S /\ i \in Int /\ j \in Int /\ b[i] \in Int /\ b[j] \in Int /\ d[i] \in Int /\ d[j] \in Int
  <2>1. PICK z \in Nat : z = Len(b) /\ z = Len(d) /\ i \in 1..z /\ j \in 1..z
    BY <1>0
  <2>2. i \in S /\ j \in S /\ i \in Int /\ j \in Int
    BY <1>s, <2>1
  <2>3. b[i] \in Int /\ b[j] \in Int
    <3>1. b \in Seq(Int) /\ i \in 1..Len(b) /\ j \in 1..Len(b)
      BY <1>0
    <3> QED
      BY <3>1, ElementOfSeq, Zenon
  <2>4. d[i] \in Int /\ d[j] \in Int
    <3>1. d \in Seq(Int) /\ i \in 1..Len(d) /\ j \in 1..Len(d)
      BY <1>0
    <3> QED
      BY <3>1, ElementOfSeq, Zenon
  <2> QED
    BY <2>2, <2>3, <2>4
<1>3. AgreeBut(S, v, x, i, j)
  <2>1. ASSUME NEW k \in S, k # i, k # j
        PROVE  v[k] = x[k]
    <3>1. b[k] = d[k]
      BY <1>0, <1>s, <2>1
    <3> QED
      BY <1>v, <3>1
  <2> QED
    BY <1>0, <1>i, <2>1 DEF AgreeBut
<1>4. /\ v[i] = i * (b[i] + 1) /\ v[j] = j * (b[j] + 1)
      /\ x[i] = i * (d[i] + 1) /\ x[j] = j * (d[j] + 1)
  BY <1>v, <1>i
<1>5. PICK G, M : Summed(S, v, G) /\ Summed(S, w, M) /\ generate_mic(key, r) = MICOf(G[S], M[S])
  BY <1>2, MICSums
<1>6. PICK H, N : Summed(S, x, H) /\ Summed(S, y, N) /\ generate_mic(key, s) = MICOf(H[S], N[S])
  BY <1>2, MICSums
<1>7. /\ G[S] \in Int /\ H[S] \in Int /\ v[i] \in Int /\ v[j] \in Int /\ x[i] \in Int /\ x[j] \in Int
      /\ G[S] - H[S] = (v[i] - x[i]) + (v[j] - x[j])
  <2>1. Summed(S, v, G) /\ Summed(S, x, H) /\ AgreeBut(S, v, x, i, j)
    BY <1>3, <1>5, <1>6
  <2> QED
    BY <2>1, SumsDiffer
<1>8. M[S] \in Int /\ N[S] \in Int
  <2>1. Additive(S, w, M) /\ Additive(S, y, N)
    BY <1>5, <1>6, AnyFirst
  <2> QED
    BY <2>1 DEF Additive
<1>9. PICK p \in Int, q \in Int, m \in Int, n \in Int : p = G[S] /\ q = H[S] /\ m = M[S] /\ n = N[S]
  BY <1>7, <1>8
<1>10. p - q = i * (b[i] - d[i]) + j * (b[j] - d[j])
  <2>1. v[i] - x[i] = i * (b[i] - d[i]) /\ v[j] - x[j] = j * (b[j] - d[j])
    <3>1. i \in Int /\ b[i] \in Int /\ d[i] \in Int /\ v[i] = i * (b[i] + 1) /\ x[i] = i * (d[i] + 1)
      BY <1>4, <1>i
    <3>2. i * (b[i] + 1) - i * (d[i] + 1) = i * (b[i] - d[i])
      <4>1. PICK k \in Int, o \in Int, a \in Int : k = i /\ o = b[i] /\ a = d[i]
        BY <3>1
      <4>2. k * (o + 1) - k * (a + 1) = k * (o - a)
        BY TermsLess
      <4> QED
        BY <4>1, <4>2, Zenon
    <3>3. j \in Int /\ b[j] \in Int /\ d[j] \in Int /\ v[j] = j * (b[j] + 1) /\ x[j] = j * (d[j] + 1)
      BY <1>4, <1>i
    <3>4. j * (b[j] + 1) - j * (d[j] + 1) = j * (b[j] - d[j])
      <4>1. PICK k \in Int, o \in Int, a \in Int : k = j /\ o = b[j] /\ a = d[j]
        BY <3>3
      <4>2. k * (o + 1) - k * (a + 1) = k * (o - a)
        BY TermsLess
      <4> QED
        BY <4>1, <4>2, Zenon
    <3> QED
      BY <3>1, <3>2, <3>3, <3>4, Zenon
  <2> QED
    BY <1>7, <1>9, <2>1
<1>11. ~ SameRest(p, q)
  <2>1. p - q = e
    BY <1>10 DEF IsApart
  <2> QED
    BY <2>1, RestsApart, Zenon
<1>12. MICOf(p, m) # MICOf(q, n)
  BY <1>11, MICsTell
<1> QED
  BY <1>5, <1>6, <1>9, <1>12

\* The upper half of a counter of four bytes.
IsLong(c) == c \in Nat /\ 65536 <= c /\ c < 4294967296

\* A counter beyond two bytes has a byte above them that is not zero.
LEMMA UpperHalf ==
  ASSUME NEW c, IsLong(c)
  PROVE  \E x \in Byte, y \in Byte :
           /\ x = (c \div 65536) % 256 /\ y = (c \div 16777216) % 256 /\ x + y > 0
<1>1. c \in Nat /\ 65536 <= c /\ c < 4294967296
  BY DEF IsLong
<1>2. PICK u \in Nat, v \in Nat, x \in Nat, y \in Nat :
        /\ u = (c \div 1) % 256 /\ v = (c \div 256) % 256
        /\ x = (c \div 65536) % 256 /\ y = (c \div 16777216) % 256
        /\ u < 256 /\ v < 256 /\ x < 256 /\ y < 256
  <2>1. \A n \in Nat : n % 256 \in Nat /\ n % 256 < 256
    OBVIOUS
  <2>2. c \div 1 \in Nat /\ c \div 256 \in Nat /\ c \div 65536 \in Nat /\ c \div 16777216 \in Nat
    BY <1>1
  <2> QED
    BY <2>1, <2>2
<1>3. u * 1 + v * 256 + x * 65536 + y * 16777216 = c
  BY <1>1, <1>2, DigitsBack, SMT
<1>4. x + y > 0
  BY <1>1, <1>2, <1>3
<1>5. x < 256 /\ y < 256
  BY <1>2
<1>6. x \in Byte /\ y \in Byte
  BY <1>5 DEF Byte
<1> QED
  BY <1>2, <1>4, <1>6

\* The bytes of a number.
FourBytes(z, c) ==
  /\ z \in Seq(Byte) /\ Len(z) = 4
  /\ z[1] = (c \div 1) % 256 /\ z[2] = (c \div 256) % 256
  /\ z[3] = (c \div 65536) % 256 /\ z[4] = (c \div 16777216) % 256

\* The four bytes of a counter.
LEMMA LittleFour ==
  ASSUME NEW c \in Nat
  PROVE  FourBytes(Little(c, 4), c)
<1>1. PICK n \in 1..4 : n = 4
  OBVIOUS
<1>2. /\ Little(c, n) \in Seq(Byte) /\ Len(Little(c, n)) = n
      /\ \A k \in 1..n : Little(c, n)[k] = (c \div 256^(k - 1)) % 256
  BY LittleBytes, ZenonT(40)
<1>3. 256^(1 - 1) = 1 /\ 256^(2 - 1) = 256 /\ 256^(3 - 1) = 65536 /\ 256^(4 - 1) = 16777216
  <2>1. 1 - 1 = 0 /\ 2 - 1 = 1 /\ 3 - 1 = 2 /\ 4 - 1 = 3
    OBVIOUS
  <2> QED
    BY <2>1, Powers256
<1> QED
  BY <1>1, <1>2, <1>3 DEF FourBytes

\* The bytes of the counter, and of its lower half.
HalfOf(y, z, c) ==
  /\ z \in Seq(Byte) /\ Len(z) = 4 /\ y \in Seq(Byte) /\ Len(y) = 4
  /\ z[1] = y[1] /\ z[2] = y[2]
  /\ z[3] = (c \div 65536) % 256 /\ z[4] = (c \div 16777216) % 256
  /\ y[3] = 0 /\ y[4] = 0

\* A counter and its lower half agree in two bytes.
LEMMA CounterBytesOf ==
  ASSUME NEW c \in Nat, NEW h, h = c % 65536, NEW z, z = Little(c, 4), NEW y, y = Little(h, 4)
  PROVE  HalfOf(y, z, c)
<1>1. c % 65536 \in Nat /\ c % 65536 < 65536
  OBVIOUS
<1>2. PICK d \in Nat : d = c % 65536 /\ d < 65536
  BY <1>1
<1>3. FourBytes(z, c) /\ FourBytes(y, d)
  BY <1>2, LittleFour
<1>6. /\ z \in Seq(Byte) /\ Len(z) = 4
      /\ z[1] = (c \div 1) % 256 /\ z[2] = (c \div 256) % 256
      /\ z[3] = (c \div 65536) % 256 /\ z[4] = (c \div 16777216) % 256
  BY <1>3 DEF FourBytes
<1>7. /\ y \in Seq(Byte) /\ Len(y) = 4
      /\ y[1] = (d \div 1) % 256 /\ y[2] = (d \div 256) % 256
      /\ y[3] = (d \div 65536) % 256 /\ y[4] = (d \div 16777216) % 256
  BY <1>3 DEF FourBytes
<1>8. (d \div 1) % 256 = (c \div 1) % 256 /\ (d \div 256) % 256 = (c \div 256) % 256
  <2>1. PICK m \in Nat : c = 65536 * m + d
    <3>1. c = 65536 * (c \div 65536) + d /\ c \div 65536 \in Nat
      BY <1>2
    <3> QED
      BY <3>1
  <2>2. (d \div 1) % 256 = (c \div 1) % 256
    BY <2>1
  <2>3. c \div 256 = 256 * m + d \div 256
    BY <2>1
  <2>4. (d \div 256) % 256 = (c \div 256) % 256
    BY <2>3
  <2> QED
    BY <2>2, <2>4
<1>9. (d \div 65536) % 256 = 0 /\ (d \div 16777216) % 256 = 0
  BY <1>2
<1>10. z[1] = y[1] /\ z[2] = y[2]
  BY <1>6, <1>7, <1>8, SMTT(30)
<1>11. y[3] = 0 /\ y[4] = 0
  BY <1>7, <1>9
<1>12. Len(z) = 4 /\ Len(y) = 4 /\ z \in Seq(Byte) /\ y \in Seq(Byte)
  BY <1>6, <1>7
<1>13. z[3] = (c \div 65536) % 256 /\ z[4] = (c \div 16777216) % 256
  BY <1>6
<1> QED
  BY <1>10, <1>11, <1>12, <1>13, SMTT(60) DEF HalfOf

\* Four bytes with the same before them and behind them.
IsWithin(b, p, z, t) == p \in Seq(Int) /\ Len(p) = 26 /\ z \in Seq(Int) /\ Len(z) = 4 /\ t \in Seq(Int) /\ b = p \o (z \o t)

HasWithin(b, p, z, t) ==
  /\ b \in Seq(Int) /\ Len(b) = 30 + Len(t) /\ Len(t) \in Nat
  /\ \A k \in 1..26 : b[k] = p[k]
  /\ b[27] = z[1] /\ b[28] = z[2] /\ b[29] = z[3] /\ b[30] = z[4]
  /\ \A k \in 1..Len(t) : b[30 + k] = t[k]

\* The place of the counter in the block that begins a MIC.
LEMMA Within ==
  ASSUME NEW b, NEW p, NEW z, NEW t, IsWithin(b, p, z, t)
  PROVE  HasWithin(b, p, z, t)
<1>0. p \in Seq(Int) /\ Len(p) = 26 /\ z \in Seq(Int) /\ Len(z) = 4 /\ t \in Seq(Int)
  BY DEF IsWithin
<1>1. PICK u : u = z \o t /\ b = p \o u
  BY DEF IsWithin
<1>2. Joined(z, t, u)
  BY <1>0, <1>1, Concatenated
<1>3. u \in Seq(Int) /\ Len(u) = 4 + Len(t) /\ Len(t) \in Nat
  BY <1>0, <1>2 DEF Joined
<1>4. Joined(p, u, b)
  BY <1>0, <1>1, <1>3, Concatenated
<1>5. PICK n \in Nat : n = Len(t)
  BY <1>3
<1>6. b \in Seq(Int) /\ Len(b) = 30 + n
  BY <1>0, <1>3, <1>4, <1>5 DEF Joined
<1>7. \A k \in 1..26 : b[k] = p[k]
  BY <1>0, <1>4 DEF Joined
<1>8. \A k \in 1..(4 + n) : b[26 + k] = u[k]
  BY <1>0, <1>3, <1>4, <1>5 DEF Joined
<1>9. \A k \in 1..4 : u[k] = z[k]
  BY <1>0, <1>2 DEF Joined
<1>10. \A k \in 1..n : u[4 + k] = t[k]
  BY <1>0, <1>2, <1>5 DEF Joined
<1>11. b[27] = z[1] /\ b[28] = z[2] /\ b[29] = z[3] /\ b[30] = z[4]
  <2>1. \A k \in 1..4 : k \in 1..(4 + n)
    OBVIOUS
  <2>2. \A k \in 1..4 : b[26 + k] = z[k]
    BY <1>8, <1>9, <2>1
  <2>3. b[26 + 1] = z[1] /\ b[26 + 2] = z[2] /\ b[26 + 3] = z[3] /\ b[26 + 4] = z[4]
    BY <2>2
  <2> QED
    BY <2>3
<1>12. ASSUME NEW k \in 1..n
       PROVE  b[30 + k] = t[k]
  <2>1. PICK j \in 1..(4 + n) : j = 4 + k /\ 26 + j = 30 + k
    OBVIOUS
  <2> QED
    BY <1>8, <1>10, <2>1
<1> QED
  BY <1>5, <1>6, <1>7, <1>11, <1>12 DEF HasWithin

\* Blocks of two counters differ where the counters do.
LEMMA WithinApart ==
  ASSUME NEW b, NEW d, NEW p, NEW z, NEW y, NEW t, IsWithin(b, p, z, t), IsWithin(d, p, y, t),
         z[1] = y[1], z[2] = y[2]
  PROVE  DifferAt(b, d, 29, 30) /\ b[29] = z[3] /\ b[30] = z[4] /\ d[29] = y[3] /\ d[30] = y[4]
<1>0. HasWithin(b, p, z, t) /\ HasWithin(d, p, y, t)
  BY Within
<1>1. /\ b \in Seq(Int) /\ Len(b) = 30 + Len(t) /\ Len(t) \in Nat
      /\ \A k \in 1..26 : b[k] = p[k]
      /\ b[27] = z[1] /\ b[28] = z[2] /\ b[29] = z[3] /\ b[30] = z[4]
      /\ \A k \in 1..Len(t) : b[30 + k] = t[k]
  BY <1>0 DEF HasWithin
<1>2. /\ d \in Seq(Int) /\ Len(d) = 30 + Len(t)
      /\ \A k \in 1..26 : d[k] = p[k]
      /\ d[27] = y[1] /\ d[28] = y[2] /\ d[29] = y[3] /\ d[30] = y[4]
      /\ \A k \in 1..Len(t) : d[30 + k] = t[k]
  BY <1>0 DEF HasWithin
<1>3. PICK n \in Nat : n = Len(t)
  BY <1>1
<1>4. ASSUME NEW k \in 1..(30 + n), k # 29, k # 30
      PROVE  b[k] = d[k]
  <2>1. CASE k \in 1..26
    BY <1>1, <1>2, <2>1
  <2>2. CASE k = 27 \/ k = 28
    BY <1>1, <1>2, <2>2
  <2>3. CASE k > 30
    <3>1. PICK j \in 1..n : k = 30 + j
      <4>1. k - 30 \in 1..n /\ k = 30 + (k - 30)
        BY <2>3
      <4> QED
        BY <4>1
    <3> QED
      BY <1>1, <1>2, <1>3, <3>1
  <2> QED
    BY <1>4, <2>1, <2>2, <2>3
<1>5. 29 \in 1..(30 + n) /\ 30 \in 1..(30 + n) /\ 29 # 30
  OBVIOUS
<1> QED
  BY <1>1, <1>2, <1>3, <1>4, <1>5 DEF DifferAt

\* Brackets do not matter.
Grouped(x, y, z) == (x \o y) \o z = x \o (y \o z)

\* How three byte strings may be grouped.
LEMMA AllGrouped ==
  ASSUME NEW x, NEW y, NEW z, x \in Seq(Int), y \in Seq(Int), z \in Seq(Int)
  PROVE  Grouped(x, y, z)
BY Associated DEF Grouped

Regrouped(k, q, z, u, m) ==
  /\ k \o (((q \o z) \o u) \o m) = (k \o q) \o (z \o (u \o m))
  /\ k \o q \in Seq(Int) /\ u \o m \in Seq(Int)

\* How five may be grouped.
LEMMA AllRegrouped ==
  ASSUME NEW k, NEW q, NEW z, NEW u, NEW m,
         k \in Seq(Int), q \in Seq(Int), z \in Seq(Int), u \in Seq(Int), m \in Seq(Int)
  PROVE  Regrouped(k, q, z, u, m)
<1>1. PICK v : v = u \o m
  OBVIOUS
<1>2. PICK w : w = z \o v
  OBVIOUS
<1>3. PICK x : x = q \o z
  OBVIOUS
<1>4. v \in Seq(Int) /\ x \in Seq(Int) /\ k \o q \in Seq(Int)
  BY <1>1, <1>3, Concatenated DEF Joined
<1>5. w \in Seq(Int)
  BY <1>2, <1>4, Concatenated DEF Joined
<1>6. x \o v = (x \o u) \o m
  <2>1. Grouped(x, u, m)
    BY <1>4, AllGrouped
  <2> QED
    BY <1>1, <2>1, Zenon DEF Grouped
<1>7. x \o v = q \o w
  <2>1. Grouped(q, z, v)
    BY <1>4, AllGrouped
  <2> QED
    BY <1>2, <1>3, <2>1, Zenon DEF Grouped
<1>8. k \o (q \o w) = (k \o q) \o w
  <2>1. Grouped(k, q, w)
    BY <1>5, AllGrouped
  <2> QED
    BY <2>1, Zenon DEF Grouped
<1>9. k \o ((x \o u) \o m) = (k \o q) \o w
  BY <1>6, <1>7, <1>8, Zenon
<1>10. k \o (((q \o z) \o u) \o m) = (k \o q) \o (z \o (u \o m))
  BY <1>1, <1>2, <1>3, <1>9, Zenon
<1> QED
  BY <1>1, <1>4, <1>10, Zenon DEF Regrouped

\* The bytes under the MIC of a data frame, with the counter in the middle.
LEMMA BlockWithin ==
  ASSUME NEW key, IsBlock(key), NEW a, IsAddr(a), NEW c \in Nat, NEW d \in Byte, NEW l \in Nat, NEW m \in Seq(Int),
         NEW p, p = key \o (<<73, 0, 0, 0, 0, d>> \o Reverse(a)), NEW t, t = << 0, l >> \o m,
         NEW b, b = key \o (block_b_0(a, c, d, l) \o m)
  PROVE  IsWithin(b, p, Little(c, 4), t)
<1>1. PICK x : x = <<73, 0, 0, 0, 0, d>>
  OBVIOUS
<1>2. PICK y : y = Reverse(a)
  OBVIOUS
<1>3. PICK z : z = Little(c, 4)
  OBVIOUS
<1>4. PICK u : u = << 0, l >>
  OBVIOUS
<1>5. PICK q : q = x \o y
  OBVIOUS
<1>6. x \in Seq(Int) /\ Len(x) = 6
  <2>1. d \in Int
    BY BytesAreInts
  <2> QED
    BY <1>1, <2>1
<1>7. y \in Seq(Int) /\ Len(y) = 4
  <2>1. y \in Seq(Byte) /\ Len(y) = 4
    BY <1>2, Reversed DEF IsAddr
  <2> QED
    BY <2>1, BytesAreInts
<1>8. z \in Seq(Int) /\ Len(z) = 4
  <2>1. FourBytes(z, c)
    BY <1>3, LittleFour
  <2>2. z \in Seq(Byte) /\ Len(z) = 4
    BY <2>1 DEF FourBytes
  <2> QED
    BY <2>2, BytesAreInts
<1>9. u \in Seq(Int)
  BY <1>4
<1>10. key \in Seq(Int) /\ Len(key) = 16
  BY BytesAreInts DEF IsBlock
<1>11. q \in Seq(Int) /\ Len(q) = 10
  <2>1. Joined(x, y, q)
    BY <1>5, <1>6, <1>7, Concatenated
  <2> QED
    BY <1>6, <1>7, <2>1 DEF Joined
<1>12. Len(key \o q) = 26
  <2>1. Joined(key, q, key \o q)
    BY <1>10, <1>11, Concatenated
  <2> QED
    BY <1>10, <1>11, <2>1 DEF Joined
<1>13. block_b_0(a, c, d, l) = (q \o z) \o u
  BY <1>1, <1>2, <1>3, <1>4, <1>5, Zenon DEF block_b_0
<1>14. b = key \o (((q \o z) \o u) \o m) /\ p = key \o q /\ t = u \o m
  BY <1>1, <1>2, <1>4, <1>5, <1>13, Zenon
<1>15. b = p \o (z \o t) /\ p \in Seq(Int) /\ t \in Seq(Int)
  <2>1. key \in Seq(Int) /\ q \in Seq(Int) /\ z \in Seq(Int) /\ u \in Seq(Int) /\ m \in Seq(Int)
    BY <1>8, <1>9, <1>10, <1>11
  <2>2. Regrouped(key, q, z, u, m)
    BY <2>1, AllRegrouped
  <2> QED
    BY <1>14, <2>2, Zenon DEF Regrouped
<1>16. IsWithin(b, p, z, t)
  BY <1>8, <1>12, <1>14, <1>15 DEF IsWithin
<1> QED
  BY <1>3, <1>16

\* The MIC that a sender computes over a long counter is not that over its
\* lower half.
LEMMA LongCounter ==
  ASSUME NEW key, IsBlock(key), NEW a, IsAddr(a), NEW c, IsLong(c), NEW d \in Byte, NEW l \in Nat,
         NEW m \in Seq(Int)
  PROVE  generate_mic(key, block_b_0(a, c, d, l) \o m)
           # generate_mic(key, block_b_0(a, c % 65536, d, l) \o m)
<1>1. PICK h : h = c % 65536
  OBVIOUS
<1>2. c \in Nat /\ h \in Nat
  BY <1>1 DEF IsLong
<1>3. PICK p, t : p = key \o (<<73, 0, 0, 0, 0, d>> \o Reverse(a)) /\ t = << 0, l >> \o m
  OBVIOUS
<1>4. PICK r, s : r = block_b_0(a, c, d, l) \o m /\ s = block_b_0(a, h, d, l) \o m
  OBVIOUS
<1>5. PICK b, e : b = key \o r /\ e = key \o s
  OBVIOUS
<1>6. PICK z, y : z = Little(c, 4) /\ y = Little(h, 4)
  OBVIOUS
<1>7. IsWithin(b, p, z, t) /\ IsWithin(e, p, y, t)
  BY <1>2, <1>3, <1>4, <1>5, <1>6, BlockWithin
<1>8. /\ z[1] = y[1] /\ z[2] = y[2]
      /\ z[3] = (c \div 65536) % 256 /\ z[4] = (c \div 16777216) % 256
      /\ y[3] = 0 /\ y[4] = 0
  <2>1. HalfOf(y, z, c)
    BY <1>1, <1>2, <1>6, CounterBytesOf
  <2> QED
    BY <2>1 DEF HalfOf
<1>9. PICK i \in Byte, j \in Byte : z[3] = i /\ z[4] = j /\ i + j > 0
  BY <1>8, UpperHalf
<1>10. DifferAt(b, e, 29, 30) /\ b[29] = i /\ b[30] = j /\ e[29] = 0 /\ e[30] = 0
  BY <1>7, <1>8, <1>9, WithinApart
<1>11. PICK x \in Int : x = 29 * (i - 0) + 30 * (j - 0) /\ 0 < x /\ x < 15300
  BY <1>9 DEF Byte
<1>12. IsSmall(x) /\ IsApart(b, e, 29, 30, x)
  BY <1>10, <1>11 DEF IsSmall, IsApart
<1>13. generate_mic(key, r) # generate_mic(key, s)
  BY <1>5, <1>10, <1>12, MICsApart
<1> QED
  BY <1>1, <1>4, <1>13

-----------------------------------------------------------------------------
(* What is sent.                                                           *)

IsCounter(c) == c \in Nat /\ c < 4294967296

\* A data frame as LoRaWAN has it, with a counter of four bytes: what LoRa
\* carries has 255 bytes at most.
IsSentData(m) ==
  \E t \in UplinkTypes \cup DownlinkTypes, j \in 0..3 : \E a, c, flags, o, p, s :
    /\ IsAddr(a) /\ IsCounter(c)
    /\ o \in Seq(Byte) /\ Len(o) <= 15 /\ p \in Seq(Byte) /\ Len(p) <= 1
    /\ s \in Seq(Byte) /\ 13 + Len(o) + Len(s) <= 255 /\ (p = <<>> => s = <<>>)
    /\ m = Data(t, j, a, c, flags, o, p, s)

ClassOf(t) == IF t \in UplinkTypes THEN "MACPayloadUplink" ELSE "MACPayloadDownlink"

\* The counter of a payload as it is on the air.
Cut(x) == [x EXCEPT !.fhdr.f_cnt = @ % 65536]

\* A payload that a frame of LoRa has room for.
IsText(s) == s \in Seq(Byte) /\ Len(s) \in 0..255

\* What a data frame m is on the air: n, with the lower half of its counter.
IsShortOf(n, m, t, a, c, p, s) ==
  /\ t \in UplinkTypes \cup DownlinkTypes /\ IsMHDR(m.mhdr) /\ m.mhdr.mtype = t
  /\ IsAddr(a) /\ IsCounter(c)
  /\ IsText(s)
  /\ m.plain = s /\ m.payload.class = ClassOf(t)
  /\ m.payload.fhdr["dev_addr"] = a /\ m.payload.fhdr["f_cnt"] = c
  /\ n = Cut(m.payload) /\ (c < 65536 => n = m.payload)
  /\ IsMACPayload(n) /\ n.class = ClassOf(t) /\ n.f_port = p
  /\ n.fhdr["dev_addr"] = a /\ n.fhdr["f_cnt"] = c % 65536
  /\ n.frm_payload = decrypt_frm_payload(s, SessionKey(p), a, c, TypeDirection(t))

\* The class of a frame has the direction of its type.
LEMMA DirectionsOf ==
  ASSUME NEW t \in UplinkTypes \cup DownlinkTypes, NEW n, n.class = ClassOf(t)
  PROVE  /\ DirectionOf(n) = TypeDirection(t) /\ TypeDirection(t) \in Byte /\ ClassOf(t) \in DataClasses
         /\ n.class \in {"MACPayloadUplink", "MACPayloadDownlink"} /\ n.class # "JoinRequest"
BY DEF DirectionOf, TypeDirection, ClassOf, UplinkTypes, DownlinkTypes, DataClasses, Byte

\* Every port has a key.
LEMMA SessionKeys == \A p : IsBlock(SessionKey(p))
BY KeyBlocks DEF SessionKey

\* The lower half of a counter has two bytes.
LEMMA LowerHalf == \A c \in Nat : c % 65536 \in Nat /\ c % 65536 < 65536
  BY SMT

\* The values of the FHDR of a data frame.
FlagOf(x, a, c, flags, o) ==
  CASE x = "dev_addr" -> a
    [] x = "f_cnt" -> c
    [] x = "f_opts_len" -> Len(o)
    [] OTHER -> IF x \in flags THEN 1 ELSE 0

FlagsFHDR(class, a, c, flags, o) ==
  [x \in Names(FHDR(class)) |-> FlagOf(x, a, c, flags, o)]

\* The fields of an FHDR that are not flags.
LEMMA FlagValues ==
  ASSUME NEW a, NEW c, NEW flags, NEW o
  PROVE  /\ FlagOf("dev_addr", a, c, flags, o) = a
         /\ FlagOf("f_cnt", a, c, flags, o) = c
         /\ FlagOf("f_opts_len", a, c, flags, o) = Len(o)
<1>1. FlagOf("dev_addr", a, c, flags, o) = a
  BY SMT DEF FlagOf
<1>2. FlagOf("f_cnt", a, c, flags, o) = c
  BY SMT DEF FlagOf
<1>3. FlagOf("f_opts_len", a, c, flags, o) = Len(o)
  BY SMT DEF FlagOf
<1> QED
  BY <1>1, <1>2, <1>3

\* The flags.
LEMMA OtherFlags ==
  ASSUME NEW a, NEW c, NEW flags, NEW o, NEW x, x \notin {"dev_addr", "f_cnt", "f_opts_len"}
  PROVE  FlagOf(x, a, c, flags, o) \in {0, 1}
BY SMT DEF FlagOf

\* The names of the fields of an FHDR are N, three of them numbers.
IsNamed(N) == "dev_addr" \in N /\ "f_cnt" \in N /\ "f_opts_len" \in N

\* Which fields an FHDR has.
LEMMA FHDRNamed ==
  ASSUME NEW class \in DataClasses
  PROVE  IsNamed(Names(FHDR(class)))
<1>1. CASE class = "MACPayloadUplink"
  <2>1. Names(FHDR("MACPayloadUplink")) = {"dev_addr", "f_cnt", "adr", "adr_ack_req", "ack", "class_b", "f_opts_len"}
    BY FHDRUplinkListed
  <2> QED
    BY <1>1, <2>1 DEF IsNamed
<1>2. CASE class = "MACPayloadDownlink"
  <2>1. Names(FHDR("MACPayloadDownlink")) = {"dev_addr", "f_cnt", "adr", "ack", "f_pending", "f_opts_len"}
    BY FHDRDownlinkListed
  <2> QED
    BY <1>2, <2>1 DEF IsNamed
<1> QED
  BY <1>1, <1>2 DEF DataClasses

\* The values h of an FHDR whose names are N; the flags among them are bits.
IsFlags(N, h, a, c, k) ==
  /\ h = [x \in N |-> h[x]]
  /\ h["dev_addr"] = a /\ h["f_cnt"] = c /\ h["f_opts_len"] = k
  /\ \A x \in N \ {"dev_addr", "f_cnt", "f_opts_len"} : h[x] \in {0, 1}

\* The FHDR that Data makes.
LEMMA FlagsAre ==
  ASSUME NEW class \in DataClasses, NEW a, NEW c, NEW flags, NEW o
  PROVE  IsFlags(Names(FHDR(class)), FlagsFHDR(class, a, c, flags, o), a, c, Len(o))
<1>1. PICK N : N = Names(FHDR(class))
  OBVIOUS
<1>2. IsNamed(N)
  BY <1>1, FHDRNamed
<1>3. PICK h : h = FlagsFHDR(class, a, c, flags, o)
  OBVIOUS
<1>4. h = [x \in N |-> FlagOf(x, a, c, flags, o)]
  BY <1>1, <1>3 DEF FlagsFHDR
<1>5. \A x \in N : h[x] = FlagOf(x, a, c, flags, o)
  BY <1>4
<1>6. h = [x \in N |-> h[x]]
  BY <1>4
<1>7. h["dev_addr"] = a /\ h["f_cnt"] = c /\ h["f_opts_len"] = Len(o)
  BY <1>2, <1>5, FlagValues DEF IsNamed
<1>8. \A x \in N \ {"dev_addr", "f_cnt", "f_opts_len"} : h[x] \in {0, 1}
  BY <1>5, OtherFlags
<1>9. IsFlags(N, h, a, c, Len(o))
  BY <1>6, <1>7, <1>8 DEF IsFlags
<1> QED
  BY <1>1, <1>3, <1>9

\* The counter is set to a short one.
LEMMA CounterSet ==
  ASSUME NEW N, IsNamed(N), NEW h, NEW a, NEW c, NEW k, IsFlags(N, h, a, c, k), NEW d
  PROVE  IsFlags(N, [h EXCEPT !["f_cnt"] = d], a, d, k)
<1>1. h = [x \in N |-> h[x]]
  BY DEF IsFlags
<1>2. PICK g : g = [h EXCEPT !["f_cnt"] = d]
  OBVIOUS
<1>3. g = [x \in N |-> IF x = "f_cnt" THEN d ELSE h[x]]
  BY <1>1, <1>2
<1>4. \A x \in N : g[x] = IF x = "f_cnt" THEN d ELSE h[x]
  BY <1>3
<1>5. g = [x \in N |-> g[x]]
  BY <1>3
<1>6. g["dev_addr"] = a /\ g["f_cnt"] = d /\ g["f_opts_len"] = k
  BY <1>4 DEF IsNamed, IsFlags
<1>7. \A x \in N \ {"dev_addr", "f_cnt", "f_opts_len"} : g[x] \in {0, 1}
  BY <1>4 DEF IsFlags
<1>8. IsFlags(N, g, a, d, k)
  BY <1>5, <1>6, <1>7 DEF IsFlags
<1> QED
  BY <1>2, <1>8

IsLength(k) == k \in 0..15

\* What fits into a frame.
LEMMA Lengths ==
  ASSUME NEW o, o \in Seq(Byte), NEW s, s \in Seq(Byte), Len(o) <= 15, 13 + Len(o) + Len(s) <= 255
  PROVE  IsLength(Len(o)) /\ IsText(s)
<1>1. Len(o) \in Nat /\ Len(s) \in Nat
  OBVIOUS
<1>2. PICK u \in Nat, v \in Nat : u = Len(o) /\ v = Len(s)
  BY <1>1
<1>3. u <= 15 /\ 13 + u + v <= 255
  BY <1>2
<1>4. u \in 0..15 /\ v \in 0..255
  BY <1>3, SMT
<1> QED
  BY <1>2, <1>4 DEF IsLength, IsText

\* A payload that is encrypted is decrypted to what it was.
LEMMA TextAgain ==
  ASSUME NEW s, IsText(s), NEW key, IsBlock(key), NEW a, IsAddr(a), NEW c, IsCounter(c), NEW d \in Byte
  PROVE  IsText(decrypt_frm_payload(s, key, a, c, d))
           /\ Len(decrypt_frm_payload(s, key, a, c, d)) = Len(s)
           /\ decrypt_frm_payload(decrypt_frm_payload(s, key, a, c, d), key, a, c, d) = s
<1>1. s \in Seq(Byte) /\ Len(s) \in 0..255
  BY DEF IsText
<1>2. c \in Nat
  BY DEF IsCounter
<1>3. PICK t : t = decrypt_frm_payload(s, key, a, c, d)
  OBVIOUS
<1>4. t \in Seq(Byte) /\ Len(t) = Len(s) /\ decrypt_frm_payload(t, key, a, c, d) = s
  BY <1>1, <1>2, <1>3, DecryptedAgain, SMTT(30)
<1>5. IsText(t)
  BY <1>1, <1>4 DEF IsText
<1> QED
  BY <1>3, <1>4, <1>5

WithCount(h, d) == [h EXCEPT !["f_cnt"] = d]

\* The FHDR g as it is on the air.
IsOnAir(class, g, a, d, k) ==
  IsFHDR(class, g) /\ g["dev_addr"] = a /\ g["f_cnt"] = d /\ g["f_opts_len"] = k

\* An FHDR with the counter it has on the air.
LEMMA ShortFHDR ==
  ASSUME NEW class \in DataClasses, NEW h, NEW a, IsAddr(a), NEW c, NEW k, IsLength(k),
         NEW d, IsShort(d), IsFlags(Names(FHDR(class)), h, a, c, k)
  PROVE  IsOnAir(class, WithCount(h, d), a, d, k)
<1>a. PICK g : g = [h EXCEPT !["f_cnt"] = d]
  OBVIOUS
<1>2. PICK N : N = Names(FHDR(class))
  OBVIOUS
<1>b. IsNamed(N) /\ IsFlags(N, h, a, c, k)
  BY <1>2, FHDRNamed
<1>3. IsFlags(N, g, a, d, k)
  BY <1>a, <1>b, CounterSet
<1>4. /\ g = [x \in N |-> g[x]]
      /\ g["dev_addr"] = a /\ g["f_cnt"] = d /\ g["f_opts_len"] = k
      /\ \A x \in N \ {"dev_addr", "f_cnt", "f_opts_len"} : g[x] \in {0, 1}
  BY <1>3 DEF IsFlags
<1>5. \A x \in N \ {"dev_addr", "f_cnt", "f_opts_len"} : g[x] \in 0..1
  BY <1>4
<1>6. IsFHDR(class, g)
  BY <1>2, <1>4, <1>5 DEF IsFHDR, IsShort, IsLength
<1> QED
  BY <1>a, <1>4, <1>6 DEF IsOnAir, WithCount

\* The payload of a data frame as it is sent, before and after its counter is cut.
LEMMA PayloadCut ==
  ASSUME NEW class, NEW h, NEW o, NEW p, NEW f, NEW d, d = h["f_cnt"] % 65536
  PROVE  Cut(MACPayload(class, h, o, p, f)) = MACPayload(class, WithCount(h, d), o, p, f)
<1>1. PICK g : g = WithCount(h, d)
  OBVIOUS
<1>2. [MACPayload(class, h, o, p, f) EXCEPT !.fhdr.f_cnt = @ % 65536] = MACPayload(class, g, o, p, f)
  BY <1>1 DEF MACPayload, WithCount
<1> QED
  BY <1>1, <1>2 DEF Cut

\* Data, part by part.
LEMMA SentParts ==
  ASSUME NEW t, NEW j, NEW a, NEW c, NEW flags, NEW o, NEW p, NEW s
  PROVE  Data(t, j, a, c, flags, o, p, s) =
           Intent(t, j,
             MACPayload(ClassOf(t), FlagsFHDR(ClassOf(t), a, c, flags, o), o, p,
               decrypt_frm_payload(s, SessionKey(p), a, c, TypeDirection(t))), s)
<1>1. PICK h : h = FlagsFHDR(ClassOf(t), a, c, flags, o)
  OBVIOUS
<1>2. PICK f : f = decrypt_frm_payload(s, SessionKey(p), a, c, TypeDirection(t))
  OBVIOUS
<1>3. PICK class : class = ClassOf(t)
  OBVIOUS
<1>4. Data(t, j, a, c, flags, o, p, s) =
        Intent(t, j,
          [MACPayload(ClassOf(t), FlagsFHDR(ClassOf(t), a, c, flags, o), o, p, <<>>) EXCEPT !.frm_payload =
             decrypt_frm_payload(s, SessionKey(p), a, c, TypeDirection(t))], s)
  BY DEF Data, FlagsFHDR, FlagOf, ClassOf
<1>5. [MACPayload(class, h, o, p, <<>>) EXCEPT !.frm_payload = f] = MACPayload(class, h, o, p, f)
  BY DEF MACPayload
<1> QED
  BY <1>1, <1>2, <1>3, <1>4, <1>5, Zenon

\* A frame of a sender, with the counter it has on the air.
LEMMA SentShort ==
  ASSUME NEW m, IsSentData(m)
  PROVE  \E n, t, a, c, p, s : IsShortOf(n, m, t, a, c, p, s)
<1>1. PICK t \in UplinkTypes \cup DownlinkTypes, j \in 0..3 : \E a, c, flags, o, p, s :
        /\ IsAddr(a) /\ IsCounter(c)
        /\ o \in Seq(Byte) /\ Len(o) <= 15 /\ p \in Seq(Byte) /\ Len(p) <= 1
        /\ s \in Seq(Byte) /\ 13 + Len(o) + Len(s) <= 255 /\ (p = <<>> => s = <<>>)
        /\ m = Data(t, j, a, c, flags, o, p, s)
  BY DEF IsSentData
<1>2. PICK a, c, flags, o, p, s :
        /\ IsAddr(a) /\ IsCounter(c)
        /\ o \in Seq(Byte) /\ Len(o) <= 15 /\ p \in Seq(Byte) /\ Len(p) <= 1
        /\ s \in Seq(Byte) /\ 13 + Len(o) + Len(s) <= 255 /\ (p = <<>> => s = <<>>)
        /\ m = Data(t, j, a, c, flags, o, p, s)
  BY <1>1
<1>3. PICK class \in DataClasses : class = ClassOf(t)
  BY DEF ClassOf, DataClasses
<1>4. PICK h : h = FlagsFHDR(class, a, c, flags, o) /\ IsFlags(Names(FHDR(class)), h, a, c, Len(o))
  BY FlagsAre
<1>5. PICK key : key = SessionKey(p) /\ IsBlock(key)
  BY SessionKeys
<1>6. PICK e \in Byte : e = TypeDirection(t)
  BY DEF TypeDirection, Byte
<1>7. PICK f : f = decrypt_frm_payload(s, key, a, c, e)
  OBVIOUS
<1>8. IsLength(Len(o)) /\ IsText(s)
  BY <1>2, Lengths
<1>9. c \in Nat
  BY <1>2 DEF IsCounter
<1>10. IsText(f) /\ Len(f) = Len(s)
  BY <1>2, <1>5, <1>7, <1>8, TextAgain
<1>11. p = <<>> => f = <<>>
  <2>1. SUFFICES ASSUME p = <<>> PROVE f = <<>>
    OBVIOUS
  <2>2. f \in Seq(Byte)
    BY <1>10 DEF IsText
  <2>3. s = <<>>
    BY <1>2, <2>1
  <2>4. Len(f) = 0
    BY <1>10, <2>3
  <2> QED
    BY <2>2, <2>4
<1>12. PICK x : x = MACPayload(class, h, o, p, f)
  OBVIOUS
<1>13. m = Intent(t, j, x, s)
  BY <1>2, <1>3, <1>4, <1>5, <1>6, <1>7, <1>12, SentParts, Zenon
<1>14. PICK d : d = c % 65536 /\ IsShort(d)
  BY <1>9, LowerHalf DEF IsShort
<1>15. PICK g : g = WithCount(h, d)
  OBVIOUS
<1>16. IsFHDR(class, g) /\ g["dev_addr"] = a /\ g["f_cnt"] = d /\ g["f_opts_len"] = Len(o)
  <2>1. IsAddr(a) /\ IsLength(Len(o)) /\ IsShort(d) /\ IsFlags(Names(FHDR(class)), h, a, c, Len(o))
    BY <1>2, <1>4, <1>8, <1>14
  <2> QED
    BY <1>15, <2>1, ShortFHDR DEF IsOnAir
<1>17. h["dev_addr"] = a /\ h["f_cnt"] = c
  BY <1>4 DEF IsFlags
<1>18. PICK n : n = MACPayload(class, g, o, p, f)
  OBVIOUS
<1>19. Cut(x) = n
  <2>1. d = h["f_cnt"] % 65536
    BY <1>14, <1>17
  <2>2. Cut(MACPayload(class, h, o, p, f)) = MACPayload(class, WithCount(h, d), o, p, f)
    BY <2>1, PayloadCut
  <2> QED
    BY <1>12, <1>15, <1>18, <2>2
<1>20. n.class = class /\ n.fhdr = g /\ n.f_opts = o /\ n.f_port = p /\ n.frm_payload = f
  BY <1>18 DEF MACPayload
<1>21. IsMACPayload(n)
  BY <1>2, <1>10, <1>11, <1>16, <1>18, <1>20 DEF IsMACPayload, IsText
<1>22. m.mhdr = [mtype |-> t, major |-> j] /\ m.payload = x /\ m.plain = s
  BY <1>13 DEF Intent
<1>23. t \in 0..7
  BY DEF UplinkTypes, DownlinkTypes
<1>24. IsMHDR(m.mhdr) /\ m.mhdr.mtype = t
  BY <1>22, <1>23 DEF IsMHDR
<1>25. x.class = class /\ x.fhdr = h
  BY <1>12 DEF MACPayload
<1>26. m.payload.fhdr["dev_addr"] = a /\ m.payload.fhdr["f_cnt"] = c /\ m.payload.class = ClassOf(t)
  BY <1>3, <1>17, <1>22, <1>25
<1>27. n = Cut(m.payload)
  BY <1>19, <1>22
<1>28. n.frm_payload = decrypt_frm_payload(s, SessionKey(p), a, c, TypeDirection(t))
  BY <1>5, <1>6, <1>7, <1>20
<1>29. n.class = ClassOf(t) /\ n.fhdr["dev_addr"] = a /\ n.fhdr["f_cnt"] = c % 65536
  BY <1>3, <1>14, <1>16, <1>20
<1>30. c < 65536 => n = m.payload
  <2>1. SUFFICES ASSUME c < 65536 PROVE g = h
    BY <1>12, <1>18, <1>22
  <2>2. d = h["f_cnt"]
    BY <1>9, <1>14, <1>17, <2>1
  <2>3. PICK N : h = [u \in N |-> h[u]]
    BY <1>4 DEF IsFlags
  <2> QED
    BY <1>15, <2>2, <2>3 DEF WithCount
<1>31. IsShortOf(n, m, t, a, c, p, s)
  BY <1>2, <1>8, <1>20, <1>21, <1>22, <1>24, <1>26, <1>27, <1>28, <1>29, <1>30 DEF IsShortOf
<1> QED
  BY <1>31

\* Numbers behind numbers.
LEMMA IntsJoined ==
  ASSUME NEW s \in Seq(Int), NEW t \in Seq(Int)
  PROVE  s \o t \in Seq(Int)
BY Concatenated DEF Joined

\* Bytes are numbers.
LEMMA BytesInts ==
  ASSUME NEW s \in Seq(Byte)
  PROVE  s \in Seq(Int)
BY BytesAreInts

\* What the MIC of a data frame is computed over.
Signed(a, c, d, msg) == block_b_0(a, c, d, Len(msg)) \o msg

\* What a MIC is computed of.
LEMMA SignedInts ==
  ASSUME NEW a, IsAddr(a), NEW c, IsCounter(c), NEW d \in Byte, NEW msg \in Seq(Byte)
  PROVE  Signed(a, c, d, msg) \in Seq(Int)
<1> DEFINE x == <<73, 0, 0, 0, 0, d>>
           y == Reverse(a)
           z == Little(c, 4)
           u == << 0, Len(msg) >>
<1>1. x \in Seq(Int)
  <2>1. d \in Int
    BY DEF Byte
  <2> QED
    BY <2>1
<1>2. y \in Seq(Int)
  BY Reversed, BytesInts DEF IsAddr
<1>3. z \in Seq(Int)
  <2>1. 4 \in 1..4 /\ c \in Nat
    BY DEF IsCounter
  <2>2. z \in Seq(Byte)
    BY <2>1, LittleBytes
  <2> QED
    BY <2>2, BytesInts
<1>4. u \in Seq(Int)
  <2>1. PICK l \in Int : l = Len(msg)
    OBVIOUS
  <2>2. << 0, l >> \in Seq(Int)
    BY <2>1
  <2> QED
    BY <2>1, <2>2
<1>5. Signed(a, c, d, msg) = (((x \o y) \o z) \o u) \o msg
  BY DEF Signed, block_b_0
<1> HIDE DEF x, y, z, u
<1>6. x \o y \in Seq(Int)
  BY <1>1, <1>2, IntsJoined
<1>7. (x \o y) \o z \in Seq(Int)
  BY <1>3, <1>6, IntsJoined
<1>8. ((x \o y) \o z) \o u \in Seq(Int)
  BY <1>4, <1>7, IntsJoined
<1>9. msg \in Seq(Int)
  BY BytesInts
<1> QED
  BY <1>5, <1>8, <1>9, IntsJoined

\* The payload of a data frame is parsed by the class of its direction.
LEMMA ParsesData ==
  ASSUME NEW t \in UplinkTypes \cup DownlinkTypes, NEW w
  PROVE  parsePayload(t, w) = parseMACPayload(ClassOf(t), w)
<1>1. CASE t \in UplinkTypes
  BY <1>1, TypesApart DEF parsePayload, ClassOf
<1>2. CASE t \in DownlinkTypes /\ t \notin UplinkTypes
  BY <1>2, TypesApart DEF parsePayload, ClassOf
<1> QED
  BY <1>1, <1>2

\* A data frame without its MIC.
Message(m) ==
  Encode(MHDR, m.mhdr) \o CHOOSE bytes \in generateMACPayload(Cut(m.payload)) : TRUE

\* A data frame is a message and its MIC.
LEMMA MessageBytes ==
  ASSUME NEW m
  PROVE  DataBytes(m) = Message(m) \o generate_mic(nwkSKey,
           Signed(m.payload.fhdr["dev_addr"], m.payload.fhdr["f_cnt"], TypeDirection(m.mhdr.mtype), Message(m)))
BY SMTT(100) DEF DataBytes, Message, Cut, Signed

\* The bytes of a data frame m are those w of its payload, with header and MIC.
IsMessage(m, w, msg) == msg = Encode(MHDR, m.mhdr) \o w

IsOnTheAir(n, m, t, a, c, w, msg, mic) ==
  /\ w \in Seq(Byte) /\ msg \in Seq(Byte) /\ mic \in Seq(Byte) /\ Len(mic) = 4
  /\ generateMACPayload(n) = {w} /\ IsMessage(m, w, msg)
  /\ mic = generate_mic(nwkSKey, Signed(a, c, TypeDirection(t), msg))
  /\ DataBytes(m) = msg \o mic
  /\ DataBytes(m) \in Seq(Byte)
  /\ parsePHYPayload(DataBytes(m)) = {PHYPayload(m.mhdr, n, mic)}

\* Each part of a data frame on the air.
LEMMA DataOnAir ==
  ASSUME NEW n, NEW m, NEW t, NEW a, NEW c, NEW p, NEW s, IsShortOf(n, m, t, a, c, p, s)
  PROVE  \E w, msg, mic : IsOnTheAir(n, m, t, a, c, w, msg, mic)
<1>0. /\ t \in UplinkTypes \cup DownlinkTypes /\ IsMHDR(m.mhdr) /\ m.mhdr.mtype = t
      /\ IsAddr(a) /\ IsCounter(c)
      /\ m.payload.fhdr["dev_addr"] = a /\ m.payload.fhdr["f_cnt"] = c
      /\ n = Cut(m.payload)
      /\ IsMACPayload(n) /\ n.class = ClassOf(t)
  BY DEF IsShortOf
<1>1. PICK w : w \in Seq(Byte) /\ generateMACPayload(n) = {w} /\ parseMACPayload(ClassOf(t), w) = {n}
  <2>1. PICK w \in Seq(Byte) : generateMACPayload(n) = {w} /\ parseMACPayload(n.class, w) = {n}
    BY <1>0, MACPayloadAgain
  <2> QED
    BY <1>0, <2>1
<1>2. PICK h : h = m.mhdr
  OBVIOUS
<1>3. PICK x \in Byte : Encode(MHDR, h) = << x >>
  BY <1>0, <1>2, MHDRAgain
<1>4. << x >> \in Seq(Byte)
  OBVIOUS
<1>5. PICK msg : msg = Encode(MHDR, h) \o w
  OBVIOUS
<1>6. msg \in Seq(Byte)
  BY <1>1, <1>3, <1>4, <1>5, BytesJoined
<1>7. PICK e \in Byte : e = TypeDirection(t)
  BY DEF TypeDirection, Byte
<1>8. PICK mic : mic = generate_mic(nwkSKey, Signed(a, c, e, msg))
  OBVIOUS
<1>9. mic \in Seq(Byte) /\ Len(mic) = 4
  <2>1. nwkSKey \in Seq(Int)
    BY KeyBlocks, BytesInts DEF IsBlock
  <2>2. Signed(a, c, e, msg) \in Seq(Int)
    BY <1>0, <1>6, SignedInts
  <2> QED
    BY <1>8, <2>1, <2>2, MICBytes
<1>10. DataBytes(m) = msg \o mic
  <2>1. (CHOOSE bytes \in generateMACPayload(n) : TRUE) = w
    BY <1>1
  <2>2. Message(m) = msg
    BY <1>0, <1>2, <1>5, <2>1 DEF Message
  <2> QED
    BY <1>0, <1>7, <1>8, <2>2, MessageBytes
<1>11. parsePayload(h.mtype, w) = {n}
  BY <1>0, <1>1, <1>2, ParsesData
<1>12. PICK r : r = (Encode(MHDR, h) \o w) \o mic
  OBVIOUS
<1>13. r \in Seq(Byte) /\ parsePHYPayload(r) = {PHYPayload(h, n, mic)}
  <2>1. AreParts(r, h, w, mic, n)
    BY <1>0, <1>1, <1>2, <1>9, <1>11, <1>12 DEF AreParts
  <2> QED
    BY <2>1, FrameAgain
<1>14. DataBytes(m) = r
  BY <1>5, <1>10, <1>12
<1>15. IsOnTheAir(n, m, t, a, c, w, msg, mic)
  BY <1>1, <1>2, <1>5, <1>6, <1>7, <1>8, <1>9, <1>10, <1>13, <1>14 DEF IsOnTheAir, IsMessage
<1> QED
  BY <1>15

\* The counter is short or it is long.
LEMMA CounterSizes ==
  ASSUME NEW c, IsCounter(c)
  PROVE  /\ c \in Nat /\ (c < 65536 \/ IsLong(c)) /\ ~(c < 65536 /\ IsLong(c))
         /\ c < 65536 => c % 65536 = c /\ c \div 65536 = 0
         /\ IsLong(c) => c \div 65536 \in Nat /\ c \div 65536 > 0
BY SMT DEF IsCounter, IsLong

\* The MIC that the receiver computes of a data frame, over the counter that
\* arrived.
LEMMA ReceiversMIC ==
  ASSUME NEW n, NEW m, NEW t, NEW a, NEW c, NEW p, NEW s, IsShortOf(n, m, t, a, c, p, s),
         NEW w, NEW msg, NEW mic, IsOnTheAir(n, m, t, a, c, w, msg, mic)
  PROVE  generate_mic_mac_payload(m.mhdr, n, nwkSKey)
           = {generate_mic(nwkSKey, Signed(a, c % 65536, TypeDirection(t), msg))}
<1>1. n.fhdr["dev_addr"] = a /\ n.fhdr["f_cnt"] = c % 65536 /\ DirectionOf(n) = TypeDirection(t)
  BY DirectionsOf DEF IsShortOf
<1>2. generateMACPayload(n) = {w} /\ msg = Encode(MHDR, m.mhdr) \o w
  BY DEF IsOnTheAir, IsMessage
<1>3. generate_mic_mac_payload(m.mhdr, n, nwkSKey)
        = {generate_mic(nwkSKey,
             Signed(n.fhdr["dev_addr"], n.fhdr["f_cnt"], DirectionOf(n), Encode(MHDR, m.mhdr) \o bytes)) :
           bytes \in generateMACPayload(n)}
  BY DEF generate_mic_mac_payload, Signed
<1>4. generate_mic_mac_payload(m.mhdr, n, nwkSKey)
        = {generate_mic(nwkSKey,
             Signed(n.fhdr["dev_addr"], n.fhdr["f_cnt"], DirectionOf(n), Encode(MHDR, m.mhdr) \o w))}
  BY <1>2, <1>3, Zenon
<1> QED
  BY <1>1, <1>2, <1>4

\* A data frame passes the test of its MIC if its counter is short.
LEMMA DataVerified ==
  ASSUME NEW n, NEW m, NEW t, NEW a, NEW c, NEW p, NEW s, IsShortOf(n, m, t, a, c, p, s),
         NEW w, NEW msg, NEW mic, IsOnTheAir(n, m, t, a, c, w, msg, mic)
  PROVE  verify_mic_phy_payload(PHYPayload(m.mhdr, n, mic), appKey, nwkSKey) <=> c < 65536
<1>0. /\ n.class \in {"MACPayloadUplink", "MACPayloadDownlink"} /\ n.class # "JoinRequest"
      /\ IsAddr(a) /\ IsCounter(c)
  BY DirectionsOf DEF IsShortOf
<1>1. PICK d \in Byte : d = TypeDirection(t)
  BY DEF TypeDirection, Byte
<1>2. mic = generate_mic(nwkSKey, Signed(a, c, d, msg)) /\ msg \in Seq(Byte)
  BY <1>1 DEF IsOnTheAir
<1>3. PICK x : x = generate_mic(nwkSKey, Signed(a, c % 65536, d, msg))
  OBVIOUS
<1>4. generate_mic_mac_payload(m.mhdr, n, nwkSKey) = {x}
  BY <1>1, <1>3, ReceiversMIC
<1>5. PICK q : q = PHYPayload(m.mhdr, n, mic)
  OBVIOUS
<1>6. q.payload = n /\ q.mhdr = m.mhdr /\ q.mic = mic
  BY <1>5 DEF PHYPayload
<1>7. verify_mic_phy_payload(q, appKey, nwkSKey) <=> mic \in generate_mic_mac_payload(m.mhdr, n, nwkSKey)
  BY <1>0, <1>6 DEF verify_mic_phy_payload
<1>8. verify_mic_phy_payload(q, appKey, nwkSKey) <=> mic = x
  BY <1>4, <1>7
<1>9. CASE c < 65536
  <2>1. c % 65536 = c
    BY <1>0, <1>9, CounterSizes
  <2>2. mic = x
    BY <1>2, <1>3, <2>1
  <2> QED
    BY <1>5, <1>8, <1>9, <2>2
<1>10. CASE IsLong(c)
  <2>1. PICK l \in Nat : l = Len(msg)
    BY <1>2
  <2>2. msg \in Seq(Int)
    BY <1>2, BytesInts
  <2>3. generate_mic(nwkSKey, block_b_0(a, c, d, l) \o msg)
          # generate_mic(nwkSKey, block_b_0(a, c % 65536, d, l) \o msg)
    BY <1>0, <1>10, <2>2, KeyBlocks, LongCounter
  <2>4. mic # x
    BY <1>2, <1>3, <2>1, <2>3 DEF Signed
  <2>5. ~(c < 65536)
    BY <1>0, <1>10, CounterSizes
  <2> QED
    BY <1>5, <1>8, <2>4, <2>5
<1> QED
  BY <1>0, <1>9, <1>10, CounterSizes

\* A frame whose counter is set beyond the two bytes does not.
LEMMA LongNever ==
  ASSUME NEW q, q.payload.class \in {"MACPayloadUplink", "MACPayloadDownlink"},
         NEW k, k = q.payload.fhdr["f_cnt"], ~(k < 65536)
  PROVE  ~verify_mic_phy_payload(q, appKey, nwkSKey)
<1>1. PICK n : n = q.payload
  OBVIOUS
<1>2. generateFHDR(n.class, n.fhdr, n.f_opts) = {}
  <2>1. PICK h, o, class : h = n.fhdr /\ o = n.f_opts /\ class = n.class
    OBVIOUS
  <2>2. ~(h["f_cnt"] < 65536)
    BY <1>1, <2>1
  <2>3. generateFHDR(class, h, o) = {}
    BY <2>2 DEF generateFHDR
  <2> QED
    BY <2>1, <2>3
<1>3. generateMACPayload(n) = {}
  BY <1>2 DEF generateMACPayload
<1>4. generate_mic_mac_payload(q.mhdr, n, nwkSKey) = {}
  BY <1>3 DEF generate_mic_mac_payload
<1>5. n.class \in {"MACPayloadUplink", "MACPayloadDownlink"} /\ n.class # "JoinRequest"
  BY <1>1
<1> QED
  BY <1>1, <1>4, <1>5 DEF verify_mic_phy_payload

\* What the receiver decrypts of a payload.
PlainText(n) ==
  decrypt_frm_payload(n.frm_payload, SessionKey(n.f_port), n.fhdr["dev_addr"], n.fhdr["f_cnt"], DirectionOf(n))

\* Its payload is decrypted to what the sender meant, if its counter is short.
LEMMA PlainAgain ==
  ASSUME NEW n, NEW m, NEW t, NEW a, NEW c, NEW p, NEW s, IsShortOf(n, m, t, a, c, p, s), c < 65536
  PROVE  PlainText(n) = m.plain
<1>1. /\ n.fhdr["dev_addr"] = a /\ n.fhdr["f_cnt"] = c % 65536 /\ DirectionOf(n) = TypeDirection(t)
      /\ n.f_port = p /\ IsAddr(a) /\ IsCounter(c) /\ IsText(s) /\ m.plain = s
      /\ n.frm_payload = decrypt_frm_payload(s, SessionKey(p), a, c, TypeDirection(t))
  BY DirectionsOf DEF IsShortOf
<1>2. c % 65536 = c
  BY <1>1, CounterSizes
<1>3. PICK d \in Byte : d = TypeDirection(t)
  BY DEF TypeDirection, Byte
<1>4. PICK key : key = SessionKey(p) /\ IsBlock(key)
  BY SessionKeys
<1>5. decrypt_frm_payload(decrypt_frm_payload(s, key, a, c, d), key, a, c, d) = s
  BY <1>1, <1>3, <1>4, TextAgain
<1>6. PICK f : f = decrypt_frm_payload(s, key, a, c, d)
  OBVIOUS
<1>7. n.frm_payload = f
  BY <1>1, <1>3, <1>4, <1>6
<1>8. PlainText(n) = decrypt_frm_payload(f, key, a, c, d)
  BY <1>1, <1>2, <1>3, <1>4, <1>7 DEF PlainText
<1> QED
  BY <1>1, <1>5, <1>6, <1>8

\* What a receiver has of the frame m: it is parsed from the bytes r, with the
\* upper half of the counter set or not.
IsReceived(q, m, r) ==
  \/ q \in parsePHYPayload(r)
  \/ \E z \in parsePHYPayload(r) : IsData(z) /\ q = Counted(z, Upper(m))

IsFine(q, m) ==
  /\ verify_mic_phy_payload(q, appKey, nwkSKey) <=> m.payload.fhdr["f_cnt"] < 65536
  /\ m.payload.fhdr["f_cnt"] < 65536 => PlainText(q.payload) = m.plain

\* A data frame arrives as Delivered says.
LEMMA DataDelivered ==
  ASSUME NEW m, IsSentData(m)
  PROVE  /\ IsData(m) /\ m.payload.fhdr["f_cnt"] \in Nat
         /\ DataBytes(m) \in Seq(Byte) /\ parsePHYPayload(DataBytes(m)) # {}
         /\ \A q : IsReceived(q, m, DataBytes(m)) => IsFine(q, m)
<1>1. PICK n, t, a, c, p, s : IsShortOf(n, m, t, a, c, p, s)
  BY SentShort
<1>2. PICK w, msg, mic : IsOnTheAir(n, m, t, a, c, w, msg, mic)
  BY <1>1, DataOnAir
<1>3. /\ m.payload.fhdr["f_cnt"] = c /\ IsCounter(c) /\ n.class = ClassOf(t) /\ m.payload.class = ClassOf(t)
      /\ n.fhdr["f_cnt"] = c % 65536 /\ t \in UplinkTypes \cup DownlinkTypes
  BY <1>1 DEF IsShortOf
<1>4. PICK z : z = PHYPayload(m.mhdr, n, mic)
  OBVIOUS
<1>5. PICK r \in Seq(Byte) : r = DataBytes(m) /\ parsePHYPayload(r) = {z}
  BY <1>2, <1>4 DEF IsOnTheAir
<1>6. ClassOf(t) \in {"MACPayloadUplink", "MACPayloadDownlink"}
  BY DEF ClassOf
<1>7. IsData(m)
  BY <1>3, <1>6 DEF IsData
<1>8. c \in Nat
  BY <1>3, CounterSizes
<1>9. z.payload = n
  BY <1>4 DEF PHYPayload
<1>10. IsData(z)
  BY <1>3, <1>6, <1>9 DEF IsData
<1>11. verify_mic_phy_payload(z, appKey, nwkSKey) <=> c < 65536
  BY <1>1, <1>2, <1>4, DataVerified
<1>12. c < 65536 => PlainText(n) = m.plain
  BY <1>1, PlainAgain
<1>13. IsFine(z, m)
  BY <1>3, <1>9, <1>11, <1>12 DEF IsFine
<1>14. PICK u \in Nat : u = Upper(m) /\ u = c \div 65536
  BY <1>3, <1>8, CounterSizes DEF Upper
<1>15. HasCounter(z) /\ z.payload.fhdr["f_cnt"] < 65536
  BY <1>5, <1>10, ParsedData
<1>16. IsFine(Counted(z, u), m)
  <2>1. CASE c < 65536
    <3>1. u = 0
      BY <1>3, <1>14, <2>1, CounterSizes
    <3>2. Counted(z, u) = z
      BY <1>15, <3>1, CountedAgain
    <3> QED
      BY <1>13, <3>2
  <2>2. CASE IsLong(c)
    <3>1. PICK q : q = Counted(z, u)
      OBVIOUS
    <3>2. CountedFrom(q, z, u)
      BY <1>15, <3>1, Counting
    <3>3. q.payload.class = z.payload.class /\ q.payload.fhdr["f_cnt"] = (z.payload.fhdr["f_cnt"] % 65536) + 65536 * u
      BY <3>2 DEF CountedFrom
    <3>4. PICK v \in Nat : v = z.payload.fhdr["f_cnt"]
      BY <1>15 DEF HasCounter
    <3>5. u > 0
      BY <1>3, <1>14, <2>2, CounterSizes
    <3>6. PICK k : k = q.payload.fhdr["f_cnt"] /\ ~(k < 65536)
      <4>1. ~((v % 65536) + 65536 * u < 65536)
        BY <3>4, <3>5
      <4> QED
        BY <3>3, <3>4, <4>1
    <3>7. q.payload.class \in {"MACPayloadUplink", "MACPayloadDownlink"}
      BY <1>10, <3>3 DEF IsData
    <3>8. ~verify_mic_phy_payload(q, appKey, nwkSKey)
      BY <3>6, <3>7, LongNever
    <3>9. ~(c < 65536)
      BY <1>3, <2>2, CounterSizes
    <3> QED
      BY <1>3, <3>1, <3>8, <3>9 DEF IsFine
  <2> QED
    BY <1>3, <2>1, <2>2, CounterSizes
<1>17. ASSUME NEW q, IsReceived(q, m, r)
       PROVE  IsFine(q, m)
  BY <1>5, <1>13, <1>14, <1>16, <1>17 DEF IsReceived
<1> QED
  BY <1>3, <1>5, <1>7, <1>8, <1>17

\* A JoinRequest.
IsEUI(x) == x \in Seq(Byte) /\ Len(x) = 8

IsSentJoinRequest(m) ==
  \E j \in 0..3 : \E x, y, n :
    /\ IsEUI(x) /\ IsEUI(y) /\ IsShort(n)
    /\ m = Intent(JoinRequestType, j,
                  JoinRequest([app_eui |-> x, dev_eui |-> y, dev_nonce |-> n]), <<>>)

\* What a sender's JoinRequest is decoded to.
LEMMA SentJoinRequest ==
  ASSUME NEW m, IsSentJoinRequest(m)
  PROVE  /\ IsMHDR(m.mhdr) /\ m.mhdr.mtype = JoinRequestType
         /\ m.payload.class = "JoinRequest" /\ IsJoinRequest(m.payload.fields)
         /\ m.payload = JoinRequest(m.payload.fields)
         /\ Decode(JoinRequestFields, Encode(JoinRequestFields, m.payload.fields)) = m.payload.fields
<1>0. PICK j \in 0..3 : \E x, y, n :
        /\ IsEUI(x) /\ IsEUI(y) /\ IsShort(n)
        /\ m = Intent(JoinRequestType, j,
                      JoinRequest([app_eui |-> x, dev_eui |-> y, dev_nonce |-> n]), <<>>)
  BY DEF IsSentJoinRequest
<1>1. PICK x, y, n :
        /\ IsEUI(x) /\ IsEUI(y) /\ IsShort(n)
        /\ m = Intent(JoinRequestType, j,
                      JoinRequest([app_eui |-> x, dev_eui |-> y, dev_nonce |-> n]), <<>>)
  BY <1>0
<1>2. PICK h : h = [app_eui |-> x, dev_eui |-> y, dev_nonce |-> n]
  OBVIOUS
<1>3. h["app_eui"] = x /\ h["dev_eui"] = y /\ h["dev_nonce"] = n
  BY <1>2
<1>4. n \in Nat
  BY <1>1 DEF IsShort
<1>5. IsJoinRequest(h)
  BY <1>1, <1>3, <1>4 DEF IsEUI, IsJoinRequest
<1>6. m = Intent(JoinRequestType, j, JoinRequest(h), <<>>)
  BY <1>1, <1>2
<1>7. /\ m.mhdr = [mtype |-> JoinRequestType, major |-> j]
      /\ m.payload.class = "JoinRequest" /\ m.payload.fields = h
  BY <1>6 DEF Intent, JoinRequest
<1>8. JoinRequestType \in 0..7
  BY DEF JoinRequestType
<1>9. m.payload = JoinRequest(h)
  BY <1>6 DEF Intent
<1>10. Decode(JoinRequestFields, Encode(JoinRequestFields, h)) = h
  <2>1. h = [u \in {"app_eui", "dev_eui", "dev_nonce"} |-> h[u]]
    BY <1>2
  <2>2. IsShort(h["dev_nonce"])
    BY <1>1, <1>3
  <2> QED
    BY <1>5, <2>1, <2>2, JoinRequestAgain
<1> QED
  BY <1>5, <1>7, <1>8, <1>9, <1>10 DEF IsMHDR

\* A JoinRequest that arrives is parsed, and passes the test of its MIC.
LEMMA JoinRequestDelivered ==
  ASSUME NEW m, IsSentJoinRequest(m), NEW r \in Wire(m)
  PROVE  /\ r \in Seq(Byte) /\ parsePHYPayload(r) # {}
         /\ \A q \in parsePHYPayload(r) :
              /\ verify_mic_phy_payload(q, appKey, nwkSKey)
              /\ q.mhdr = m.mhdr /\ q.payload = m.payload
<1>0. /\ IsMHDR(m.mhdr) /\ m.mhdr.mtype = JoinRequestType
      /\ m.payload.class = "JoinRequest" /\ IsJoinRequest(m.payload.fields)
  BY SentJoinRequest
<1>1. PICK g, h : g = m.mhdr /\ h = m.payload.fields
  OBVIOUS
<1>2. PICK w : w = Encode(JoinRequestFields, h)
  OBVIOUS
<1>3. w \in Seq(Byte) /\ Len(w) = 18
  BY <1>0, <1>1, <1>2, JoinRequestBytes
<1>4. PICK x \in Byte : Encode(MHDR, g) = << x >>
  BY <1>0, <1>1, MHDRAgain
<1>5. PICK c : c = generate_mic(appKey, Encode(MHDR, g) \o w)
  OBVIOUS
<1>6. c \in Seq(Byte) /\ Len(c) = 4
  <2>1. << x >> \in Seq(Byte)
    OBVIOUS
  <2>2. << x >> \o w \in Seq(Byte)
    BY <1>3, <2>1, BytesJoined
  <2>3. Encode(MHDR, g) \o w \in Seq(Int)
    BY <1>4, <2>2, BytesInts
  <2>4. appKey \in Seq(Int)
    BY KeyBlocks, BytesInts DEF IsBlock
  <2> QED
    BY <1>5, <2>3, <2>4, MICBytes
<1>7. r = (Encode(MHDR, g) \o w) \o c
  <2>1. c = generate_mic_join_request(m.mhdr, m.payload, appKey)
    BY <1>1, <1>2, <1>5 DEF generate_mic_join_request, generateJoinRequest
  <2>2. r \in generatePHYPayload(PHYPayload(m.mhdr, m.payload, c))
    BY <1>0, <2>1 DEF Wire
  <2>3. generatePayload(m.payload) = {w}
    BY <1>0, <1>1, <1>2 DEF generatePayload, generateJoinRequest
  <2>4. PICK z : z = PHYPayload(m.mhdr, m.payload, c)
    OBVIOUS
  <2>5. z.mhdr = g /\ z.payload = m.payload /\ z.mic = c
    BY <1>1, <2>4 DEF PHYPayload
  <2>6. generatePHYPayload(z) = {(Encode(MHDR, g) \o bytes) \o c : bytes \in {w}}
    BY <2>3, <2>5 DEF generatePHYPayload
  <2> QED
    BY <2>2, <2>4, <2>6
<1>8. PICK d : d = Decode(JoinRequestFields, w)
  OBVIOUS
<1>9. Encode(JoinRequestFields, d) = w
  BY <1>3, <1>8, JoinRequestBack
<1>10. PICK n : n = JoinRequest(d)
  OBVIOUS
<1>11. parsePayload(g.mtype, w) = {n}
  <2>1. parsePayload(JoinRequestType, w) = parseJoinRequest(w)
    BY TypesApart DEF parsePayload
  <2>2. parseJoinRequest(w) = {n}
    BY <1>3, <1>8, <1>10 DEF parseJoinRequest
  <2> QED
    BY <1>0, <1>1, <2>1, <2>2
<1>12. AreParts(r, g, w, c, n)
  BY <1>0, <1>1, <1>3, <1>6, <1>7, <1>11 DEF AreParts
<1>13. r \in Seq(Byte) /\ parsePHYPayload(r) = {PHYPayload(g, n, c)}
  BY <1>12, FrameAgain
<1>14. PICK q : q = PHYPayload(g, n, c)
  OBVIOUS
<1>15. q.mhdr = g /\ q.payload = n /\ q.mic = c
  BY <1>14 DEF PHYPayload
<1>16. n.class = "JoinRequest" /\ n.fields = d
  BY <1>10 DEF JoinRequest
<1>17. generate_mic_join_request(g, n, appKey) = c
  BY <1>5, <1>9, <1>16 DEF generate_mic_join_request, generateJoinRequest
<1>18. verify_mic_phy_payload(q, appKey, nwkSKey)
  BY <1>15, <1>16, <1>17 DEF verify_mic_phy_payload
<1>19. n = m.payload
  <2>1. d = h
    BY <1>1, <1>2, <1>8, SentJoinRequest
  <2>2. m.payload = JoinRequest(h)
    BY <1>1, SentJoinRequest
  <2> QED
    BY <1>10, <2>1, <2>2
<1> QED
  BY <1>1, <1>13, <1>14, <1>15, <1>18, <1>19

-----------------------------------------------------------------------------
(* Decrypted and encrypted, block by block.                                *)

BlockOf(t, b) == SubSeq(t, 16 * b - 15, 16 * b)

IsWhole(t, n) == t \in Seq(Byte) /\ n \in Nat /\ Len(t) = 16 * n

\* A byte string of whole blocks, block by block.
LEMMA BlockOfBytes ==
  ASSUME NEW t, NEW n, IsWhole(t, n), NEW b \in 1..n
  PROVE  /\ IsBlock(BlockOf(t, b))
         /\ \A i \in 1..16 : BlockOf(t, b)[i] = t[16 * b - 16 + i]
<1>0. t \in Seq(Byte) /\ n \in Nat /\ Len(t) = 16 * n
  BY DEF IsWhole
<1>1. PICK x \in Nat, y \in Nat : x = 16 * b - 15 /\ y = 16 * b
  BY <1>0
<1>2. 1 <= x /\ x <= y + 1 /\ y <= Len(t) /\ y + 1 - x = 16 /\ x - 1 = 16 * b - 16
  BY <1>0, <1>1
<1>3. PICK s : s = SubSeq(t, x, y)
  OBVIOUS
<1>4. /\ s \in Seq(Byte) /\ Len(s) = y + 1 - x
      /\ \A k \in 1..(y + 1 - x) : s[k] = t[x - 1 + k]
  BY <1>0, <1>2, <1>3, PartOf
<1>5. IsBlock(s) /\ \A i \in 1..16 : s[i] = t[16 * b - 16 + i]
  BY <1>2, <1>4 DEF IsBlock
<1>6. BlockOf(t, b) = s
  BY <1>1, <1>3 DEF BlockOf
<1> QED
  BY <1>5, <1>6

\* Bytes are those of their blocks.
LEMMA OwnBlocks ==
  ASSUME NEW t, NEW n, IsWhole(t, n), NEW u, u = [b \in 1..n |-> BlockOf(t, b)]
  PROVE  FlattenSeq(u) = t
<1>0. t \in Seq(Byte) /\ n \in Nat /\ Len(t) = 16 * n
  BY DEF IsWhole
<1>1. \A b \in 1..n : u[b] = BlockOf(t, b)
  OBVIOUS
<1>2. ASSUME NEW b \in 1..n
      PROVE  IsBlock(u[b]) /\ \A i \in 1..16 : u[b][i] = t[16 * b - 16 + i]
  <2>1. IsBlock(BlockOf(t, b)) /\ \A i \in 1..16 : BlockOf(t, b)[i] = t[16 * b - 16 + i]
    BY BlockOfBytes
  <2>2. u[b] = BlockOf(t, b)
    BY <1>1
  <2> QED
    BY <2>1, <2>2
<1>3. AreBlocks(u, n)
  BY <1>2 DEF AreBlocks
<1>4. t \in Seq(Int)
  BY <1>0, BytesInts
<1>5. BytesOfBlocks(t, u, n)
  BY <1>0, <1>2, <1>4 DEF BytesOfBlocks
<1> QED
  BY <1>0, <1>3, <1>5, BlocksFlat

\* The blocks of bytes that are made of blocks.
LEMMA SameBlocks ==
  ASSUME NEW d, NEW n, IsWhole(d, n), NEW q, AreBlocks(q, n), BytesOfBlocks(d, q, n), NEW b \in 1..n
  PROVE  BlockOf(d, b) = q[b]
<1>1. IsBlock(BlockOf(d, b)) /\ \A i \in 1..16 : BlockOf(d, b)[i] = d[16 * b - 16 + i]
  BY BlockOfBytes
<1>2. IsBlock(q[b]) /\ \A i \in 1..16 : q[b][i] = d[16 * b - 16 + i]
  BY DEF AreBlocks, BytesOfBlocks
<1>3. PICK x, y : x = BlockOf(d, b) /\ y = q[b]
  OBVIOUS
<1>4. x \in Seq(Byte) /\ y \in Seq(Byte) /\ Len(x) = 16 /\ Len(y) = 16
  BY <1>1, <1>2, <1>3 DEF IsBlock
<1>5. Len(x) = Len(y) /\ \A i \in 1..Len(x) : x[i] = y[i]
  BY <1>1, <1>2, <1>3, <1>4
<1>. x \in Seq(Int) /\ y \in Seq(Int)
  BY <1>4, BytesInts
<1>6. x = y
  BY <1>4, <1>5, SameBytes, Zenon
<1> QED
  BY <1>3, <1>6

\* What has been decrypted is encrypted to what it was.
LEMMA EcbAgain ==
  ASSUME NEW key, IsBlock(key), NEW t \in Seq(Byte), NEW d \in aes128_decrypt(key, t)
  PROVE  d \in Seq(Byte) /\ Len(d) = Len(t) /\ aes128_encrypt(key, d) = {t}
<1>1. PICK n \in Nat : Len(t) = 16 * n /\ n = Len(t) \div 16
  <2>1. PICK l \in Nat : l = Len(t)
    OBVIOUS
  <2>2. l % 16 = 0
    BY <2>1 DEF aes128_decrypt, Ecb
  <2>3. l \div 16 \in Nat /\ l = 16 * (l \div 16)
    BY <2>2
  <2> QED
    BY <2>1, <2>3
<1>2. IsWhole(t, n)
  BY <1>1 DEF IsWhole
<1>3. PICK q : q = [b \in 1..n |-> DecryptBlock(key, BlockOf(t, b))]
  OBVIOUS
<1>4. d = FlattenSeq(q)
  BY <1>1, <1>3 DEF aes128_decrypt, Ecb, BlockOf
<1>5. AreBlocks(q, n)
  <2>1. \A b \in 1..n : IsBlock(DecryptBlock(key, BlockOf(t, b)))
    BY <1>2, BlockOfBytes, CipherBlocks
  <2> QED
    BY <1>3, <2>1 DEF AreBlocks
<1>6. d \in Seq(Byte) /\ Len(d) = 16 * n /\ BytesOfBlocks(d, q, n)
  BY <1>4, <1>5, BlocksAreBytes
<1>7. IsWhole(d, n)
  BY <1>6 DEF IsWhole
<1>8. ASSUME NEW b \in 1..n
      PROVE  EncryptBlock(key, BlockOf(d, b)) = BlockOf(t, b)
  <2>1. BlockOf(d, b) = DecryptBlock(key, BlockOf(t, b))
    <3>1. BlockOf(d, b) = q[b]
      BY <1>5, <1>6, <1>7, SameBlocks
    <3>2. q[b] = DecryptBlock(key, BlockOf(t, b))
      BY <1>3
    <3> QED
      BY <3>1, <3>2
  <2>2. IsBlock(BlockOf(t, b))
    BY <1>2, BlockOfBytes
  <2>3. EncryptBlock(key, DecryptBlock(key, BlockOf(t, b))) = BlockOf(t, b)
    BY <2>2, EncryptedAgain
  <2> QED
    BY <2>1, <2>3
<1>9. PICK u : u = [b \in 1..n |-> BlockOf(t, b)]
  OBVIOUS
<1>10. u = [b \in 1..n |-> EncryptBlock(key, BlockOf(d, b))]
  BY <1>8, <1>9
<1>11. FlattenSeq(u) = t
  BY <1>2, <1>9, OwnBlocks
<1>12. aes128_encrypt(key, d) = {FlattenSeq([b \in 1..n |-> EncryptBlock(key, BlockOf(d, b))])}
  <2>1. PICK l \in Nat : l = Len(d)
    BY <1>6
  <2>2. l % 16 = 0 /\ l \div 16 = n
    BY <1>6, <2>1
  <2> QED
    BY <2>1, <2>2 DEF aes128_encrypt, Ecb, BlockOf
<1>13. aes128_encrypt(key, d) = {t}
  BY <1>10, <1>11, <1>12
<1> QED
  BY <1>1, <1>6, <1>13

IsBelow(x, n) == x \in Nat /\ x < n

\* A JoinAccept, with as many bytes for the CFList as there are.
IsSentJoinAccept(m) ==
  \E x, y, a, z, u, v, l :
    /\ IsBelow(x, 16777216) /\ IsBelow(y, 16777216) /\ IsAddr(a) /\ IsBelow(z, 256)
    /\ IsBelow(u, 8) /\ IsBelow(v, 16) /\ l \in Seq(Byte)
    /\ m = Intent(JoinAcceptType, 0,
             JoinAccept([app_nonce |-> x, net_id |-> y, dev_addr |-> a, rx_delay |-> z,
                         rx1_dr_offset |-> u, rx2_datarate |-> v], l), <<>>)

\* What a sender's JoinAccept is made of.
LEMMA SentJoinAccept ==
  ASSUME NEW m, IsSentJoinAccept(m)
  PROVE  /\ m.payload.class = "JoinAccept" /\ IsJoinAccept(m.payload.fields)
         /\ m.payload.cf_list \in Seq(Byte)
         /\ m.payload = JoinAccept(m.payload.fields, m.payload.cf_list)
         /\ m.mhdr = [mtype |-> JoinAcceptType, major |-> 0]
         /\ m.payload.fields = [w \in JoinAcceptNames |-> m.payload.fields[w]] /\ HasRoom(m.payload.fields)
<1>1. PICK x, y, a, z, u, v, l :
        /\ IsBelow(x, 16777216) /\ IsBelow(y, 16777216) /\ IsAddr(a) /\ IsBelow(z, 256)
        /\ IsBelow(u, 8) /\ IsBelow(v, 16) /\ l \in Seq(Byte)
        /\ m = Intent(JoinAcceptType, 0,
                 JoinAccept([app_nonce |-> x, net_id |-> y, dev_addr |-> a, rx_delay |-> z,
                             rx1_dr_offset |-> u, rx2_datarate |-> v], l), <<>>)
  BY DEF IsSentJoinAccept
<1>2. PICK h : h = [app_nonce |-> x, net_id |-> y, dev_addr |-> a, rx_delay |-> z,
                    rx1_dr_offset |-> u, rx2_datarate |-> v]
  OBVIOUS
<1>3. /\ h["app_nonce"] = x /\ h["net_id"] = y /\ h["dev_addr"] = a /\ h["rx_delay"] = z
      /\ h["rx1_dr_offset"] = u /\ h["rx2_datarate"] = v
  BY <1>2
<1>4. IsJoinAccept(h)
  <2>1. x \in Nat /\ y \in Nat /\ z \in Nat /\ u \in Nat /\ v \in Nat
    BY <1>1 DEF IsBelow
  <2> QED
    BY <1>1, <1>3, <2>1 DEF IsJoinAccept
<1>5. m = Intent(JoinAcceptType, 0, JoinAccept(h, l), <<>>)
  BY <1>1, <1>2
<1>6. m.payload.class = "JoinAccept" /\ m.payload.fields = h /\ m.payload.cf_list = l
  BY <1>5 DEF Intent, JoinAccept
<1>7. m.payload = JoinAccept(h, l) /\ m.mhdr = [mtype |-> JoinAcceptType, major |-> 0]
  BY <1>5 DEF Intent
<1>8. h = [w \in JoinAcceptNames |-> h[w]]
  BY <1>2 DEF JoinAcceptNames
<1>9. HasRoom(h)
  <2>1. IsThree(x) /\ IsThree(y) /\ z < 256 /\ u < 8 /\ v < 16
    BY <1>1, SMT DEF IsBelow, IsThree
  <2> QED
    BY <1>3, <2>1 DEF HasRoom
<1> QED
  BY <1>1, <1>4, <1>6, <1>7, <1>8, <1>9

\* The empty byte string.
LEMMA Nothing == << >> \in Seq(Byte) /\ Len(<< >>) = 0
OBVIOUS

\* It adds nothing.
LEMMA NothingJoined ==
  ASSUME NEW s \in Seq(Byte)
  PROVE  s = s \o << >> /\ s = << >> \o s
OBVIOUS

\* A byte string of one byte.
LEMMA OneByte ==
  ASSUME NEW x \in Byte
  PROVE  << x >> \in Seq(Byte) /\ Len(<< x >>) = 1
OBVIOUS

\* The end of a text, and what is before it.
IsEnded(t, e, c) == e \in Seq(Byte) /\ c \in Seq(Byte) /\ Len(c) = 4 /\ t = e \o c

\* The last four bytes.
LEMMA EndOf ==
  ASSUME NEW e, NEW c, NEW t, IsEnded(t, e, c)
  PROVE  /\ t \in Seq(Byte) /\ Len(t) = Len(e) + 4
         /\ SubSeq(t, 1, Len(t) - 4) = e /\ SubSeq(t, Len(t) - 3, Len(t)) = c
<1>0. e \in Seq(Byte) /\ c \in Seq(Byte) /\ Len(c) = 4 /\ t = e \o c
  BY DEF IsEnded
<1>1. t \in Seq(Byte) /\ Len(t) = Len(e) + 4
  BY <1>0, BytesJoined
<1>2. PICK n \in Nat : n = Len(e)
  BY <1>0
<1>3. PICK o : o = << >> /\ o \in Seq(Byte) /\ Len(o) = 0
  BY Nothing
<1>4. t = o \o (e \o c) /\ t = e \o (c \o o)
  <2>1. t = o \o t
    BY <1>1, <1>3, NothingJoined
  <2>2. c = c \o o
    BY <1>0, <1>3, NothingJoined
  <2> QED
    BY <1>0, <2>1, <2>2
<1>5. Len(t) - 4 = n /\ Len(t) - 3 = n + 1 /\ Len(t) = n + 4
  BY <1>1, <1>2
<1>6. PICK i \in Nat, j \in Nat : i = 1 /\ j = n /\ i = Len(o) + 1 /\ j = Len(o) + Len(e)
  <2>1. 1 = Len(o) + 1 /\ n = Len(o) + Len(e)
    BY <1>2, <1>3
  <2> QED
    BY <2>1
<1>7. PICK x \in Nat, y \in Nat : x = n + 1 /\ y = n + 4 /\ x = Len(e) + 1 /\ y = Len(e) + Len(c)
  <2>1. n + 1 \in Nat /\ n + 4 \in Nat /\ n + 1 = Len(e) + 1 /\ n + 4 = Len(e) + Len(c)
    BY <1>0, <1>2
  <2> QED
    BY <2>1, Zenon
<1>8. SubSeq(t, i, j) = e
  <2>1. IsMiddle(t, o, e, c, i, j)
    BY <1>0, <1>3, <1>4, <1>6 DEF IsMiddle
  <2> QED
    BY <2>1, MiddlePart
<1>9. SubSeq(t, x, y) = c
  <2>1. IsMiddle(t, e, c, o, x, y)
    BY <1>0, <1>3, <1>4, <1>7 DEF IsMiddle
  <2> QED
    BY <2>1, MiddlePart
<1> QED
  BY <1>1, <1>5, <1>6, <1>7, <1>8, <1>9

\* What is behind the first byte.
IsBehind(d, x, r) == x \in Byte /\ d \in Seq(Byte) /\ r = << x >> \o d

\* What is behind the first byte.
LEMMA BehindFirst ==
  ASSUME NEW x, NEW d, NEW r, IsBehind(d, x, r)
  PROVE  r \in Seq(Byte) /\ Len(r) = 1 + Len(d) /\ r[1] = x /\ SubSeq(r, 2, Len(r)) = d
<1>0. x \in Byte /\ d \in Seq(Byte) /\ r = << x >> \o d
  BY DEF IsBehind
<1>1. PICK h, o : h = << x >> /\ o = << >> /\ h \in Seq(Byte) /\ Len(h) = 1 /\ o \in Seq(Byte)
  BY <1>0, Nothing, OneByte
<1>2. r \in Seq(Byte) /\ Len(r) = 1 + Len(d)
  BY <1>0, <1>1, BytesJoined
<1>3. PICK n \in Nat : n = Len(d)
  BY <1>0
<1>4. r[1] = x
  BY <1>0, <1>2
<1>6. r = h \o (d \o o)
  <2>1. d = d \o o
    BY <1>0, <1>1, NothingJoined
  <2> QED
    BY <1>0, <1>1, <2>1
<1>7. PICK i \in Nat, j \in Nat : i = 2 /\ j = 1 + n /\ i = Len(h) + 1 /\ j = Len(h) + Len(d)
  <2>1. 1 + n \in Nat /\ 2 = Len(h) + 1 /\ 1 + n = Len(h) + Len(d)
    BY <1>1, <1>3
  <2> QED
    BY <2>1
<1>8. SubSeq(r, i, j) = d
  <2>1. IsMiddle(r, h, d, o, i, j)
    BY <1>0, <1>1, <1>6, <1>7 DEF IsMiddle
  <2> QED
    BY <2>1, MiddlePart
<1>9. Len(r) = j
  BY <1>2, <1>3, <1>7
<1> QED
  BY <1>2, <1>4, <1>7, <1>8, <1>9

\* A JoinAccept that arrives is accepted.
LEMMA JoinAcceptDelivered ==
  ASSUME NEW m, IsSentJoinAccept(m), NEW r \in Wire(m)
  PROVE  /\ r \in Seq(Byte) /\ parsePHYPayload(r) = {} /\ parseJoinAccept(r, appKey) # {}
         /\ Decode(MHDR, r) = m.mhdr /\ \A q \in parseJoinAccept(r, appKey) : q = m.payload
<1>0. /\ m.payload.class = "JoinAccept" /\ IsJoinAccept(m.payload.fields)
      /\ m.payload.cf_list \in Seq(Byte)
  BY SentJoinAccept
<1>1. PICK h, l : h = m.payload.fields /\ l = m.payload.cf_list
  OBVIOUS
<1>2. PICK f : f = Encode(JoinAcceptFields, h)
  OBVIOUS
<1>3. f \in Seq(Byte) /\ Len(f) = 12
  BY <1>0, <1>1, <1>2, JoinAcceptBytes
<1>4. PICK e \in Seq(Byte) : e = f \o l /\ Len(e) >= 12
  <2>1. l \in Seq(Byte) /\ Len(l) \in Nat
    BY <1>0, <1>1
  <2>2. PICK e : e = f \o l
    OBVIOUS
  <2>3. e \in Seq(Byte) /\ Len(e) = Len(f) + Len(l)
    BY <1>3, <2>1, <2>2, BytesJoined
  <2>4. Len(e) >= 12
    BY <1>3, <2>1, <2>3
  <2> QED
    BY <2>2, <2>3, <2>4
<1>5. PICK g : g = [mtype |-> JoinAcceptType, major |-> 0]
  OBVIOUS
<1>6. IsMHDR(g) /\ g.mtype = JoinAcceptType
  <2>1. JoinAcceptType \in 0..7 /\ 0 \in 0..3
    BY DEF JoinAcceptType
  <2> QED
    BY <1>5, <2>1 DEF IsMHDR
<1>7. PICK x \in Byte : Encode(MHDR, g) = << x >> /\ \A b : b[1] = x => Decode(MHDR, b) = g
  BY <1>6, MHDRAgain
<1>8. PICK c : c = generate_mic(appKey, Encode(MHDR, g) \o e)
  OBVIOUS
<1>9. c \in Seq(Byte) /\ Len(c) = 4
  <2>1. << x >> \in Seq(Byte)
    OBVIOUS
  <2>2. << x >> \o e \in Seq(Byte)
    BY <2>1, BytesJoined
  <2>3. Encode(MHDR, g) \o e \in Seq(Int)
    BY <1>7, <2>2, BytesInts
  <2>4. appKey \in Seq(Int)
    BY KeyBlocks, BytesInts DEF IsBlock
  <2> QED
    BY <1>8, <2>3, <2>4, MICBytes
<1>10. PICK t : t = e \o c
  OBVIOUS
<1>11. /\ t \in Seq(Byte) /\ Len(t) = Len(e) + 4
       /\ SubSeq(t, 1, Len(t) - 4) = e /\ SubSeq(t, Len(t) - 3, Len(t)) = c
  BY <1>9, <1>10, EndOf DEF IsEnded
<1>12. PICK d \in aes128_decrypt(appKey, t) : r = << x >> \o d
  <2>1. Wire(m) = generateJoinAccept(m.payload, appKey)
    BY <1>0 DEF Wire
  <2>2. generateJoinAccept(m.payload, appKey) = {Encode(MHDR, g) \o encrypted : encrypted \in aes128_decrypt(appKey, t)}
    BY <1>1, <1>2, <1>4, <1>5, <1>8, <1>10 DEF generateJoinAccept
  <2> QED
    BY <1>7, <2>1, <2>2
<1>13. d \in Seq(Byte) /\ Len(d) = Len(t) /\ aes128_encrypt(appKey, d) = {t}
  BY <1>11, <1>12, EcbAgain, KeyBlocks
<1>14. r \in Seq(Byte) /\ Len(r) = 1 + Len(d) /\ r[1] = x /\ SubSeq(r, 2, Len(r)) = d
  BY <1>12, <1>13, BehindFirst DEF IsBehind
<1>15. Decode(MHDR, r) = g
  BY <1>7, <1>14
<1>16. ~(Len(r) < 12)
  BY <1>4, <1>11, <1>13, <1>14
<1>17. parseJoinAccept(r, appKey) # {}
  <2>1. t \in {z \in aes128_encrypt(appKey, SubSeq(r, 2, Len(r))) :
                 /\ g.mtype = JoinAcceptType
                 /\ SubSeq(z, Len(z) - 3, Len(z)) =
                      generate_mic(appKey, Encode(MHDR, g) \o SubSeq(z, 1, Len(z) - 4))}
    BY <1>6, <1>8, <1>11, <1>13, <1>14
  <2>2. JoinAccept(Decode(JoinAcceptFields, e), SubSeq(e, 13, Len(e))) \in parseJoinAccept(r, appKey)
    BY <1>11, <1>15, <1>16, <2>1 DEF parseJoinAccept
  <2> QED
    BY <2>2
<1>18. parsePHYPayload(r) = {}
  <2>1. \A b : parsePayload(JoinAcceptType, b) = {}
    BY DEF parsePayload, JoinAcceptType, UplinkTypes, DownlinkTypes, JoinRequestType, ProprietaryType
  <2>2. \A b : parsePayload(g.mtype, b) = {}
    BY <1>6, <2>1
  <2> QED
    BY <1>15, <2>2 DEF parsePHYPayload
<1>19. Decode(MHDR, r) = m.mhdr
  BY <1>5, <1>15, SentJoinAccept
<1>20. Decode(JoinAcceptFields, e) = h
  <2>1. Begins(e, f)
    <3>1. \A k \in 1..Len(f) : e[k] = f[k]
      <4>1. f \in Seq(Int) /\ l \in Seq(Int)
        BY <1>0, <1>1, <1>3, BytesInts
      <4>2. Joined(f, l, e)
        BY <1>4, <4>1, Concatenated
      <4> QED
        BY <4>2 DEF Joined
    <3> QED
      BY <1>3, <1>4, <3>1 DEF Begins
  <2>2. IsJoinAccept(h) /\ h = [w \in JoinAcceptNames |-> h[w]] /\ HasRoom(h)
    BY <1>1, SentJoinAccept
  <2> QED
    BY <1>2, <2>1, <2>2, JoinAcceptAgain
<1>21. SubSeq(e, 13, Len(e)) = l
  <2>1. PICK o : o = << >> /\ o \in Seq(Byte)
    BY Nothing
  <2>2. l \in Seq(Byte) /\ Len(l) \in Nat
    BY <1>0, <1>1
  <2>3. PICK i \in Nat, j \in Nat : i = 13 /\ j = Len(e) /\ i = Len(f) + 1 /\ j = Len(f) + Len(l)
    <3>1. Len(e) = Len(f) + Len(l)
      BY <1>3, <1>4, <2>2, BytesJoined
    <3>2. 13 \in Nat /\ 13 = Len(f) + 1
      BY <1>3
    <3>3. Len(e) \in Nat
      BY <1>4
    <3> QED
      BY <3>1, <3>2, <3>3
  <2>4. e = f \o (l \o o)
    <3>1. l \o o = l
      BY <2>1, <2>2, NothingJoined
    <3> QED
      BY <1>4, <3>1
  <2>5. IsMiddle(e, f, l, o, i, j)
    BY <1>3, <2>1, <2>2, <2>3, <2>4 DEF IsMiddle
  <2>6. SubSeq(e, i, j) = l
    BY <2>5, MiddlePart
  <2> QED
    BY <2>3, <2>6
<1>22. ASSUME NEW q \in parseJoinAccept(r, appKey)
       PROVE  q = m.payload
  <2>1. PICK z \in aes128_encrypt(appKey, SubSeq(r, 2, Len(r))) :
          q = JoinAccept(Decode(JoinAcceptFields, SubSeq(z, 1, Len(z) - 4)),
                         SubSeq(SubSeq(z, 1, Len(z) - 4), 13, Len(SubSeq(z, 1, Len(z) - 4))))
    BY <1>16 DEF parseJoinAccept
  <2>2. z = t
    BY <1>13, <1>14, <2>1
  <2>3. q = JoinAccept(Decode(JoinAcceptFields, e), SubSeq(e, 13, Len(e)))
    BY <1>11, <2>1, <2>2
  <2>4. m.payload = JoinAccept(h, l)
    BY <1>1, SentJoinAccept
  <2> QED
    BY <1>20, <1>21, <2>3, <2>4
<1> QED
  BY <1>14, <1>17, <1>18, <1>19, <1>22

-----------------------------------------------------------------------------
(* What is sent arrives.                                                   *)

IsSentProprietary(m) ==
  \E j \in 0..3, s \in Seq(Byte) : m = Intent(ProprietaryType, j, Proprietary(s), <<>>)

\* Every frame that LoRaWAN has.
Sendable(m) ==
  IsSentData(m) \/ IsSentJoinRequest(m) \/ IsSentJoinAccept(m) \/ IsSentProprietary(m)

\* A sender means one of them, and any bytes arrive.
SenderInit ==
  /\ Sendable(intent) /\ raw \in Seq(Byte)
  /\ phy = <<>> /\ stage = "arrived"

SenderSpec == SenderInit /\ [][FrameNext]_frameVars

\* Why a frame is rejected, and what is known of one that is verified.
SenderInv ==
  /\ ReceiverInv /\ Sendable(intent)
  /\ stage = "rejected" =>
       \/ parsePHYPayload(raw) = {} /\ parseJoinAccept(raw, appKey) = {}
       \/ IsParsed(phy) /\ ~verify_mic_phy_payload(phy, appKey, nwkSKey)
  /\ stage = "verified" => verify_mic_phy_payload(phy, appKey, nwkSKey)

\* The classes of what is not a data frame.
LEMMA OtherClasses ==
  ASSUME NEW m
  PROVE  /\ IsSentJoinRequest(m) => m.payload.class = "JoinRequest"
         /\ IsSentJoinAccept(m) => m.payload.class = "JoinAccept"
         /\ IsSentProprietary(m) => m.payload.class = "Proprietary"
<1>1. IsSentProprietary(m) => m.payload.class = "Proprietary"
  BY DEF IsSentProprietary, Intent, Proprietary
<1> QED
  BY <1>1, SentJoinRequest, SentJoinAccept

\* At first the sender's frame is on the air, and nothing is parsed.
LEMMA SenderInitially == SenderInit => SenderInv
<1> SUFFICES ASSUME SenderInit
             PROVE  SenderInv
  OBVIOUS
<1>1. Sendable(intent) /\ raw \in Seq(Byte) /\ stage = "arrived"
  BY DEF SenderInit
<1>2. IsData(intent) => intent.payload.fhdr["f_cnt"] \in Nat
  <2>1. CASE IsSentData(intent)
    BY <2>1, DataDelivered
  <2>2. CASE ~IsSentData(intent)
    <3>1. intent.payload.class \in {"JoinRequest", "JoinAccept", "Proprietary"}
      BY <1>1, <2>2, OtherClasses DEF Sendable
    <3> QED
      BY <3>1 DEF IsData
  <2> QED
    BY <2>1, <2>2
<1>3. ReceiverInv
  BY <1>1, <1>2 DEF ReceiverInv
<1> QED
  BY <1>1, <1>3 DEF SenderInv

\* Whatever is done to it, the receiver works with what arrives.
LEMMA SenderStep == SenderInv /\ [FrameNext]_frameVars => SenderInv'
<1> SUFFICES ASSUME SenderInv, [FrameNext]_frameVars
             PROVE  SenderInv'
  OBVIOUS
<1>0. ReceiverInv /\ ReceiverInv' /\ Sendable(intent)
  BY ReceiverStep DEF SenderInv
<1>1. CASE ParsePHYPayload
  BY <1>0, <1>1 DEF ParsePHYPayload, SenderInv
<1>2. CASE ParseJoinAccept
  BY <1>0, <1>2 DEF ParseJoinAccept, SenderInv
<1>3. CASE ParseError
  BY <1>0, <1>3 DEF ParseError, SenderInv
<1>4. CASE SetCounter
  BY <1>0, <1>4 DEF SetCounter, SenderInv
<1>5. CASE Verify
  <2>1. IsParsed(phy) /\ raw' = raw /\ phy' = phy /\ intent' = intent
    BY <1>0, <1>5 DEF Verify, ReceiverInv
  <2>2. IsParsed(phy)'
    BY <2>1 DEF IsParsed
  <2>3. verify_mic_phy_payload(phy', appKey, nwkSKey) <=> verify_mic_phy_payload(phy, appKey, nwkSKey)
    BY <2>1
  <2>4. \/ stage' = "verified" /\ verify_mic_phy_payload(phy, appKey, nwkSKey)
        \/ stage' = "rejected" /\ ~verify_mic_phy_payload(phy, appKey, nwkSKey)
    BY <1>5 DEF Verify
  <2> QED
    BY <1>0, <2>1, <2>2, <2>3, <2>4 DEF SenderInv
<1>6. CASE Extract
  BY <1>0, <1>6 DEF Extract, SenderInv
<1>7. CASE ParseCommands
  <2>1. raw' = raw /\ phy' = phy /\ intent' = intent /\ stage' = stage /\ stage = "extracted"
    BY <1>7 DEF ParseCommands
  <2> QED
    BY <1>0, <2>1 DEF SenderInv
<1>8. CASE UNCHANGED frameVars
  <2>1. raw' = raw /\ phy' = phy /\ intent' = intent /\ stage' = stage
    BY <1>8 DEF frameVars
  <2>2. IsParsed(phy)' <=> IsParsed(phy)
    BY <2>1 DEF IsParsed
  <2> QED
    BY <1>0, <2>1, <2>2 DEF SenderInv
<1> QED
  BY <1>1, <1>2, <1>3, <1>4, <1>5, <1>6, <1>7, <1>8 DEF FrameNext

\* What is parsed of a frame that arrived intact.
LEMMA ParsedIntact ==
  ASSUME NEW q, IsParsed(q), IsSentData(intent), Intact
  PROVE  IsFine(q, intent) /\ parsePHYPayload(raw) # {}
<1>1. IsData(intent)
  BY DataDelivered
<1>2. raw = DataBytes(intent)
  <2>1. intent.payload.class # "JoinAccept" /\ intent.payload.class # "JoinRequest" /\ intent.payload.class # "Proprietary"
    BY <1>1 DEF IsData
  <2>2. Wire(intent) = {DataBytes(intent)}
    BY <2>1 DEF Wire
  <2> QED
    BY <2>2 DEF Intact
<1>3. IsReceived(q, intent, raw)
  BY DEF IsParsed, IsReceived
<1> QED
  BY <1>2, <1>3, DataDelivered

\* What arrives intact is delivered.
LEMMA SenderDelivers == SenderInv => Delivered
<1>1. ASSUME SenderInv, stage = "rejected", Intact
      PROVE  \/ intent.payload.class = "Proprietary"
             \/ IsData(intent) /\ intent.payload.fhdr["f_cnt"] >= 65536
  <2>1. \/ parsePHYPayload(raw) = {} /\ parseJoinAccept(raw, appKey) = {}
        \/ IsParsed(phy) /\ ~verify_mic_phy_payload(phy, appKey, nwkSKey)
    BY <1>1 DEF SenderInv
  <2>2. CASE IsSentData(intent)
    <3>1. IsData(intent) /\ intent.payload.fhdr["f_cnt"] \in Nat
      BY <2>2, DataDelivered
    <3>2. raw = DataBytes(intent)
      <4>1. intent.payload.class # "JoinAccept" /\ intent.payload.class # "JoinRequest" /\ intent.payload.class # "Proprietary"
        BY <3>1 DEF IsData
      <4>2. Wire(intent) = {DataBytes(intent)}
        BY <4>1 DEF Wire
      <4> QED
        BY <1>1, <4>2 DEF Intact
    <3>3. parsePHYPayload(raw) # {}
      BY <2>2, <3>2, DataDelivered
    <3>4. IsParsed(phy) /\ ~verify_mic_phy_payload(phy, appKey, nwkSKey)
      BY <2>1, <3>3
    <3>5. IsFine(phy, intent)
      BY <1>1, <2>2, <3>4, ParsedIntact
    <3>6. ~(intent.payload.fhdr["f_cnt"] < 65536)
      BY <3>4, <3>5 DEF IsFine
    <3>7. PICK c \in Nat : c = intent.payload.fhdr["f_cnt"]
      BY <3>1
    <3>8. c >= 65536
      BY <3>6, <3>7
    <3> QED
      BY <3>1, <3>7, <3>8
  <2>3. CASE IsSentJoinRequest(intent)
    <3>1. parsePHYPayload(raw) # {} /\ \A q \in parsePHYPayload(raw) : verify_mic_phy_payload(q, appKey, nwkSKey)
      BY <1>1, <2>3, JoinRequestDelivered DEF Intact
    <3>2. ~IsData(intent)
      BY <2>3, OtherClasses DEF IsData
    <3> QED
      BY <2>1, <3>1, <3>2 DEF IsParsed
  <2>4. CASE IsSentJoinAccept(intent)
    <3>1. parsePHYPayload(raw) = {} /\ parseJoinAccept(raw, appKey) # {}
      BY <1>1, <2>4, JoinAcceptDelivered DEF Intact
    <3> QED
      BY <2>1, <3>1 DEF IsParsed
  <2>5. CASE IsSentProprietary(intent)
    BY <2>5, OtherClasses
  <2> QED
    BY <1>1, <2>2, <2>3, <2>4, <2>5 DEF SenderInv, Sendable
<1>2. ASSUME SenderInv, stage = "verified", IsData(intent), Intact
      PROVE  /\ intent.payload.fhdr["f_cnt"] < 65536
             /\ PlainText(phy.payload) = intent.plain
  <2>1. IsSentData(intent)
    <3>1. ~(intent.payload.class \in {"JoinRequest", "JoinAccept", "Proprietary"})
      BY <1>2 DEF IsData
    <3> QED
      BY <1>2, <3>1, OtherClasses DEF SenderInv, Sendable
  <2>2. IsParsed(phy) /\ verify_mic_phy_payload(phy, appKey, nwkSKey)
    BY <1>2 DEF SenderInv, ReceiverInv
  <2>3. IsFine(phy, intent)
    BY <1>2, <2>1, <2>2, ParsedIntact
  <2> QED
    BY <2>2, <2>3 DEF IsFine
<1> QED
  BY <1>1, <1>2 DEF Delivered, PlainText

\* Every step is of these.
LEMMA SenderAlways == SenderSpec => []SenderInv
BY SenderInitially, SenderStep, PTL DEF SenderSpec

\* DeliveredHolds: a frame that arrives as it was sent passes the test of its
\* MIC and is decrypted to what its sender meant (common.py:21-59), for every
\* header, address, FOpts and payload; and if its counter has left the two bytes
\* that FHDR.generate has for it (message.py:202), it never passes.  The cipher
\* and the MIC are the stand-ins of Messages.
THEOREM DeliveredHolds == SenderSpec => []Delivered
BY SenderDelivers, SenderAlways, PTL

-----------------------------------------------------------------------------
(* What the checker takes as sent is sendable.                             *)

\* A byte has no more than 256 values.
LEMMA AtMost256 ==
  ASSUME NEW n \in 0..8
  PROVE  2^n <= 256
<1>1. 2^0 = 1 /\ 2^1 = 2 /\ 2^2 = 4 /\ 2^3 = 8 /\ 2^4 = 16
  OBVIOUS
<1>2. 2^5 = 32 /\ 2^6 = 64 /\ 2^7 = 128 /\ 2^8 = 256
  OBVIOUS
<1>3. CASE n \in 0..2
  <2>1. n = 0 \/ n = 1 \/ n = 2
    BY <1>3
  <2>2. 2^n = 2^0 \/ 2^n = 2^1 \/ 2^n = 2^2
    BY <2>1, Zenon
  <2>3. 2^n = 1 \/ 2^n = 2 \/ 2^n = 4
    BY <1>1, <2>2
  <2> QED
    BY <2>3
<1>4. CASE n \in 3..5
  <2>1. n = 3 \/ n = 4 \/ n = 5
    BY <1>4
  <2>2. 2^n = 2^3 \/ 2^n = 2^4 \/ 2^n = 2^5
    BY <2>1, Zenon
  <2>3. 2^n = 8 \/ 2^n = 16 \/ 2^n = 32
    BY <1>1, <1>2, <2>2
  <2> QED
    BY <2>3
<1>5. CASE n \in 6..8
  <2>1. n = 6 \/ n = 7 \/ n = 8
    BY <1>5
  <2>2. 2^n = 2^6 \/ 2^n = 2^7 \/ 2^n = 2^8
    BY <2>1, Zenon
  <2>3. 2^n = 64 \/ 2^n = 128 \/ 2^n = 256
    BY <1>2, <2>2
  <2> QED
    BY <2>3
<1> QED
  BY <1>3, <1>4, <1>5

\* A field that has its bytes for itself puts bytes there.
LEMMA AloneHasBytes ==
  ASSUME NEW F, NEW f \in F, IsField(f), Alone(F, f), NEW v \in Int, NEW i \in 0..(f.len - 1)
  PROVE  Put(f, v, f.at + i) \in Byte
<1>1. f.at + i \in f.at..(f.at + f.len - 1) /\ (f.at + i) - f.at = i
  BY DEF IsField
<1>2. CASE f.kind = "bits"
  <2>1. f.low = 0 /\ f.len = 1 /\ f.at + i = f.at /\ f.at \in Nat
    BY <1>2 DEF Alone, IsField
  <2>2. Put(f, v, f.at) = (v % 2^f.width) * 2^f.low
    BY <1>2, <2>1, BitsField, Zenon
  <2>3. PICK m \in Nat \ {0} : m = 2^f.width /\ m <= 256
    <3>1. f.width \in 0..8
      BY DEF IsField
    <3>2. 2^f.width \in Nat \ {0}
      BY <3>1, PowerOf2
    <3>4. 2^f.width <= 256
      BY <3>1, AtMost256
    <3> QED
      BY <3>2, <3>4, Zenon
  <2>4. 2^f.low = 1
    BY <2>1, PowersOf2
  <2>5. Put(f, v, f.at) = (v % m) * 1
    BY <2>2, <2>3, <2>4
  <2>6. (v % m) * 1 \in 0..255
    BY <2>3, SMT
  <2> QED
    BY <2>1, <2>5, <2>6 DEF Byte
<1>3. CASE f.kind = "number"
  <2>1. PICK m \in Nat \ {0} : m = 256^i
    <3>1. i \in 0..4
      BY DEF IsField
    <3>2. 256^i \in Nat \ {0}
      BY <3>1, Powers, Zenon
    <3> QED
      BY <3>2, Zenon
  <2>2. Put(f, v, f.at + i) = (v \div m) % 256
    BY <1>1, <1>3, <2>1 DEF Put
  <2>3. (v \div m) % 256 \in 0..255
    BY <2>1, SMT
  <2> QED
    BY <2>2, <2>3 DEF Byte
<1>4. CASE f.kind = "margin"
  <2>1. Put(f, v, f.at + i) = IF v > 0 THEN v % 32 ELSE ((-v - 1) % 32) + 32
    BY <1>1, <1>4 DEF Put
  <2>2. v % 32 \in 0..255 /\ ((-v - 1) % 32) + 32 \in 0..255
    BY SMT
  <2> QED
    BY <2>1, <2>2 DEF Byte
<1> QED
  BY <1>2, <1>3, <1>4 DEF IsField

\* Two or three that share a byte leave a byte.
LEMMA SharedIsByte ==
  /\ \A a, b \in Int : (a % 2) * 1 + (b % 2) * 2 \in 0..255
  /\ \A a, b \in Int : (a % 16) * 1 + (b % 16) * 16 \in 0..255
  /\ \A a, b \in Int : (a % 16) * 1 + (b % 8) * 16 \in 0..255
  /\ \A a, b, c \in Int : (a % 2) * 1 + (b % 2) * 2 + (c % 2) * 4 \in 0..255
  /\ \A a, b, c \in Int : (a % 16) * 1 + (b % 2) * 16 + (c % 2) * 32 \in 0..255
BY SMT

\* Two fields side by side fill a byte and no more.
LEMMA PairHasByte ==
  ASSUME NEW F, NEW f \in F, NEW g \in F, IsField(f), IsField(g), Pair(F, f, g),
         NEW v \in Int, NEW w \in Int
  PROVE  Put(f, v, f.at) + Put(g, w, f.at) \in Byte
<1>1. /\ f.at = g.at /\ f.len = 1 /\ g.len = 1 /\ f.kind = "bits" /\ g.kind = "bits"
      /\ f.at \in Nat /\ g.at \in Nat /\ f.low = 0
      /\ <<f.low, f.width, g.low, g.width>> \in {<<0, 1, 1, 1>>, <<0, 4, 4, 4>>, <<0, 4, 4, 3>>}
  BY DEF Pair, IsField
<1>2. /\ Put(f, v, f.at) = (v % 2^f.width) * 2^f.low
      /\ Put(g, w, g.at) = (w % 2^g.width) * 2^g.low
  BY <1>1, BitsField, Zenon
<1>3. CASE f.width = 1 /\ g.low = 1 /\ g.width = 1
  <2>1. 2^f.low = 1 /\ 2^f.width = 2 /\ 2^g.low = 2 /\ 2^g.width = 2
    BY <1>1, <1>3, PowersOf2
  <2>2. Put(f, v, f.at) = (v % 2) * 1 /\ Put(g, w, f.at) = (w % 2) * 2
    BY <1>1, <1>2, <2>1
  <2>3. (v % 2) * 1 + (w % 2) * 2 \in 0..255
    BY SharedIsByte
  <2> QED
    BY <2>2, <2>3 DEF Byte
<1>4. CASE f.width = 4 /\ g.low = 4 /\ g.width = 4
  <2>1. 2^f.low = 1 /\ 2^f.width = 16 /\ 2^g.low = 16 /\ 2^g.width = 16
    BY <1>1, <1>4, PowersOf2
  <2>2. Put(f, v, f.at) = (v % 16) * 1 /\ Put(g, w, f.at) = (w % 16) * 16
    BY <1>1, <1>2, <2>1
  <2>3. (v % 16) * 1 + (w % 16) * 16 \in 0..255
    BY SharedIsByte
  <2> QED
    BY <2>2, <2>3 DEF Byte
<1>5. CASE f.width = 4 /\ g.low = 4 /\ g.width = 3
  <2>1. 2^f.low = 1 /\ 2^f.width = 16 /\ 2^g.low = 16 /\ 2^g.width = 8
    BY <1>1, <1>5, PowersOf2
  <2>2. Put(f, v, f.at) = (v % 16) * 1 /\ Put(g, w, f.at) = (w % 8) * 16
    BY <1>1, <1>2, <2>1
  <2>3. (v % 16) * 1 + (w % 8) * 16 \in 0..255
    BY SharedIsByte
  <2> QED
    BY <2>2, <2>3 DEF Byte
<1> QED
  BY <1>1, <1>3, <1>4, <1>5

\* Three do.
LEMMA TripleHasByte ==
  ASSUME NEW F, NEW f \in F, NEW g \in F, NEW h \in F, IsField(f), IsField(g), IsField(h),
         Triple(F, f, g, h), NEW v \in Int, NEW w \in Int, NEW u \in Int
  PROVE  Put(f, v, f.at) + Put(g, w, f.at) + Put(h, u, f.at) \in Byte
<1>1. /\ f.at = g.at /\ f.at = h.at /\ f.len = 1 /\ g.len = 1 /\ h.len = 1
      /\ f.kind = "bits" /\ g.kind = "bits" /\ h.kind = "bits"
      /\ f.at \in Nat /\ g.at \in Nat /\ h.at \in Nat /\ f.low = 0
      /\ <<f.low, f.width, g.low, g.width, h.low, h.width>> \in
           {<<0, 1, 1, 1, 2, 1>>, <<0, 4, 4, 1, 5, 1>>}
  BY DEF Triple, IsField
<1>2. /\ Put(f, v, f.at) = (v % 2^f.width) * 2^f.low
      /\ Put(g, w, g.at) = (w % 2^g.width) * 2^g.low
      /\ Put(h, u, h.at) = (u % 2^h.width) * 2^h.low
  BY <1>1, BitsField, Zenon
<1>3. CASE f.width = 1 /\ g.low = 1 /\ g.width = 1 /\ h.low = 2 /\ h.width = 1
  <2>1. /\ 2^f.low = 1 /\ 2^f.width = 2 /\ 2^g.low = 2 /\ 2^g.width = 2
        /\ 2^h.low = 4 /\ 2^h.width = 2
    BY <1>1, <1>3, PowersOf2
  <2>2. /\ Put(f, v, f.at) = (v % 2) * 1 /\ Put(g, w, f.at) = (w % 2) * 2
        /\ Put(h, u, f.at) = (u % 2) * 4
    BY <1>1, <1>2, <2>1
  <2>3. (v % 2) * 1 + (w % 2) * 2 + (u % 2) * 4 \in 0..255
    BY SharedIsByte
  <2> QED
    BY <2>2, <2>3 DEF Byte
<1>4. CASE f.width = 4 /\ g.low = 4 /\ g.width = 1 /\ h.low = 5 /\ h.width = 1
  <2>1. /\ 2^f.low = 1 /\ 2^f.width = 16 /\ 2^g.low = 16 /\ 2^g.width = 2
        /\ 2^h.low = 32 /\ 2^h.width = 2
    BY <1>1, <1>4, PowersOf2
  <2>2. /\ Put(f, v, f.at) = (v % 16) * 1 /\ Put(g, w, f.at) = (w % 2) * 16
        /\ Put(h, u, f.at) = (u % 2) * 32
    BY <1>1, <1>2, <2>1
  <2>3. (v % 16) * 1 + (w % 2) * 16 + (u % 2) * 32 \in 0..255
    BY SharedIsByte
  <2> QED
    BY <2>2, <2>3 DEF Byte
<1> QED
  BY <1>1, <1>3, <1>4

\* The bytes of a class that is laid out.
LEMMA LaidBytes ==
  ASSUME NEW F, NEW n, Laid(F, n), NEW p \in Values(F)
  PROVE  Encode(F, p) \in Seq(Byte) /\ Len(Encode(F, p)) = n
<1>0. Fills(F, n) /\ n \in Nat /\ IsFiniteSet(F) /\ Size(F) = n
  BY DEF Laid, Fills
<1>1. \A f \in F : p[f.name] \in Int
  BY DEF Values, Names
<1>2. \A f \in F : IsField(f)
  BY <1>0 DEF Fills
<1>3. ASSUME NEW f \in F, NEW k \in 1..n, Covers(f, k)
      PROVE  Encode(F, p)[k] \in Byte
  <2>1. PICK i \in 0..(f.len - 1) : k = f.at + 1 + i
    <3>1. k - 1 - f.at \in 0..(f.len - 1) /\ k = f.at + 1 + (k - 1 - f.at)
      BY <1>2, <1>3 DEF Covers, IsField
    <3> QED
      BY <3>1
  <2>2. CASE Alone(F, f)
    <3>1. Encode(F, p)[f.at + 1 + i] = Put(f, p[f.name], f.at + i)
      BY <1>0, <1>1, <2>2, BytesOf
    <3>2. Put(f, p[f.name], f.at + i) \in Byte
      BY <1>1, <1>2, <2>2, AloneHasBytes
    <3> QED
      BY <2>1, <3>1, <3>2
  <2>3. ASSUME NEW x \in F, NEW y \in F, Pair(F, x, y), x.at = f.at, f.len = 1
        PROVE  Encode(F, p)[k] \in Byte
    <3>1. Encode(F, p)[x.at + 1] = Put(x, p[x.name], x.at) + Put(y, p[y.name], x.at)
      BY <1>0, <1>1, <2>3, BytesOf
    <3>2. Put(x, p[x.name], x.at) + Put(y, p[y.name], x.at) \in Byte
      BY <1>1, <1>2, <2>3, PairHasByte
    <3>3. k = x.at + 1
      BY <1>2, <2>1, <2>3 DEF IsField
    <3> QED
      BY <3>1, <3>2, <3>3
  <2>4. ASSUME NEW x \in F, NEW y \in F, NEW z \in F, Triple(F, x, y, z), x.at = f.at, f.len = 1
        PROVE  Encode(F, p)[k] \in Byte
    <3>1. Encode(F, p)[x.at + 1] =
            Put(x, p[x.name], x.at) + Put(y, p[y.name], x.at) + Put(z, p[z.name], x.at)
      BY <1>0, <1>1, <2>4, BytesOf
    <3>2. Put(x, p[x.name], x.at) + Put(y, p[y.name], x.at) + Put(z, p[z.name], x.at) \in Byte
      BY <1>1, <1>2, <2>4, TripleHasByte
    <3>3. k = x.at + 1
      BY <1>2, <2>1, <2>4 DEF IsField
    <3> QED
      BY <3>1, <3>2, <3>3
  <2>5. CASE \E g \in F : Pair(F, f, g) \/ Pair(F, g, f)
    BY <2>3, <2>5 DEF Pair
  <2>6. CASE \E g, h \in F : Triple(F, f, g, h) \/ Triple(F, g, f, h) \/ Triple(F, g, h, f)
    BY <2>4, <2>6 DEF Triple
  <2> QED
    BY <2>2, <2>5, <2>6 DEF Laid
<1>4. ASSUME NEW k \in 1..n, \A f \in F : ~Covers(f, k)
      PROVE  Encode(F, p)[k] \in Byte
  <2>1. F # {}
    <3>1. F = {} => Size(F) = 0
      BY SizeIs
    <3> QED
      BY <1>0, <3>1
  <2>2. PICK x \in F : TRUE
    BY <2>1
  <2>3. k \in 1..Max({0} \cup {f.at + f.len : f \in F}) /\ k \in Nat
    BY <1>0 DEF Size
  <2>4. ByteSums(F, p, k)
    BY <1>0, <1>1, <1>2, <2>3, ByteIs
  <2>5. Encode(F, p)[k] = Put(x, p[x.name], k - 1)
    BY <1>4, <2>4 DEF ByteSums
  <2>6. Put(x, p[x.name], k - 1) = 0
    <3>1. IsField(x) /\ p[x.name] \in Int /\ k \in Int /\ ~Covers(x, k)
      BY <1>1, <1>2, <1>4
    <3> QED
      BY <3>1, PutInt, Zenon
  <2> QED
    BY <2>5, <2>6 DEF Byte
<1>5. \A k \in 1..n : Encode(F, p)[k] \in Byte
  BY <1>3, <1>4
<1>6. Encode(F, p) = [k \in 1..n |-> Encode(F, p)[k]]
  BY <1>0 DEF Encode, Size
<1> HIDE DEF Encode
<1>7. PICK e : e = Encode(F, p)
  OBVIOUS
<1>8. e = [k \in 1..n |-> e[k]] /\ \A k \in 1..n : e[k] \in Byte
  BY <1>5, <1>6, <1>7
<1>9. e \in Seq(Byte) /\ Len(e) = n
  BY <1>0, <1>8, IsSequence
<1> QED
  BY <1>7, <1>9

\* The bytes of a command, of which there are at most six.
LEMMA GeneratedBytes ==
  ASSUME NEW d \in {"UP", "DOWN"}, NEW m \in Commands(d)
  PROVE  generate(m) \in Seq(Byte) /\ Len(generate(m)) <= 6
<1>1. PICK class \in mac_commands_map[d] : \E p \in Values(class.generated) : m = Command(class, p)
  BY DEF Commands
<1>2. PICK p \in Values(class.generated) : m = Command(class, p)
  BY <1>1
<1>3. class.CID \in Byte
  <2>1. class.CID \in 1..19
    BY UPCIDs, DOWNCIDs
  <2> QED
    BY <2>1 DEF Byte
<1>4. PICK n \in 0..5 : Laid(class.generated, n)
  <2>1. CASE class = PingSlotChannelReq
    BY <2>1, PingSlotChannelReqFields
  <2>2. CASE class # PingSlotChannelReq
    <3>1. class.SIZE \in 0..5
      BY UPCIDs, DOWNCIDs
    <3>2. Laid(class.generated, class.SIZE)
      BY <2>2, ClassesLaid DEF LaidOut
    <3> QED
      BY <3>1, <3>2
  <2> QED
    BY <2>1, <2>2
<1>5. PICK e \in Seq(Byte) : e = Encode(class.generated, p) /\ Len(e) = n
  BY <1>4, LaidBytes
<1>6. generate(m) = << class.CID >> \o e
  BY <1>2, <1>5 DEF generate, Command
<1>7. << class.CID >> \in Seq(Byte) /\ Len(<< class.CID >>) = 1
  BY <1>3, OneByte
<1>8. << class.CID >> \o e \in Seq(Byte) /\ Len(<< class.CID >> \o e) = 1 + n
  BY <1>5, <1>7, BytesJoined
<1> QED
  BY <1>6, <1>8

\* Two commands, one behind the other.
LEMMA TwoGenerated ==
  ASSUME NEW d \in {"UP", "DOWN"}, NEW a \in Commands(d), NEW b \in Commands(d)
  PROVE  generateAll(<< a, b >>) = generate(a) \o generate(b)
<1> DEFINE s == << a, b >>
<1>1. s \in Seq(Commands(d)) /\ Len(s) = 2 /\ s[1] = a /\ s[2] = b
  OBVIOUS
<1> HIDE DEF s
<1>2. generate(a) \in Seq(Int) /\ generate(b) \in Seq(Int)
  BY CommandBytes
<1>3. \A i \in 1..Len(s) : generate(s[i]) \in Seq(Int)
  <2>1. \A i \in 1..Len(s) : i = 1 \/ i = 2
    BY <1>1
  <2> QED
    BY <1>1, <1>2, <2>1
<1>4. PICK B : IsBytes(B, s)
  BY <1>1, <1>3, BytesExist
<1>5. /\ B[0] = <<>> /\ B[1] = B[0] \o generate(a) /\ B[2] = B[1] \o generate(b)
      /\ generateAll(SubSeq(s, 1, 2)) = B[2]
  <2>1. /\ 1 \in 1..Len(s) /\ 2 \in 1..Len(s) /\ 2 \in 0..Len(s) /\ 1 - 1 = 0 /\ 2 - 1 = 1
    BY <1>1
  <2>2. B[1] = B[1 - 1] \o generate(s[1]) /\ B[2] = B[2 - 1] \o generate(s[2])
    BY <1>4, <2>1, Zenon DEF IsBytes
  <2> QED
    BY <1>1, <1>4, <2>1, <2>2 DEF IsBytes
<1>6. B[1] = generate(a)
  BY <1>2, <1>5, ConcatEmptySeq
<1>7. SubSeq(s, 1, 2) = s
  BY <1>1, SubSeqFull
<1> QED
  BY <1>5, <1>6, <1>7 DEF s

\* A payload for MAC commands.
IsCommands(x) == x \in Seq(Byte) /\ Len(x) <= 13

\* What the checker offers to the parser is one.
LEMMA OfferBytes ==
  ASSUME NEW d \in {"UP", "DOWN"}, NEW offer \in Offers(d)
  PROVE  IsCommands(offer.bytes)
<1>1. /\ \A class \in mac_commands_map[d] : Samples(class) \subseteq Commands(d)
      /\ Tops(d) \subseteq Commands(d)
  BY SampleCommands DEF Tops
<1>2. ASSUME NEW a \in Commands(d), NEW b \in Commands(d)
      PROVE  /\ IsCommands(generateAll(<< a, b >>))
             /\ \A cut \in 0..(Len(generateAll(<< a, b >>)) - 1) :
                  IsCommands(SubSeq(generateAll(<< a, b >>), 1, cut))
             /\ IsCommands(generate(a) \o << Unknown >> \o generate(b))
  <2>1. PICK x \in Seq(Byte), y \in Seq(Byte) :
          x = generate(a) /\ y = generate(b) /\ Len(x) <= 6 /\ Len(y) <= 6
    BY GeneratedBytes
  <2>2. PICK z \in Seq(Byte) : z = x \o y /\ Len(z) = Len(x) + Len(y)
    BY BytesJoined
  <2>3. generateAll(<< a, b >>) = z
    BY <2>1, <2>2, TwoGenerated
  <2>4. Len(x) \in Nat /\ Len(y) \in Nat /\ Len(z) \in Nat
    OBVIOUS
  <2>5. IsCommands(z)
    BY <2>1, <2>2, <2>4 DEF IsCommands
  <2>6. ASSUME NEW cut \in 0..(Len(z) - 1)
        PROVE  IsCommands(SubSeq(z, 1, cut))
    <3>1. cut \in Nat /\ cut <= Len(z) /\ 1 \in Nat /\ 1 <= 1 /\ 1 <= cut + 1
      BY <2>4
    <3>2. SubSeq(z, 1, cut) \in Seq(Byte) /\ Len(SubSeq(z, 1, cut)) = cut + 1 - 1
      BY <3>1, PartOf
    <3>3. cut + 1 - 1 <= 13
      BY <2>1, <2>2, <2>4, <3>1
    <3> QED
      BY <3>2, <3>3 DEF IsCommands
  <2>7. PICK u \in Seq(Byte) : u = << Unknown >> /\ Len(u) = 1
    <3>1. Unknown \in Byte
      BY DEF Unknown, Byte
    <3> QED
      BY <3>1, OneByte
  <2>8. PICK v \in Seq(Byte) : v = x \o u /\ Len(v) = Len(x) + Len(u)
    BY BytesJoined
  <2>9. v \o y \in Seq(Byte) /\ Len(v \o y) = Len(v) + Len(y)
    BY BytesJoined
  <2>10. Len(v) + Len(y) <= 13
    BY <2>1, <2>4, <2>7, <2>8
  <2>11. IsCommands(v \o y)
    BY <2>9, <2>10 DEF IsCommands
  <2> QED
    BY <2>1, <2>3, <2>5, <2>6, <2>7, <2>8, <2>11
<1>3. CASE \E a \in UNION {Samples(c) : c \in mac_commands_map[d]}, b \in Tops(d) :
             offer = Offer(<< a, b >>, generateAll(<< a, b >>))
  <2>1. PICK a \in Commands(d), b \in Commands(d) : offer = Offer(<< a, b >>, generateAll(<< a, b >>))
    BY <1>1, <1>3
  <2>2. IsCommands(generateAll(<< a, b >>))
    BY <1>2
  <2> QED
    BY <2>1, <2>2 DEF Offer
<1>4. CASE \E a, b \in Tops(d) :
             \/ \E cut \in 0..(Len(generateAll(<< a, b >>)) - 1) :
                  offer = Offer(<< a, b >>, SubSeq(generateAll(<< a, b >>), 1, cut))
             \/ offer = Offer(<< a, b >>, generate(a) \o << Unknown >> \o generate(b))
  <2>1. PICK a \in Commands(d), b \in Commands(d) :
             \/ \E cut \in 0..(Len(generateAll(<< a, b >>)) - 1) :
                  offer = Offer(<< a, b >>, SubSeq(generateAll(<< a, b >>), 1, cut))
             \/ offer = Offer(<< a, b >>, generate(a) \o << Unknown >> \o generate(b))
    BY <1>1, <1>4
  <2>2. /\ \A cut \in 0..(Len(generateAll(<< a, b >>)) - 1) :
             IsCommands(SubSeq(generateAll(<< a, b >>), 1, cut))
        /\ IsCommands(generate(a) \o << Unknown >> \o generate(b))
    BY <1>2
  <2>3. \A x, y : offer = Offer(x, y) /\ IsCommands(y) => IsCommands(offer.bytes)
    BY DEF Offer
  <2>4. CASE offer = Offer(<< a, b >>, generate(a) \o << Unknown >> \o generate(b))
    BY <2>2, <2>3, <2>4, Zenon
  <2>5. CASE \E cut \in 0..(Len(generateAll(<< a, b >>)) - 1) :
               offer = Offer(<< a, b >>, SubSeq(generateAll(<< a, b >>), 1, cut))
    BY <2>2, <2>3, <2>5, Zenon
  <2> QED
    BY <2>1, <2>4, <2>5
<1> QED
  BY <1>3, <1>4, OfferKinds

\* The bytes of a frame that LoRaWAN has.
LEMMA WireBytes ==
  ASSUME NEW m, Sendable(m), NEW r \in Wire(m)
  PROVE  r \in Seq(Byte)
<1>1. CASE IsSentData(m)
  <2>1. m.payload.class \in {"MACPayloadUplink", "MACPayloadDownlink"} /\ DataBytes(m) \in Seq(Byte)
    BY <1>1, DataDelivered DEF IsData
  <2>2. Wire(m) = {DataBytes(m)}
    BY <2>1 DEF Wire
  <2> QED
    BY <2>1, <2>2
<1>2. CASE IsSentJoinRequest(m)
  BY <1>2, JoinRequestDelivered
<1>3. CASE IsSentJoinAccept(m)
  BY <1>3, JoinAcceptDelivered
<1>4. CASE IsSentProprietary(m)
  <2>1. PICK j \in 0..3, s \in Seq(Byte) : m = Intent(ProprietaryType, j, Proprietary(s), <<>>)
    BY <1>4 DEF IsSentProprietary
  <2>2. PICK h : h = [mtype |-> ProprietaryType, major |-> j]
    OBVIOUS
  <2>3. m.mhdr = h /\ m.payload = Proprietary(s) /\ m.payload.class = "Proprietary" /\ m.payload.payload = s
    BY <2>1, <2>2 DEF Intent, Proprietary
  <2>4. PICK x \in Byte : Encode(MHDR, h) = << x >>
    <3>1. ProprietaryType \in 0..7
      BY DEF ProprietaryType
    <3>2. IsMHDR(h)
      BY <2>2, <3>1 DEF IsMHDR
    <3> QED
      BY <3>2, MHDRAgain
  <2>5. PICK c : c = << 1, 2, 3, 4 >>
    OBVIOUS
  <2>6. c \in Seq(Byte)
    <3>1. c = [k \in 1..4 |-> c[k]] /\ \A k \in 1..4 : c[k] \in Byte
      <4>1. 1 \in Byte /\ 2 \in Byte /\ 3 \in Byte /\ 4 \in Byte
        BY DEF Byte
      <4> QED
        BY <2>5, <4>1
    <3> QED
      BY <3>1, IsSequence
  <2>7. Wire(m) = generatePHYPayload(PHYPayload(h, m.payload, c))
    BY <2>3, <2>5 DEF Wire
  <2>8. generatePayload(m.payload) = {s}
    BY <2>3 DEF generatePayload
  <2>9. generatePHYPayload(PHYPayload(h, m.payload, c)) = {<< x >> \o s \o c}
    BY <2>4, <2>8 DEF generatePHYPayload, PHYPayload
  <2>10. << x >> \o s \o c \in Seq(Byte)
    <3>1. << x >> \in Seq(Byte)
      BY OneByte
    <3>2. << x >> \o s \in Seq(Byte)
      BY <3>1, BytesJoined
    <3> QED
      BY <2>6, <3>2, BytesJoined
  <2> QED
    BY <2>7, <2>9, <2>10
<1> QED
  BY <1>1, <1>2, <1>3, <1>4 DEF Sendable

\* Damaged bytes are bytes.
LEMMA DamagedBytes ==
  ASSUME NEW b \in Seq(Byte), NEW r \in Damaged(b)
  PROVE  r \in Seq(Byte)
<1>1. CASE \E i \in DOMAIN b, d \in {1, 4, 16, 28, 32, 64, 128, 255} : r = [b EXCEPT ![i] = (@ + d) % 256]
  <2>1. PICK i \in DOMAIN b, d \in {1, 4, 16, 28, 32, 64, 128, 255} : r = [b EXCEPT ![i] = (@ + d) % 256]
    BY <1>1
  <2>2. PICK n \in Nat : n = Len(b) /\ DOMAIN b = 1..n
    OBVIOUS
  <2>3. PICK x : x = (b[i] + d) % 256
    OBVIOUS
  <2>4. x \in Byte
    <3>1. b[i] \in Byte
      BY <2>2
    <3>2. PICK y \in Int : y = b[i] + d
      <4>1. b[i] \in Int /\ d \in Int
        BY <3>1, BytesAreInts
      <4>2. b[i] + d \in Int
        BY <4>1
      <4> QED
        BY <4>2
    <3>3. x = y % 256
      BY <2>3, <3>2
    <3> QED
      BY <3>3, SMT DEF Byte
  <2>5. r = [b EXCEPT ![i] = x]
    BY <2>1, <2>3
  <2>6. \A k \in 1..n : b[k] \in Byte
    BY <2>2
  <2>7. r = [k \in 1..n |-> IF k = i THEN x ELSE b[k]]
    BY <2>2, <2>5
  <2>8. r = [k \in 1..n |-> r[k]] /\ \A k \in 1..n : r[k] \in Byte
    BY <2>4, <2>6, <2>7
  <2> QED
    BY <2>2, <2>8, IsSequence
<1>2. CASE \E cut \in 0..(Len(b) - 1) : r = SubSeq(b, 1, cut)
  <2>1. PICK cut \in 0..(Len(b) - 1) : r = SubSeq(b, 1, cut)
    BY <1>2
  <2>2. cut \in Nat /\ 1 \in Nat /\ 1 <= 1 /\ 1 <= cut + 1 /\ cut <= Len(b)
    OBVIOUS
  <2> QED
    BY <2>1, <2>2, PartOf
<1> QED
  BY <1>1, <1>2 DEF Damaged

-----------------------------------------------------------------------------

\* What a data frame has room for.
IsOpts(o) == o \in Seq(Byte) /\ Len(o) <= 15
IsLoad(p, s) ==
  p \in Seq(Byte) /\ Len(p) <= 1 /\ s \in Seq(Byte) /\ Len(s) <= 200 /\ (p = <<>> => s = <<>>)

\* What Data makes of arguments in their ranges can be sent.
LEMMA DataSendable ==
  ASSUME NEW t \in UplinkTypes \cup DownlinkTypes, NEW j \in 0..3, NEW a, IsAddr(a),
         NEW c, IsCounter(c), NEW flags, NEW o, IsOpts(o), NEW p, NEW s, IsLoad(p, s)
  PROVE  Sendable(Data(t, j, a, c, flags, o, p, s))
<1>1. /\ o \in Seq(Byte) /\ Len(o) <= 15 /\ p \in Seq(Byte) /\ Len(p) <= 1
      /\ s \in Seq(Byte) /\ (p = <<>> => s = <<>>)
  BY DEF IsOpts, IsLoad
<1>2. 13 + Len(o) + Len(s) <= 255
  BY DEF IsOpts, IsLoad
<1> QED
  BY <1>1, <1>2 DEF Sendable, IsSentData

\* The addresses, counters and payloads that are sent.
LEMMA TypesSent == UplinkTypes = {2, 4} /\ DownlinkTypes = {3, 5}
BY DEF UplinkTypes, DownlinkTypes

\* The addresses the checker uses.
LEMMA AddrsSent ==
  IsAddr(Addr) /\ IsAddr(<< 255, 255, 255, 255 >>) /\ IsAddr(<< 0, 0, 0, 1 >>)
<1>1. ASSUME NEW a \in Byte, NEW b \in Byte, NEW c \in Byte, NEW d \in Byte
      PROVE  IsAddr(<< a, b, c, d >>)
  BY <1>1 DEF IsAddr
<1>2. 38 \in Byte /\ 1 \in Byte /\ 255 \in Byte /\ 7 \in Byte /\ 0 \in Byte
  BY DEF Byte
<1> QED
  BY <1>1, <1>2 DEF Addr

\* The counters.
LEMMA CountersSent ==
  \A c \in {0, 1, 255, 256, 258, 513, 65535, 65536, 65537, 16777216} : IsCounter(c)
BY DEF IsCounter

\* No commands and no payload.
LEMMA NoLoad == IsOpts(<<>>) /\ IsLoad(<<>>, <<>>)
BY Nothing DEF IsOpts, IsLoad

\* A payload that is not too long.
LEMMA SmallLoad ==
  ASSUME NEW x, x \in Byte, NEW s, s \in Seq(Byte), Len(s) <= 200
  PROVE  IsLoad(<< x >>, s)
<1>1. << x >> \in Seq(Byte) /\ Len(<< x >>) = 1 /\ << x >> # <<>>
  BY OneByte
<1> QED
  BY <1>1 DEF IsLoad

\* Runs of bytes.
Run(n) == [i \in 1..n |-> i]
Unknowns(n) == [i \in 1..n |-> Unknown]

\* The payloads the checker uses.
LEMMA Runs ==
  ASSUME NEW n \in 0..33
  PROVE  /\ Run(n) \in Seq(Byte) /\ Len(Run(n)) = n
         /\ Unknowns(n) \in Seq(Byte) /\ Len(Unknowns(n)) = n
<1>1. \A i \in 1..n : i \in Byte /\ Unknown \in Byte
  BY DEF Byte, Unknown
<1> QED
  BY <1>1 DEF Run, Unknowns

\* MAC commands are in an encrypted payload or in FOpts.
LEMMA CarrierKinds ==
  ASSUME NEW d, NEW x, NEW m \in Carriers(d, x)
  PROVE  \/ m = Data(IF d = "UP" THEN 2 ELSE 3, 0, Addr, 258, {}, <<>>, << 0 >>, x)
         \/ m = Data(IF d = "UP" THEN 4 ELSE 5, 0, Addr, 258, {"ack"}, x, << 7 >>, << 1, 2, 3 >>)
<1> DEFINE first == Data(IF d = "UP" THEN 2 ELSE 3, 0, Addr, 258, {}, <<>>, << 0 >>, x)
           other == Data(IF d = "UP" THEN 4 ELSE 5, 0, Addr, 258, {"ack"}, x, << 7 >>, << 1, 2, 3 >>)
<1>1. Carriers(d, x) \subseteq {first, other}
  <2>1. Carriers(d, x) = {first} \cup (IF Len(x) > FOptsMax THEN {} ELSE {other})
    BY DEF Carriers
  <2> HIDE DEF first, other
  <2> QED
    BY <2>1
<1> HIDE DEF first, other
<1>2. m = first \/ m = other
  BY <1>1
<1> QED
  BY <1>2 DEF first, other

\* The frames that carry MAC commands.
LEMMA CarriersSendable ==
  ASSUME NEW d, NEW x, IsCommands(x), NEW m \in Carriers(d, x)
  PROVE  Sendable(m)
<1>0. IsAddr(Addr) /\ IsCounter(258) /\ 0 \in 0..3 /\ IsOpts(<<>>)
  BY AddrsSent, CountersSent, NoLoad
<1>1. CASE m = Data(IF d = "UP" THEN 2 ELSE 3, 0, Addr, 258, {}, <<>>, << 0 >>, x)
  <2>1. PICK t \in UplinkTypes \cup DownlinkTypes : t = IF d = "UP" THEN 2 ELSE 3
    BY TypesSent
  <2>2. IsLoad(<< 0 >>, x)
    <3>1. 0 \in Byte /\ x \in Seq(Byte) /\ Len(x) <= 200
      BY DEF Byte, IsCommands
    <3> QED
      BY <3>1, SmallLoad
  <2>3. Sendable(Data(t, 0, Addr, 258, {}, <<>>, << 0 >>, x))
    BY <1>0, <2>2, DataSendable
  <2> QED
    BY <1>1, <2>1, <2>3
<1>2. CASE m = Data(IF d = "UP" THEN 4 ELSE 5, 0, Addr, 258, {"ack"}, x, << 7 >>, << 1, 2, 3 >>)
  <2>1. PICK t \in UplinkTypes \cup DownlinkTypes : t = IF d = "UP" THEN 4 ELSE 5
    BY TypesSent
  <2>2. IsLoad(<< 7 >>, << 1, 2, 3 >>)
    <3>1. 7 \in Byte /\ 1 \in Byte /\ 2 \in Byte /\ 3 \in Byte
      BY DEF Byte
    <3>2. << 1, 2, 3 >> \in Seq(Byte) /\ Len(<< 1, 2, 3 >>) <= 200
      BY <3>1
    <3> QED
      BY <3>1, <3>2, SmallLoad
  <2>3. IsOpts(x)
    BY DEF IsOpts, IsCommands
  <2>4. Sendable(Data(t, 0, Addr, 258, {"ack"}, x, << 7 >>, << 1, 2, 3 >>))
    BY <1>0, <2>2, <2>3, DataSendable
  <2> QED
    BY <1>2, <2>1, <2>4
<1>3. \/ m = Data(IF d = "UP" THEN 2 ELSE 3, 0, Addr, 258, {}, <<>>, << 0 >>, x)
      \/ m = Data(IF d = "UP" THEN 4 ELSE 5, 0, Addr, 258, {"ack"}, x, << 7 >>, << 1, 2, 3 >>)
  BY CarrierKinds
<1> QED
  BY <1>1, <1>2, <1>3

\* A pair of bytes, and eight of them.
LEMMA TwoOrThree ==
  ASSUME NEW x \in Byte, NEW y \in Byte, NEW z \in Byte
  PROVE  /\ << x, y >> \in Seq(Byte) /\ Len(<< x, y >>) = 2
         /\ << x, y, z >> \in Seq(Byte) /\ Len(<< x, y, z >>) = 3
OBVIOUS

\* An EUI.
LEMMA EightBytes ==
  ASSUME NEW s, NEW a \in Byte, NEW b \in Byte, NEW c \in Byte, NEW d \in Byte,
         NEW e \in Byte, NEW f \in Byte, NEW g \in Byte, NEW h \in Byte,
         s = << a, b, c, d, e, f, g, h >>
  PROVE  IsEUI(s)
<1>1. s = [k \in 1..8 |-> s[k]]
  OBVIOUS
<1>2. /\ s[1] = a /\ s[2] = b /\ s[3] = c /\ s[4] = d /\ s[5] = e /\ s[6] = f /\ s[7] = g /\ s[8] = h
  OBVIOUS
<1>3. ASSUME NEW k \in 1..8
      PROVE  s[k] \in Byte
  <2>1. k = 1 \/ k = 2 \/ k = 3 \/ k = 4 \/ k = 5 \/ k = 6 \/ k = 7 \/ k = 8
    OBVIOUS
  <2> QED
    BY <1>2, <2>1, Zenon
<1> QED
  BY <1>1, <1>3, IsSequence DEF IsEUI

\* Frames with a header at the ends of its ranges, and nothing else.
LEMMA BareSendable ==
  ASSUME NEW t \in UplinkTypes \cup DownlinkTypes, NEW j \in {0, 3}, NEW flags
  PROVE  Sendable(Data(t, j, Addr, 1, flags, <<>>, <<>>, <<>>))
<1>1. /\ IsAddr(Addr) /\ j \in 0..3 /\ IsCounter(1) /\ IsOpts(<<>>) /\ IsLoad(<<>>, <<>>)
  BY AddrsSent, CountersSent, NoLoad
<1> QED
  BY <1>1, DataSendable, Zenon

\* Frames with two bytes.
LEMMA FarSendable ==
  ASSUME NEW t \in UplinkTypes \cup DownlinkTypes, NEW a, IsAddr(a), NEW c, IsCounter(c),
         NEW x \in Byte
  PROVE  Sendable(Data(t, 0, a, c, {}, <<>>, << x >>, << Unknown, 8 >>))
<1>1. PICK s : s = << Unknown, 8 >>
  OBVIOUS
<1>2. s \in Seq(Byte) /\ Len(s) = 2
  <2>1. Unknown \in Byte /\ 8 \in Byte
    BY DEF Byte, Unknown
  <2> QED
    BY <1>1, <2>1, TwoOrThree
<1>3. Len(s) <= 200
  BY <1>2
<1>4. IsLoad(<< x >>, s)
  BY <1>2, <1>3, SmallLoad, Zenon
<1>5. IsOpts(<<>>) /\ 0 \in 0..3
  BY NoLoad
<1>6. Sendable(Data(t, 0, a, c, {}, <<>>, << x >>, s))
  BY <1>4, <1>5, DataSendable, Zenon
<1> QED
  BY <1>1, <1>6, Zenon

\* Frames with FOpts and a payload of any length.
LEMMA LongSendable ==
  ASSUME NEW t \in UplinkTypes \cup DownlinkTypes, NEW c, IsCounter(c),
         NEW x \in Byte, NEW opts \in 0..15, NEW size \in 0..33
  PROVE  Sendable(Data(t, 0, Addr, c, {}, Unknowns(opts), << x >>, Run(size)))
<1>1. IsOpts(Unknowns(opts))
  <2>1. opts \in 0..33
    OBVIOUS
  <2>2. Unknowns(opts) \in Seq(Byte) /\ Len(Unknowns(opts)) = opts
    BY <2>1, Runs, Zenon
  <2> QED
    BY <2>2 DEF IsOpts
<1>2. Run(size) \in Seq(Byte) /\ Len(Run(size)) = size
  BY Runs, Zenon
<1>3. Len(Run(size)) <= 200
  BY <1>2
<1>4. IsLoad(<< x >>, Run(size))
  BY <1>2, <1>3, SmallLoad, Zenon
<1>5. IsAddr(Addr) /\ 0 \in 0..3
  BY AddrsSent
<1> QED
  BY <1>1, <1>4, <1>5, DataSendable, Zenon

\* The members of a set of values that depend on two or three others.
LEMMA HeadersSendable ==
  ASSUME NEW t \in UplinkTypes \cup DownlinkTypes, NEW m \in Headers(t)
  PROVE  Sendable(m)
<1> DEFINE bare(j, flags) == Data(t, j, Addr, 1, flags, <<>>, <<>>, <<>>)
           far(a, port, c) == Data(t, 0, a, c, {}, <<>>, << port >>, << Unknown, 8 >>)
           full(c, port, opts, size) ==
             Data(t, 0, Addr, c, {}, Unknowns(opts), << port >>, Run(size))
           long(port, opts, size) == full(513, port, opts, size)
           flagSets == SUBSET {"adr", "adr_ack_req", "ack", "class_b", "f_pending"}
           addrs == {Addr, << 255, 255, 255, 255 >>, << 0, 0, 0, 1 >>}
           counters == {0, 255, 256, 65535, 65536, 65537, 16777216}
           ports == {0, 1, 255}
           lows == {0, 1}
           lens == {0, 1, FOptsMax}
           sizes == {0, 1, 16, 17, 33}
           majors == {0, 3}
           S1 == {bare(j, flags) : j \in majors, flags \in flagSets}
           S2 == {far(a, port, c) : a \in addrs, port \in ports, c \in counters}
           S3 == {long(port, opts, size) : port \in lows, opts \in lens, size \in sizes}
<1>1. \A j \in majors, flags \in flagSets : Sendable(bare(j, flags))
  BY BareSendable, Zenon
<1>2. \A a \in addrs, port \in ports, c \in counters : Sendable(far(a, port, c))
  <2>1. \A a \in addrs : IsAddr(a)
    BY AddrsSent, ZenonT(60)
  <2>2. \A port \in ports : port \in Byte
    BY DEF Byte
  <2>3. \A c \in counters : IsCounter(c)
    BY CountersSent
  <2> HIDE DEF addrs, ports, counters
  <2> QED
    BY <2>1, <2>2, <2>3, FarSendable, Zenon
<1>3. \A port \in lows, opts \in lens, size \in sizes : Sendable(long(port, opts, size))
  <2>1. \A port \in lows : port \in Byte
    BY DEF Byte
  <2>2. \A opts \in lens : opts \in 0..15
    BY DEF FOptsMax
  <2>3. \A size \in sizes : size \in 0..33
    OBVIOUS
  <2> HIDE DEF lows, lens, sizes
  <2>4. \A c : IsCounter(c) =>
          \A port \in lows, opts \in lens, size \in sizes : Sendable(full(c, port, opts, size))
    BY <2>1, <2>2, <2>3, LongSendable, Zenon
  <2> HIDE DEF full
  <2> QED
    BY <2>4, CountersSent
<1>4. Headers(t) = (S1 \cup S2) \cup S3
  <2>1. Headers(t) = {bare(j, flags) : j \in majors, flags \in flagSets} \cup
          {far(a, port, c) : a \in addrs, port \in ports, c \in counters} \cup
          {Data(t, 0, Addr, 513, {}, [i \in 1..opts |-> Unknown], << port >>, [i \in 1..size |-> i]) :
             port \in lows, opts \in lens, size \in sizes}
    <3>1. Headers(t) =
  {Data(t, major, Addr, 1, flags, <<>>, <<>>, <<>>) :
     major \in {0, 3}, flags \in SUBSET {"adr", "adr_ack_req", "ack", "class_b", "f_pending"}}
  \cup
  {Data(t, 0, addr, f_cnt, {}, <<>>, << port >>, << Unknown, 8 >>) :
     addr \in {Addr, << 255, 255, 255, 255 >>, << 0, 0, 0, 1 >>}, port \in {0, 1, 255},
     f_cnt \in {0, 255, 256, 65535, 65536, 65537, 16777216}}
  \cup
  {Data(t, 0, Addr, 513, {}, [i \in 1..opts |-> Unknown], << port >>,
          [i \in 1..size |-> i]) :
     port \in {0, 1}, opts \in {0, 1, FOptsMax}, size \in {0, 1, 16, 17, 33}}
      BY DEF Headers
    <3> QED
      BY <3>1
  <2> QED
    BY <2>1 DEF Run, Unknowns
<1> HIDE DEF bare, far, full, long, addrs, counters, flagSets, ports, lows, lens, sizes, majors
<1>5. \A x \in S1 : Sendable(x)
  BY <1>1
<1>6. \A x \in S2 : Sendable(x)
  BY <1>2
<1>7. \A x \in S3 : Sendable(x)
  BY <1>3
<1> HIDE DEF S1, S2, S3
<1> QED
  BY <1>4, <1>5, <1>6, <1>7

\* A JoinRequest and a JoinAccept.
LEMMA RequestSendable ==
  ASSUME NEW top \in Byte, NEW n, IsShort(n)
  PROVE  Sendable(RequestOf(top, n))
<1>1. /\ 112 \in Byte /\ 179 \in Byte /\ 213 \in Byte /\ 126 \in Byte /\ 208 \in Byte /\ 0 \in Byte
      /\ 1 \in Byte /\ 2 \in Byte /\ 3 \in Byte /\ 4 \in Byte /\ 5 \in Byte /\ 6 \in Byte
      /\ 255 \in Byte
  BY DEF Byte
<1>2. PICK x : x = << 112, 179, 213, 126, 208, 0, 0, top >>
  OBVIOUS
<1>3. PICK y : y = << top, 1, 2, 3, 4, 5, 6, 255 >>
  OBVIOUS
<1>4. IsEUI(x)
  BY <1>1, <1>2, EightBytes
<1>5. IsEUI(y)
  BY <1>1, <1>3, EightBytes
<1>6. PICK m : m = Intent(JoinRequestType, 0,
                 JoinRequest([app_eui |-> x, dev_eui |-> y, dev_nonce |-> n]), <<>>)
  OBVIOUS
<1>7. 0 \in 0..3
  OBVIOUS
<1>8. IsSentJoinRequest(m)
  BY <1>4, <1>5, <1>6, <1>7 DEF IsSentJoinRequest
<1>9. Sendable(m)
  BY <1>8 DEF Sendable
<1> QED
  BY <1>2, <1>3, <1>6, <1>9 DEF RequestOf

IsNonce(x) == IsBelow(x, 16777216)

\* A JoinAccept.
LEMMA AcceptSendable ==
  ASSUME NEW x, IsNonce(x), NEW z, IsBelow(z, 256), NEW v, IsBelow(v, 16),
         NEW size \in 0..33
  PROVE  Sendable(AcceptOf(x, z, v, size))
<1>1. Run(size) \in Seq(Byte)
  BY Runs
<1>2. IsAddr(Addr)
  BY AddrsSent
<1>3. PICK m : m = Intent(JoinAcceptType, 0,
           JoinAccept([app_nonce |-> x, net_id |-> 19, dev_addr |-> Addr, rx_delay |-> z,
                       rx1_dr_offset |-> 7, rx2_datarate |-> v], Run(size)), <<>>)
  OBVIOUS
<1>b. IsBelow(19, 16777216) /\ IsBelow(7, 8)
  BY SMT DEF IsBelow
<1>4. IsSentJoinAccept(m)
  BY <1>1, <1>2, <1>3, <1>b, SMT DEF IsSentJoinAccept, IsNonce
<1>5. Sendable(m)
  BY <1>4 DEF Sendable
<1> QED
  BY <1>3, <1>5 DEF Run, AcceptOf

\* The values that the checker takes.
LEMMA NoncesSent ==
  /\ \A n \in {0, 1, 256, 65535} : IsShort(n)
  /\ \A n \in {0, 70000, 16777215} : IsNonce(n)
  /\ IsNonce(19) /\ IsBelow(7, 8)
  /\ \A n \in {0, 15, 255} : IsBelow(n, 256)
  /\ \A n \in {0, 15} : IsBelow(n, 16)
BY SMT DEF IsShort, IsBelow, IsNonce

\* All join messages.
LEMMA JoinsSendable ==
  ASSUME NEW m \in Joins
  PROVE  Sendable(m)
<1>1. CASE \E top \in {0, 255}, nonce \in {0, 1, 256, 65535} : m = RequestOf(top, nonce)
  <2>1. PICK top \in {0, 255}, nonce \in {0, 1, 256, 65535} : m = RequestOf(top, nonce)
    BY <1>1
  <2>2. top \in Byte /\ IsShort(nonce)
    BY NoncesSent, SMT DEF Byte
  <2>3. Sendable(RequestOf(top, nonce))
    BY <2>2, RequestSendable, SMT
  <2> QED
    BY <2>1, <2>3, SMT
<1>2. CASE \E nonce \in {0, 70000, 16777215}, delay \in {0, 15, 255}, rate \in {0, 15},
                size \in {0, 16} : m = AcceptOf(nonce, delay, rate, size)
  <2>1. PICK nonce \in {0, 70000, 16777215}, delay \in {0, 15, 255}, rate \in {0, 15},
             size \in {0, 16} : m = AcceptOf(nonce, delay, rate, size)
    BY <1>2
  <2>2. IsNonce(nonce) /\ IsBelow(delay, 256) /\ IsBelow(rate, 16) /\ size \in 0..33
    BY NoncesSent, SMT
  <2>3. Sendable(AcceptOf(nonce, delay, rate, size))
    BY <2>2, AcceptSendable, SMT
  <2> QED
    BY <2>1, <2>3, SMT
<1>3. CASE m = Intent(ProprietaryType, 0, Proprietary(<< 1, 2 >>), <<>>)
  <2>1. 1 \in Byte /\ 2 \in Byte /\ 0 \in 0..3
    BY DEF Byte
  <2>2. << 1, 2 >> \in Seq(Byte)
    BY <2>1
  <2> QED
    BY <1>3, <2>1, <2>2 DEF Sendable, IsSentProprietary
<1>4. \/ \E top \in {0, 255}, nonce \in {0, 1, 256, 65535} : m = RequestOf(top, nonce)
      \/ \E nonce \in {0, 70000, 16777215}, delay \in {0, 15, 255}, rate \in {0, 15},
            size \in {0, 16} : m = AcceptOf(nonce, delay, rate, size)
      \/ m = Intent(ProprietaryType, 0, Proprietary(<< 1, 2 >>), <<>>)
  BY SMT DEF Joins
<1> QED
  BY <1>1, <1>2, <1>3, <1>4, SMT

\* The frames that are damaged.
LEMMA TargetsSendable ==
  ASSUME NEW m \in Targets
  PROVE  Sendable(m)
<1>0. IsAddr(Addr) /\ IsCounter(258) /\ 0 \in 0..3 /\ IsOpts(<<>>) /\ IsLoad(<<>>, <<>>)
  BY AddrsSent, CountersSent, NoLoad
<1>b. 0 \in Byte /\ 1 \in Byte /\ 3 \in Byte /\ 4 \in Byte /\ 5 \in Byte /\ Unknown \in Byte
  BY DEF Byte, Unknown
<1>1. IsOpts(<< Unknown >>) /\ IsLoad(<< 0 >>, << Unknown >>) /\ IsLoad(<< 1 >>, << 5, 4, 3 >>)
  <2>1. << Unknown >> \in Seq(Byte) /\ Len(<< Unknown >>) = 1
    BY <1>b, OneByte
  <2>2. << 5, 4, 3 >> \in Seq(Byte) /\ Len(<< 5, 4, 3 >>) <= 200
    BY <1>b
  <2>b. Len(<< Unknown >>) <= 200
    BY <2>1
  <2>3. IsLoad(<< 0 >>, << Unknown >>)
    BY <1>b, <2>1, <2>b, SmallLoad, Zenon
  <2>4. IsLoad(<< 1 >>, << 5, 4, 3 >>)
    BY <1>b, <2>2, SmallLoad, Zenon
  <2> QED
    BY <2>1, <2>3, <2>4 DEF IsOpts
<1>2. ASSUME NEW t \in UplinkTypes \cup DownlinkTypes
      PROVE  Sendable(Data(t, 0, Addr, 258, {"ack"}, << Unknown >>, << 1 >>, << 5, 4, 3 >>))
  BY <1>0, <1>1, DataSendable
<1>3. Sendable(Data(3, 0, Addr, 258, {}, <<>>, << 0 >>, << Unknown >>))
  <2>1. 3 \in UplinkTypes \cup DownlinkTypes
    BY TypesSent
  <2> QED
    BY <1>0, <1>1, <2>1, DataSendable
<1>4. Sendable(Data(2, 0, Addr, 258, {}, << Unknown >>, <<>>, <<>>))
  <2>1. 2 \in UplinkTypes \cup DownlinkTypes
    BY TypesSent
  <2> QED
    BY <1>0, <1>1, <2>1, DataSendable
<1>5. \/ \E t \in UplinkTypes \cup DownlinkTypes :
           m = Data(t, 0, Addr, 258, {"ack"}, << Unknown >>, << 1 >>, << 5, 4, 3 >>)
      \/ m = Data(3, 0, Addr, 258, {}, <<>>, << 0 >>, << Unknown >>)
      \/ m = Data(2, 0, Addr, 258, {}, << Unknown >>, <<>>, <<>>)
      \/ m \in Joins
  BY DEF Targets
<1> QED
  BY <1>2, <1>3, <1>4, <1>5, JoinsSendable

\* What the checker starts from is what the theorems are about.
LEMMA FramesArrive == FrameInit => SenderInit
<1> SUFFICES ASSUME FrameInit
             PROVE  SenderInit
  OBVIOUS
<1>1. phy = <<>> /\ stage = "arrived"
  BY DEF FrameInit
<1>2. \/ \E d \in {"UP", "DOWN"} : \E offer \in Offers(d) :
           intent \in Carriers(d, offer.bytes) /\ raw \in Wire(intent)
      \/ /\ intent \in Joins \cup UNION {Headers(t) : t \in UplinkTypes \cup DownlinkTypes}
         /\ raw \in Wire(intent)
      \/ /\ intent \in Targets
         /\ raw \in UNION {Damaged(b) : b \in Wire(intent)}
  BY DEF FrameInit
<1>3. CASE \E d \in {"UP", "DOWN"} : \E offer \in Offers(d) :
             intent \in Carriers(d, offer.bytes) /\ raw \in Wire(intent)
  <2>0. PICK d \in {"UP", "DOWN"} : \E offer \in Offers(d) :
          intent \in Carriers(d, offer.bytes) /\ raw \in Wire(intent)
    BY <1>3
  <2>1. PICK offer \in Offers(d) : intent \in Carriers(d, offer.bytes) /\ raw \in Wire(intent)
    BY <2>0
  <2>2. Sendable(intent)
    BY <2>1, OfferBytes, CarriersSendable
  <2> QED
    BY <1>1, <2>1, <2>2, WireBytes DEF SenderInit
<1>4. CASE /\ intent \in Joins \cup UNION {Headers(t) : t \in UplinkTypes \cup DownlinkTypes}
           /\ raw \in Wire(intent)
  <2>1. intent \in Joins \/ \E t \in UplinkTypes \cup DownlinkTypes : intent \in Headers(t)
    BY <1>4
  <2>2. Sendable(intent)
    BY <2>1, JoinsSendable, HeadersSendable
  <2> QED
    BY <1>1, <1>4, <2>2, WireBytes DEF SenderInit
<1>5. CASE intent \in Targets /\ raw \in UNION {Damaged(b) : b \in Wire(intent)}
  <2>1. Sendable(intent)
    BY <1>5, TargetsSendable
  <2>2. PICK b \in Wire(intent) : raw \in Damaged(b)
    BY <1>5
  <2>3. raw \in Seq(Byte)
    BY <2>1, <2>2, WireBytes, DamagedBytes
  <2> QED
    BY <1>1, <2>1, <2>3 DEF SenderInit
<1> QED
  BY <1>2, <1>3, <1>4, <1>5

\* The same of the frames that the checker starts from.
THEOREM FramesHold == FrameSpec => [](Regenerates /\ Delivered)
<1>1. SenderInv => Regenerates /\ Delivered
  BY ReceiverRegenerates, SenderDelivers DEF SenderInv
<1>2. FrameSpec => SenderSpec
  BY FramesArrive DEF FrameSpec, SenderSpec
<1> QED
  BY <1>1, <1>2, SenderAlways, PTL

-----------------------------------------------------------------------------
(* From the sender's MAC commands to the receiver's.                       *)

\* The bytes of MAC commands that a data frame carries.
Carried(m) == IF m.payload.f_port = << 0 >> THEN m.plain ELSE m.payload.f_opts

\* The commands of a sender of either direction, as many as it likes, in a data
\* frame of any kind, to any address, with any counter, to which nothing
\* happens on its way.
CarrierInit ==
  /\ IsSentData(intent) /\ raw \in Wire(intent)
  /\ direction = MACCommandDirection(TypeDirection(intent.mhdr.mtype))
  /\ sent \in Seq(Commands(direction)) /\ Arrives(sent, Carried(intent))
  /\ phy = <<>> /\ stage = "arrived"
  /\ buffer = <<>> /\ position = 0 /\ result = <<>> /\ done = FALSE

CarrierSpec == CarrierInit /\ [][FrameNext]_frameVars

\* The parser has not begun, or is at the boundary of two of the commands.
CarrierInv ==
  /\ SenderInv /\ Intact /\ IsSentData(intent)
  /\ direction = MACCommandDirection(TypeDirection(intent.mhdr.mtype))
  /\ sent \in Seq(Commands(direction)) /\ Arrives(sent, Carried(intent))
  /\ stage # "extracted" =>
       buffer = <<>> /\ position = 0 /\ result = <<>> /\ done = FALSE
  /\ stage = "extracted" => ParserInv

\* What is extracted of a frame is what it carries, read in its direction.
LEMMA CommandsExtracted ==
  ASSUME NEW m, IsSentData(m), m.payload.fhdr["f_cnt"] < 65536,
         NEW q, IsReceived(q, m, DataBytes(m))
  PROVE  /\ commands_buffer(q.payload, nwkSKey) = Carried(m)
         /\ DirectionOf(q.payload) = TypeDirection(m.mhdr.mtype)
         /\ q.mhdr = m.mhdr /\ q.payload = m.payload
<1>1. PICK n, t, a, c, p, s : IsShortOf(n, m, t, a, c, p, s)
  BY SentShort
<1>2. PICK w, msg, mic : IsOnTheAir(n, m, t, a, c, w, msg, mic)
  BY <1>1, DataOnAir
<1>3. PICK z : z = PHYPayload(m.mhdr, n, mic)
  OBVIOUS
<1>4. PICK r \in Seq(Byte) : r = DataBytes(m) /\ parsePHYPayload(r) = {z}
  <2>1. DataBytes(m) \in Seq(Byte) /\ parsePHYPayload(DataBytes(m)) = {PHYPayload(m.mhdr, n, mic)}
    BY <1>2 DEF IsOnTheAir
  <2> QED
    BY <1>3, <2>1
<1>5. /\ m.payload.fhdr["f_cnt"] = c /\ IsCounter(c) /\ n = Cut(m.payload) /\ n.class = ClassOf(t)
      /\ IsMACPayload(n) /\ m.mhdr.mtype = t /\ n.f_port = p /\ m.plain = s
      /\ t \in UplinkTypes \cup DownlinkTypes
  BY <1>1 DEF IsShortOf
<1>6. q = z
  <2>1. CASE q \in parsePHYPayload(r)
    BY <1>4, <2>1
  <2>2. CASE IsData(z) /\ q = Counted(z, Upper(m))
    <3>1. Upper(m) = 0
      BY <1>5, CounterSizes DEF Upper
    <3>2. HasCounter(z) /\ z.payload.fhdr["f_cnt"] < 65536
      BY <1>4, <2>2, ParsedData
    <3>3. Counted(z, 0) = z
      BY <3>2, CountedAgain
    <3> QED
      BY <2>2, <3>1, <3>3
  <2> QED
    BY <1>4, <2>1, <2>2 DEF IsReceived
<1>7. q.payload = n /\ q.mhdr = m.mhdr
  BY <1>3, <1>6 DEF PHYPayload
<1>12. n = m.payload
  BY <1>1, <1>5 DEF IsShortOf
<1>8. n.f_port = m.payload.f_port /\ n.f_opts = m.payload.f_opts
  <2>1. PICK x : x = m.payload
    OBVIOUS
  <2>2. DOMAIN n = DOMAIN x
    BY <1>5, <2>1 DEF Cut
  <2>3. DOMAIN n = {"class", "fhdr", "f_opts", "f_port", "frm_payload"}
    BY <1>5 DEF IsMACPayload, MACPayload
  <2> QED
    BY <1>5, <2>1, <2>2, <2>3 DEF Cut
<1>9. DirectionOf(n) = TypeDirection(t)
  BY <1>5, DirectionsOf
<1>10. CASE n.f_port = << 0 >>
  <2>1. PlainText(n) = s
    BY <1>1, <1>5, PlainAgain
  <2>2. commands_buffer(n, nwkSKey) = PlainText(n)
    BY <1>10 DEF commands_buffer, PlainText, SessionKey
  <2> QED
    BY <1>5, <1>7, <1>8, <1>9, <1>10, <1>12, <2>1, <2>2 DEF Carried
<1>11. CASE n.f_port # << 0 >>
  BY <1>5, <1>7, <1>8, <1>9, <1>11, <1>12 DEF commands_buffer, Carried
<1> QED
  BY <1>10, <1>11

\* The parser begins as it does in MacCommands.
LEMMA ParserBegins == ParserInit' => ParserInv'
BY ParserInitially, PTL

\* At first the frame carries the commands.
LEMMA CarrierInitially == CarrierInit => CarrierInv
<1> SUFFICES ASSUME CarrierInit
             PROVE  CarrierInv
  OBVIOUS
<1>1. IsSentData(intent) /\ raw \in Wire(intent) /\ phy = <<>> /\ stage = "arrived"
  BY DEF CarrierInit
<1>2. raw \in Seq(Byte)
  <2>1. Wire(intent) = {DataBytes(intent)}
    BY <1>1, DataDelivered DEF IsData, Wire
  <2> QED
    BY <1>1, <2>1, DataDelivered
<1>3. SenderInv
  BY <1>1, <1>2, SenderInitially DEF SenderInit, Sendable
<1> QED
  BY <1>1, <1>3 DEF CarrierInit, CarrierInv, Intact

\* They are what the receiver hands to its parser.
LEMMA CarrierStep == CarrierInv /\ [FrameNext]_frameVars => CarrierInv'
<1> SUFFICES ASSUME CarrierInv, [FrameNext]_frameVars
             PROVE  CarrierInv'
  OBVIOUS
<1>0. /\ SenderInv' /\ raw' = raw /\ intent' = intent /\ sent' = sent
      /\ Intact' /\ IsSentData(intent)'
  <2>1. SenderInv'
    BY SenderStep DEF CarrierInv
  <2>2. raw' = raw /\ intent' = intent /\ sent' = sent
    BY DEF FrameNext, ParsePHYPayload, ParseJoinAccept, ParseError, SetCounter, Verify, Extract,
           ParseCommands, Create, CreateError, End, frameVars, vars
  <2>3. Intact'
    BY <2>2 DEF Intact, CarrierInv
  <2>4. IsSentData(intent)'
    BY <2>2 DEF CarrierInv
  <2> QED
    BY <2>1, <2>2, <2>3, <2>4
<1>1. ASSUME stage # "extracted", stage' # "extracted", UNCHANGED vars
      PROVE  CarrierInv'
  BY <1>0, <1>1 DEF CarrierInv, vars
<1>2. CASE ParsePHYPayload \/ ParseJoinAccept \/ ParseError \/ SetCounter \/ Verify
  <2>1. stage # "extracted" /\ stage' # "extracted" /\ UNCHANGED vars
    BY <1>2 DEF ParsePHYPayload, ParseJoinAccept, ParseError, SetCounter, Verify
  <2> QED
    BY <1>1, <2>1
<1>3. CASE Extract
  <2>1. /\ stage = "verified" /\ IsParsed(phy) /\ verify_mic_phy_payload(phy, appKey, nwkSKey)
        /\ IsSentData(intent) /\ Intact
    BY <1>3 DEF Extract, CarrierInv, SenderInv, ReceiverInv
  <2>2. IsFine(phy, intent)
    BY <2>1, ParsedIntact
  <2>3. intent.payload.fhdr["f_cnt"] < 65536
    BY <2>1, <2>2 DEF IsFine
  <2>4. raw = DataBytes(intent)
    <3>1. Wire(intent) = {DataBytes(intent)}
      BY <2>1, DataDelivered DEF IsData, Wire
    <3> QED
      BY <2>1, <3>1 DEF Intact
  <2>5. IsReceived(phy, intent, DataBytes(intent))
    BY <2>1, <2>4 DEF IsParsed, IsReceived
  <2>6. /\ commands_buffer(phy.payload, nwkSKey) = Carried(intent)
        /\ DirectionOf(phy.payload) = TypeDirection(intent.mhdr.mtype)
    BY <2>1, <2>3, <2>5, CommandsExtracted
  <2>7. buffer' = Carried(intent) /\ direction' = direction /\ stage' = "extracted"
    BY <1>3, <2>6 DEF Extract, CarrierInv
  <2>8. position' = 0 /\ result' = <<>> /\ done' = FALSE
    BY <1>3, <2>1 DEF Extract, CarrierInv
  <2>9. ParserInit'
    <3>1. direction' \in {"UP", "DOWN"}
      BY <2>7 DEF CarrierInv, MACCommandDirection
    <3>2. sent' \in Seq(Commands(direction')) /\ Arrives(sent', buffer')
      BY <1>0, <2>7 DEF CarrierInv
    <3> QED
      BY <2>8, <3>1, <3>2 DEF ParserInit
  <2>10. ParserInv'
    BY <2>9, ParserBegins
  <2> QED
    BY <1>0, <2>7, <2>10 DEF CarrierInv
<1>4. CASE ParseCommands
  <2>1. stage = "extracted" /\ stage' = "extracted" /\ (Create \/ CreateError \/ End)
    BY <1>4 DEF ParseCommands
  <2>2. ParserInv'
    BY <2>1, ParserStep DEF CarrierInv, ParserNext
  <2>3. direction' = direction
    BY <2>1 DEF Create, CreateError, End
  <2> QED
    BY <1>0, <2>1, <2>2, <2>3 DEF CarrierInv
<1>5. CASE UNCHANGED frameVars
  <2>1. stage' = stage /\ UNCHANGED vars
    BY <1>5 DEF frameVars
  <2>2. ParserInv' <=> ParserInv
    <3>1. [ParserNext]_vars
      BY <2>1
    <3>2. ParserInv => ParserInv'
      BY <3>1, ParserStep
    <3> QED
      BY <2>1, <3>2 DEF ParserInv, Given, Readable, Parsed, AllArrived, Bytes, Stopped, vars
  <2> QED
    BY <1>0, <1>1, <2>1, <2>2 DEF CarrierInv, vars
<1> QED
  BY <1>2, <1>3, <1>4, <1>5 DEF FrameNext

\* Until commands are extracted there are none.
LEMMA NothingParsed ==
  ASSUME CarrierInv, stage # "extracted"
  PROVE  RoundTrip /\ PrefixParsed
<1>1. result = <<>> /\ ~done
  BY DEF CarrierInv
<1>2. IsPrefix(result, sent)
  <2>1. Len(sent) \in Nat
    BY DEF CarrierInv
  <2>2. SubSeq(<<>>, 1, 0) = <<>> /\ SubSeq(sent, 1, 0) = <<>>
    BY SubSeqEmpty
  <2>3. Len(<<>>) = 0 /\ 0 <= Len(sent)
    BY <2>1
  <2> QED
    BY <1>1, <2>2, <2>3 DEF IsPrefix
<1> QED
  BY <1>1, <1>2 DEF RoundTrip, PrefixParsed

\* MAC commands reach the other end: the receiver of an intact frame reads the
\* commands that the sender put into it.
THEOREM CommandsReach == CarrierSpec => [](RoundTrip /\ PrefixParsed)
<1>1. CarrierInv => RoundTrip /\ PrefixParsed
  <2>1. ParserInv => RoundTrip /\ PrefixParsed
    BY ParserRoundTrips, ParserPrefix
  <2> QED
    BY <2>1, NothingParsed DEF CarrierInv
<1> QED
  BY <1>1, CarrierInitially, CarrierStep, PTL DEF CarrierSpec

\* A frame that carries x in the direction d.
Carries(m, d, x) ==
  /\ m.payload.class \in DataClasses /\ Carried(m) = x
  /\ MACCommandDirection(TypeDirection(m.mhdr.mtype)) = d

\* A data frame carries its FOpts, or on port 0 its payload.
LEMMA DataCarries ==
  ASSUME NEW t \in UplinkTypes \cup DownlinkTypes, NEW a, NEW c, NEW flags, NEW o, NEW p, NEW s,
         NEW m, m = Data(t, 0, a, c, flags, o, p, s)
  PROVE  Carries(m, MACCommandDirection(TypeDirection(t)), IF p = << 0 >> THEN s ELSE o)
<1>1. PICK h, f : m = Intent(t, 0, MACPayload(ClassOf(t), h, o, p, f), s)
  BY SentParts
<1>2. PICK x : x = MACPayload(ClassOf(t), h, o, p, f)
  OBVIOUS
<1>3. x.class = ClassOf(t) /\ x.f_opts = o /\ x.f_port = p
  BY <1>2 DEF MACPayload
<1>4. m.payload = x /\ m.plain = s /\ m.mhdr.mtype = t
  BY <1>1, <1>2 DEF Intent
<1>5. ClassOf(t) \in DataClasses
  BY DEF ClassOf, DataClasses
<1> QED
  BY <1>3, <1>4, <1>5 DEF Carries, Carried

\* The frames of the checker carry what is offered to them.
LEMMA CarriersCarry ==
  ASSUME NEW d \in {"UP", "DOWN"}, NEW x, NEW m \in Carriers(d, x)
  PROVE  Carries(m, d, x)
<1>1. CASE m = Data(IF d = "UP" THEN 2 ELSE 3, 0, Addr, 258, {}, <<>>, << 0 >>, x)
  <2>1. PICK t \in UplinkTypes \cup DownlinkTypes :
          t = (IF d = "UP" THEN 2 ELSE 3) /\ MACCommandDirection(TypeDirection(t)) = d
    BY TypesSent DEF MACCommandDirection, TypeDirection
  <2>2. m = Data(t, 0, Addr, 258, {}, <<>>, << 0 >>, x)
    BY <1>1, <2>1
  <2> QED
    BY <2>1, <2>2, DataCarries
<1>2. CASE m = Data(IF d = "UP" THEN 4 ELSE 5, 0, Addr, 258, {"ack"}, x, << 7 >>, << 1, 2, 3 >>)
  <2>1. PICK t \in UplinkTypes \cup DownlinkTypes :
          t = (IF d = "UP" THEN 4 ELSE 5) /\ MACCommandDirection(TypeDirection(t)) = d
    BY TypesSent DEF MACCommandDirection, TypeDirection
  <2>2. m = Data(t, 0, Addr, 258, {"ack"}, x, << 7 >>, << 1, 2, 3 >>)
    BY <1>2, <2>1
  <2>3. << 7 >> # << 0 >>
    OBVIOUS
  <2> QED
    BY <2>1, <2>2, <2>3, DataCarries
<1> QED
  BY <1>1, <1>2, CarrierKinds

\* The first of the kinds of frames that the checker starts from.
CarrierSent ==
  \E d \in {"UP", "DOWN"} : \E offer \in Offers(d) :
    sent = offer.sent /\ intent \in Carriers(d, offer.bytes) /\ raw \in Wire(intent)

\* They are sent as frames that carry it.
LEMMA CarriersArrive == FrameInit /\ CarrierSent => CarrierInit
<1> SUFFICES ASSUME FrameInit, CarrierSent
             PROVE  CarrierInit
  OBVIOUS
<1>1. PICK d \in {"UP", "DOWN"} : \E offer \in Offers(d) :
        sent = offer.sent /\ intent \in Carriers(d, offer.bytes) /\ raw \in Wire(intent)
  BY DEF CarrierSent
<1>2. PICK offer \in Offers(d) :
        sent = offer.sent /\ intent \in Carriers(d, offer.bytes) /\ raw \in Wire(intent)
  BY <1>1
<1>3. Carries(intent, d, offer.bytes)
  BY <1>2, CarriersCarry
<1>4. IsSentData(intent)
  <2>1. Sendable(intent)
    BY FramesArrive DEF SenderInit
  <2>2. ~(intent.payload.class \in {"JoinRequest", "JoinAccept", "Proprietary"})
    BY <1>3 DEF Carries, DataClasses
  <2> QED
    BY <2>1, <2>2, OtherClasses DEF Sendable
<1>5. sent \in Seq(Commands(d)) /\ Arrives(sent, offer.bytes)
  BY <1>2, OffersArrive
<1>6. /\ direction = MACCommandDirection(TypeDirection(intent.mhdr.mtype))
      /\ phy = <<>> /\ stage = "arrived"
      /\ buffer = <<>> /\ position = 0 /\ result = <<>> /\ done = FALSE
  BY DEF FrameInit
<1> QED
  BY <1>2, <1>3, <1>4, <1>5, <1>6 DEF CarrierInit, Carries

\* The same of the carriers that the checker starts from.
THEOREM OfferedReach == FrameSpec /\ CarrierSent => [](RoundTrip /\ PrefixParsed)
<1>1. FrameSpec /\ CarrierSent => CarrierSpec
  BY CarriersArrive DEF FrameSpec, CarrierSpec
<1> QED
  BY <1>1, CommandsReach, PTL

-----------------------------------------------------------------------------
(* What is accepted of a frame that arrives as it was sent.                *)

\* A JoinAccept of the bytes that arrived.
IsJoined(p) ==
  \E n \in parseJoinAccept(raw, appKey) : p = PHYPayload(Decode(MHDR, raw), n, <<>>)

\* What is accepted has passed the test of its MIC.
AcceptedInv ==
  /\ SenderInv
  /\ stage = "joined" => IsJoined(phy)
  /\ stage = "extracted" => verify_mic_phy_payload(phy, appKey, nwkSKey)

\* No bytes are a frame of PHYPayload and a JoinAccept.
LEMMA JoinsApart ==
  ASSUME NEW r, NEW k, parsePHYPayload(r) # {}
  PROVE  parseJoinAccept(r, k) = {}
<1>1. PICK t : t = Decode(MHDR, r).mtype
  OBVIOUS
<1>2. \E w : parsePayload(t, w) # {}
  BY <1>1 DEF parsePHYPayload
<1>3. t # JoinAcceptType
  BY <1>2 DEF parsePayload, UplinkTypes, DownlinkTypes, JoinRequestType, JoinAcceptType, ProprietaryType
<1> QED
  BY <1>1, <1>3 DEF parseJoinAccept

\* The receiver keeps what it accepted.
LEMMA AcceptedStep == AcceptedInv /\ [FrameNext]_frameVars => AcceptedInv'
<1> SUFFICES ASSUME AcceptedInv, [FrameNext]_frameVars
             PROVE  AcceptedInv'
  OBVIOUS
<1>0. SenderInv /\ SenderInv'
  BY SenderStep DEF AcceptedInv
<1>1. CASE ParsePHYPayload \/ ParseError \/ SetCounter \/ Verify
  <2>1. stage' # "joined" /\ stage' # "extracted"
    BY <1>1 DEF ParsePHYPayload, ParseError, SetCounter, Verify
  <2> QED
    BY <1>0, <2>1 DEF AcceptedInv
<1>2. CASE ParseJoinAccept
  <2>1. raw' = raw /\ stage' = "joined" /\ IsJoined(phy')
    BY <1>2 DEF ParseJoinAccept, IsJoined
  <2>2. IsJoined(phy)'
    BY <2>1 DEF IsJoined
  <2> QED
    BY <1>0, <2>1, <2>2 DEF AcceptedInv
<1>3. CASE Extract
  <2>1. phy' = phy /\ stage = "verified" /\ stage' = "extracted"
    BY <1>3 DEF Extract
  <2>2. verify_mic_phy_payload(phy, appKey, nwkSKey)
    BY <1>0, <2>1 DEF SenderInv
  <2> QED
    BY <1>0, <2>1, <2>2 DEF AcceptedInv
<1>4. CASE ParseCommands \/ UNCHANGED frameVars
  <2>1. raw' = raw /\ phy' = phy /\ stage' = stage
    BY <1>4 DEF ParseCommands, frameVars
  <2>2. IsJoined(phy)' <=> IsJoined(phy)
    BY <2>1 DEF IsJoined
  <2> QED
    BY <1>0, <2>1, <2>2 DEF AcceptedInv
<1> QED
  BY <1>1, <1>2, <1>3, <1>4 DEF FrameNext

\* A proprietary frame is parsed as one.
LEMMA ProprietaryArrives ==
  ASSUME NEW m, IsSentProprietary(m), NEW r \in Wire(m)
  PROVE  /\ parsePHYPayload(r) # {}
         /\ \A q \in parsePHYPayload(r) : q.payload.class = "Proprietary"
<1>1. PICK j \in 0..3, s \in Seq(Byte) : m = Intent(ProprietaryType, j, Proprietary(s), <<>>)
  BY DEF IsSentProprietary
<1>2. PICK h, n, c : h = m.mhdr /\ n = m.payload /\ c = << 1, 2, 3, 4 >>
  OBVIOUS
<1>3. /\ n = Proprietary(s) /\ n.class = "Proprietary" /\ n.payload = s
      /\ h = [mtype |-> ProprietaryType, major |-> j]
  BY <1>1, <1>2 DEF Intent, Proprietary
<1>4. IsMHDR(h) /\ h.mtype = ProprietaryType
  BY <1>3 DEF IsMHDR, ProprietaryType
<1>5. parsePayload(ProprietaryType, s) = {n}
  BY <1>3, TypesApart DEF parsePayload
<1>6. c \in Seq(Byte) /\ Len(c) = 4
  BY <1>2 DEF Byte
<1>7. r \in generatePHYPayload(PHYPayload(h, n, c))
  BY <1>2, <1>3 DEF Wire
<1>8. generatePayload(n) = {s}
  BY <1>3 DEF generatePayload
<1>9. r = (Encode(MHDR, h) \o s) \o c
  BY <1>7, <1>8 DEF generatePHYPayload, PHYPayload
<1>10. AreParts(r, h, s, c, n)
  BY <1>1, <1>4, <1>5, <1>6, <1>9 DEF AreParts
<1>11. parsePHYPayload(r) = {PHYPayload(h, n, c)}
  BY <1>10, FrameAgain
<1> QED
  BY <1>3, <1>11 DEF PHYPayload

\* What it accepted of an intact frame is what was meant.
LEMMA AcceptedAuthentic == AcceptedInv /\ Intact => Authentic
<1> SUFFICES ASSUME AcceptedInv, Intact, Accepted
             PROVE  phy.mhdr = intent.mhdr /\ phy.payload = intent.payload
  BY DEF Authentic
<1>1. \/ stage = "joined" /\ IsJoined(phy)
      \/ IsParsed(phy) /\ verify_mic_phy_payload(phy, appKey, nwkSKey)
  BY DEF Accepted, AcceptedInv, SenderInv, ReceiverInv
<1>2. Sendable(intent) /\ raw \in Wire(intent)
  BY DEF AcceptedInv, SenderInv, Intact
<1>3. IsJoined(phy) => parsePHYPayload(raw) = {}
  BY JoinsApart DEF IsJoined
<1>4. CASE IsSentData(intent)
  <2>1. raw = DataBytes(intent) /\ parsePHYPayload(raw) # {}
    <3>1. Wire(intent) = {DataBytes(intent)}
      BY <1>4, DataDelivered DEF IsData, Wire
    <3> QED
      BY <1>2, <1>4, <3>1, DataDelivered
  <2>2. IsParsed(phy) /\ verify_mic_phy_payload(phy, appKey, nwkSKey)
    BY <1>1, <1>3, <2>1
  <2>3. IsFine(phy, intent)
    BY <1>4, <2>2, ParsedIntact
  <2>4. intent.payload.fhdr["f_cnt"] < 65536
    BY <2>2, <2>3 DEF IsFine
  <2>5. IsReceived(phy, intent, DataBytes(intent))
    BY <2>1, <2>2 DEF IsParsed, IsReceived
  <2> QED
    BY <1>4, <2>4, <2>5, CommandsExtracted
<1>5. CASE IsSentJoinRequest(intent)
  <2>1. /\ parsePHYPayload(raw) # {}
        /\ \A q \in parsePHYPayload(raw) : q.mhdr = intent.mhdr /\ q.payload = intent.payload
    BY <1>2, <1>5, JoinRequestDelivered
  <2>2. ~IsData(intent)
    BY <1>5, OtherClasses DEF IsData
  <2>3. phy \in parsePHYPayload(raw)
    BY <1>1, <1>3, <2>1, <2>2 DEF IsParsed
  <2> QED
    BY <2>1, <2>3
<1>6. CASE IsSentJoinAccept(intent)
  <2>1. /\ parsePHYPayload(raw) = {} /\ Decode(MHDR, raw) = intent.mhdr
        /\ \A q \in parseJoinAccept(raw, appKey) : q = intent.payload
    BY <1>2, <1>6, JoinAcceptDelivered
  <2>2. IsJoined(phy)
    BY <1>1, <2>1 DEF IsParsed
  <2> QED
    BY <2>1, <2>2 DEF IsJoined, PHYPayload
<1>7. CASE IsSentProprietary(intent)
  <2>1. /\ parsePHYPayload(raw) # {}
        /\ \A q \in parsePHYPayload(raw) : q.payload.class = "Proprietary"
    BY <1>2, <1>7, ProprietaryArrives
  <2>2. ~IsData(intent)
    BY <1>7, OtherClasses DEF IsData
  <2>3. phy \in parsePHYPayload(raw) /\ verify_mic_phy_payload(phy, appKey, nwkSKey)
    BY <1>1, <1>3, <2>1, <2>2 DEF IsParsed
  <2>4. phy.payload.class = "Proprietary"
    BY <2>1, <2>3
  <2> QED
    BY <2>3, <2>4 DEF verify_mic_phy_payload
<1> QED
  BY <1>2, <1>4, <1>5, <1>6, <1>7 DEF Sendable

\* What is accepted of a frame that arrives as it was sent says what its sender
\* meant: the header, the payload, and no more than there was
\* (common.py:50, message.py).  Of a frame that was damaged on its way it need
\* not: four bytes of a MIC do not tell all frames apart.
THEOREM AuthenticIntact == SenderSpec => [](Intact => Authentic)
<1>1. SenderInit => AcceptedInv
  BY SenderInitially DEF SenderInit, AcceptedInv
<1> QED
  BY <1>1, AcceptedStep, AcceptedAuthentic, PTL DEF SenderSpec
=============================================================================
