------------------------------- MODULE Frames -------------------------------
(***************************************************************************)
(* The way of one frame through pylorawan: the sender's bytes, what may    *)
(* happen to them on the way, and common.py at the receiver: parse, verify *)
(* the MIC, extract the MAC commands and hand them to the parser of        *)
(* MacCommands.  The sender is another implementation of LoRaWAN, which    *)
(* counts its frames with 32 bits; the receiver may do so as well and set  *)
(* the counter of a parsed frame.                                          *)
(***************************************************************************)
EXTENDS MacCommands, Messages

VARIABLES
  intent,  \* what the sender means: a PHYPayload and the plain payload
  raw,     \* the bytes that arrive
  phy,     \* the frame as parsed, <<>> before
  stage    \* how far the receiver is

frameVars == <<vars, intent, raw, phy, stage>>

-----------------------------------------------------------------------------
(* common.py.                                                              *)

Little(n, size) == [k \in 1..size |-> (n \div 256^(k - 1)) % 256]

NwkSKey == 1
AppSKey == 2

generate_key(app_key, type_of_key, app_nonce, net_id, dev_nonce) ==
  EncryptBlock(app_key,
    <<type_of_key>> \o Little(app_nonce, 3) \o Little(net_id, 3)
      \o Little(dev_nonce, 2) \o [i \in 1..7 |-> 0])

\* The input of block i of the key stream.
StreamBlock(dev_addr, counter, direc, i) ==
  <<1, 0, 0, 0, 0, direc>> \o Reverse(dev_addr) \o Little(counter, 4) \o <<0, i>>

Bit(n, i) == (n \div 2^i) % 2

\* The exclusive or of two bytes.
Xor(a, b) ==
  LET x(i) == ((Bit(a, i) + Bit(b, i)) % 2) * 2^i
  IN  x(0) + x(1) + x(2) + x(3) + x(4) + x(5) + x(6) + x(7)

\* encrypt_frm_payload is the same.
decrypt_frm_payload(frm_payload, key, dev_addr, counter, direc) ==
  LET stream == FlattenSeq([i \in 1..((Len(frm_payload) + 15) \div 16) |->
                  EncryptBlock(key, StreamBlock(dev_addr, counter, direc, i))])
  IN  [j \in DOMAIN frm_payload |-> Xor(frm_payload[j], stream[j])]

block_b_0(dev_addr, counter, direc, length) ==
  <<73, 0, 0, 0, 0, direc>> \o Reverse(dev_addr) \o Little(counter, 4) \o <<0, length>>

\* Mutant: the test is for the other class.
DirectionOfOther(m) == IF m.class = "MACPayloadUplink" THEN 1 ELSE 0

\* int(isinstance(mac_payload, MACPayloadDownlink))
DirectionOf(m) == IF m.class = "MACPayloadDownlink" THEN 1 ELSE 0

\* The set is empty when generate() raises.  A message of more than 255 bytes
\* would raise as well, in the length byte of B0 (common.py:57); a frame of
\* LoRa is never that long.
generate_mic_mac_payload(mhdr, m, nwk_skey) ==
  {LET msg == Encode(MHDR, mhdr) \o bytes IN
   generate_mic(nwk_skey,
     block_b_0(m.fhdr.dev_addr, m.fhdr.f_cnt, DirectionOf(m), Len(msg)) \o msg) :
   bytes \in generateMACPayload(m)}

generate_mic_join_request(mhdr, m, app_key) ==
  generate_mic(app_key, Encode(MHDR, mhdr) \o generateJoinRequest(m))

\* Mutant: the MIC is computed, and compared with nothing.
verify_mic_phy_payload_truthy(p, app_key, nwk_skey) ==
  CASE p.payload.class = "JoinRequest" ->
         p.mic = generate_mic_join_request(p.mhdr, p.payload, app_key)
    [] p.payload.class \in {"MACPayloadUplink", "MACPayloadDownlink"} ->
         generate_mic_mac_payload(p.mhdr, p.payload, nwk_skey) # {}
    [] OTHER -> FALSE

\* The test is not passed when generate() raises or the payload is neither.
verify_mic_phy_payload(p, app_key, nwk_skey) ==
  CASE p.payload.class = "JoinRequest" ->
         p.mic = generate_mic_join_request(p.mhdr, p.payload, app_key)
    [] p.payload.class \in {"MACPayloadUplink", "MACPayloadDownlink"} ->
         p.mic \in generate_mic_mac_payload(p.mhdr, p.payload, nwk_skey)
    [] OTHER -> FALSE

\* The buffer that extract_mac_commands hands to the parser.
commands_buffer(m, nwk_skey) ==
  IF m.f_port = <<0>>
  THEN decrypt_frm_payload(m.frm_payload, nwk_skey, m.fhdr.dev_addr,
                           m.fhdr.f_cnt, DirectionOf(m))
  ELSE m.f_opts

-----------------------------------------------------------------------------
(* The sender.                                                             *)

appKey == [i \in 1..16 |-> (29 * i) % 256]
nwkSKey == generate_key(appKey, NwkSKey, 70000, 19, 1)
appSKey == generate_key(appKey, AppSKey, 70000, 19, 1)

\* The direction that the type of a frame has by LoRaWAN.
TypeDirection(mtype) == IF mtype \in DownlinkTypes THEN 1 ELSE 0

SessionKey(f_port) == IF f_port = <<0>> THEN nwkSKey ELSE appSKey

Intent(mtype, major, payload, plain) ==
  [mhdr |-> [mtype |-> mtype, major |-> major], payload |-> payload, plain |-> plain]

\* A data frame that carries plain, encrypted, and f_opts as it is.
Data(mtype, major, dev_addr, f_cnt, flags, f_opts, f_port, plain) ==
  LET class == IF mtype \in UplinkTypes THEN "MACPayloadUplink" ELSE "MACPayloadDownlink"
      fhdr == [x \in Names(FHDR(class)) |->
                 CASE x = "dev_addr" -> dev_addr
                   [] x = "f_cnt" -> f_cnt
                   [] x = "f_opts_len" -> Len(f_opts)
                   [] OTHER -> IF x \in flags THEN 1 ELSE 0]
      bare == MACPayload(class, fhdr, f_opts, f_port, <<>>)
  IN  Intent(mtype, major,
        [bare EXCEPT !.frm_payload =
           decrypt_frm_payload(plain, SessionKey(f_port), dev_addr, f_cnt,
                               TypeDirection(mtype))],
        plain)

\* On the air the counter has 16 bits; in the MIC and in the cipher it has 32.
DataBytes(m) ==
  LET short == [m.payload EXCEPT !.fhdr.f_cnt = @ % 65536]
      msg == Encode(MHDR, m.mhdr) \o CHOOSE bytes \in generateMACPayload(short) : TRUE
  IN  msg \o generate_mic(nwkSKey,
        block_b_0(m.payload.fhdr.dev_addr, m.payload.fhdr.f_cnt,
                  TypeDirection(m.mhdr.mtype), Len(msg)) \o msg)

Wire(m) ==
  CASE m.payload.class = "JoinAccept" -> generateJoinAccept(m.payload, appKey)
    [] m.payload.class = "JoinRequest" ->
         generatePHYPayload(PHYPayload(m.mhdr, m.payload,
           generate_mic_join_request(m.mhdr, m.payload, appKey)))
    [] m.payload.class = "Proprietary" ->
         generatePHYPayload(PHYPayload(m.mhdr, m.payload, <<1, 2, 3, 4>>))
    [] OTHER -> {DataBytes(m)}

-----------------------------------------------------------------------------
(* What is sent: carriers of MAC commands, headers at the ends of their    *)
(* ranges, join messages, and frames that are damaged on the way.          *)

Addr == <<38, 1, 255, 7>>
FOptsMax == 15

\* The commands are the payload of port 0, or FOpts when they fit there.
Carriers(d, bytes) ==
  {Data(IF d = "UP" THEN 2 ELSE 3, 0, Addr, 258, {}, <<>>, <<0>>, bytes)} \cup
  IF Len(bytes) > FOptsMax THEN {}
  ELSE {Data(IF d = "UP" THEN 4 ELSE 5, 0, Addr, 258, {"ack"}, bytes, <<7>>, <<1, 2, 3>>)}

Headers(mtype) ==
  {Data(mtype, major, Addr, 1, flags, <<>>, <<>>, <<>>) :
     major \in {0, 3}, flags \in SUBSET {"adr", "adr_ack_req", "ack", "class_b", "f_pending"}}
  \cup
  {Data(mtype, 0, addr, f_cnt, {}, <<>>, <<port>>, <<Unknown, 8>>) :
     addr \in {Addr, <<255, 255, 255, 255>>, <<0, 0, 0, 1>>}, port \in {0, 1, 255},
     f_cnt \in {0, 255, 256, 65535, 65536, 65537, 16777216}}
  \cup
  {Data(mtype, 0, Addr, 513, {}, [i \in 1..opts |-> Unknown], <<port>>,
          [i \in 1..size |-> i]) :
     port \in {0, 1}, opts \in {0, 1, FOptsMax}, size \in {0, 1, 16, 17, 33}}

\* A JoinRequest and a JoinAccept, with a channel list of the given size.
RequestOf(top, nonce) ==
  Intent(JoinRequestType, 0,
    JoinRequest([app_eui |-> <<112, 179, 213, 126, 208, 0, 0, top>>,
                 dev_eui |-> <<top, 1, 2, 3, 4, 5, 6, 255>>, dev_nonce |-> nonce]), <<>>)

AcceptOf(nonce, delay, rate, size) ==
  Intent(JoinAcceptType, 0,
    JoinAccept([app_nonce |-> nonce, net_id |-> 19, dev_addr |-> Addr, rx_delay |-> delay,
                rx1_dr_offset |-> 7, rx2_datarate |-> rate], [i \in 1..size |-> i]), <<>>)

Joins ==
  {RequestOf(top, nonce) : top \in {0, 255}, nonce \in {0, 1, 256, 65535}}
  \cup
  {AcceptOf(nonce, delay, rate, size) :
     nonce \in {0, 70000, 16777215}, delay \in {0, 15, 255}, rate \in {0, 15},
     size \in {0, 16}}
  \cup {Intent(ProprietaryType, 0, Proprietary(<<1, 2>>), <<>>)}

\* The frames that are damaged: one of each kind.
Targets ==
  {Data(mtype, 0, Addr, 258, {"ack"}, <<Unknown>>, <<1>>, <<5, 4, 3>>) :
     mtype \in UplinkTypes \cup DownlinkTypes}
  \cup {Data(3, 0, Addr, 258, {}, <<>>, <<0>>, <<Unknown>>),
           Data(2, 0, Addr, 258, {}, <<Unknown>>, <<>>, <<>>)}
  \cup {m \in Joins : m.payload.class = "JoinRequest" /\ m.payload.fields.dev_nonce = 256}
  \cup {m \in Joins : m.payload.class = "JoinAccept" /\ m.payload.fields.app_nonce = 70000
                        /\ m.payload.fields.rx_delay = 15}

\* One byte is another, or the end is missing.
Damaged(bytes) ==
  {[bytes EXCEPT ![i] = (@ + d) % 256] :
     i \in DOMAIN bytes, d \in {1, 4, 16, 28, 32, 64, 128, 255}}
  \cup {SubSeq(bytes, 1, cut) : cut \in 0..(Len(bytes) - 1)}

MACCommandDirection(bit) == IF bit = 0 THEN "UP" ELSE "DOWN"

FrameInit ==
  /\ \/ \E d \in {"UP", "DOWN"} : \E offer \in Offers(d) :
          /\ sent = offer.sent
          /\ intent \in Carriers(d, offer.bytes)
          /\ raw \in Wire(intent)
     \/ /\ sent = <<>>
        /\ intent \in Joins \cup UNION {Headers(t) : t \in UplinkTypes \cup DownlinkTypes}
        /\ raw \in Wire(intent)
     \/ /\ sent = <<>>
        /\ intent \in Targets
        /\ raw \in UNION {Damaged(bytes) : bytes \in Wire(intent)}
  /\ direction = MACCommandDirection(TypeDirection(intent.mhdr.mtype))
  /\ phy = <<>>
  /\ stage = "arrived"
  /\ buffer = <<>> /\ position = 0 /\ result = <<>> /\ done = FALSE

-----------------------------------------------------------------------------
(* The receiver.                                                           *)

ParsePHYPayload ==
  /\ stage = "arrived"
  /\ phy' \in parsePHYPayload(raw)
  /\ stage' = "parsed"
  /\ UNCHANGED <<vars, intent, raw>>

ParseJoinAccept ==
  /\ stage = "arrived"
  /\ \E m \in parseJoinAccept(raw, appKey) :
       phy' = PHYPayload(Decode(MHDR, raw), m, <<>>)
  /\ stage' = "joined"
  /\ UNCHANGED <<vars, intent, raw>>

ParseError ==
  /\ stage = "arrived"
  /\ parsePHYPayload(raw) = {} /\ parseJoinAccept(raw, appKey) = {}
  /\ stage' = "rejected"
  /\ UNCHANGED <<vars, intent, raw, phy>>

IsData(p) == p.payload.class \in {"MACPayloadUplink", "MACPayloadDownlink"}

\* The receiver knows the upper half of the counter and sets it.
SetCounter ==
  /\ stage = "parsed" /\ IsData(phy) /\ IsData(intent)
  /\ phy' = [phy EXCEPT !.payload.fhdr.f_cnt =
               (@ % 65536) + 65536 * (intent.payload.fhdr.f_cnt \div 65536)]
  /\ phy' # phy
  /\ UNCHANGED <<vars, intent, raw, stage>>

Verify ==
  /\ stage = "parsed"
  /\ stage' = IF verify_mic_phy_payload(phy, appKey, nwkSKey) THEN "verified" ELSE "rejected"
  /\ UNCHANGED <<vars, intent, raw, phy>>

Extract ==
  /\ stage = "verified" /\ IsData(phy)
  /\ buffer' = commands_buffer(phy.payload, nwkSKey)
  /\ direction' = MACCommandDirection(DirectionOf(phy.payload))
  /\ stage' = "extracted"
  /\ UNCHANGED <<sent, position, result, done, intent, raw, phy>>

ParseCommands ==
  /\ stage = "extracted"
  /\ Create \/ CreateError \/ End
  /\ UNCHANGED <<intent, raw, phy, stage>>

FrameNext ==
  \/ ParsePHYPayload \/ ParseJoinAccept \/ ParseError
  \/ SetCounter \/ Verify \/ Extract \/ ParseCommands

FrameSpec == FrameInit /\ [][FrameNext]_frameVars

-----------------------------------------------------------------------------
(* Properties.                                                             *)

Accepted == stage \in {"verified", "extracted", "joined"}

Intact == raw \in Wire(intent)

\* Authentic: what passes the test of its MIC says what the sender meant, also
\* when a byte of it was changed or its end is missing: the MIC is computed
\* over the bytes that the parsed frame would have (common.py:50), and nothing
\* of the meaning may be lost on the way there.
Authentic ==
  Accepted => phy.mhdr = intent.mhdr /\ phy.payload = intent.payload

\* The bits of a byte that parse() does not look at are reserved.
Clear(bytes, i, low, width) ==
  [bytes EXCEPT ![i] = @ - ((@ \div 2^low) % 2^width) * 2^low]

Canonical(mtype, bytes) ==
  LET b == Clear(bytes, 1, 2, 3) IN
  IF mtype \in DownlinkTypes THEN Clear(b, 6, 6, 1) ELSE b

\* Regenerates: a frame that has been parsed has the bytes it came from, except
\* for the reserved bits, whatever arrived: FOpts or a port that are missing,
\* an FOptsLen that says too much, a payload of any length.
Regenerates ==
  stage = "parsed" /\ (IsData(phy) => phy.payload.fhdr.f_cnt < 65536) =>
    generatePHYPayload(phy) = {Canonical(phy.mhdr.mtype, raw)}

\* Delivered: a frame that nothing happened to is accepted, if it is one that
\* has a MIC to test and its counter has not left the two bytes that
\* FHDR.generate has for it (message.py:202) - beyond them no frame is, with
\* the counter set or not -, and its payload is decrypted to what was sent.
Delivered ==
  /\ stage = "rejected" /\ Intact =>
       \/ intent.payload.class = "Proprietary"
       \/ IsData(intent) /\ intent.payload.fhdr.f_cnt >= 65536
  /\ stage = "verified" /\ IsData(intent) /\ Intact =>
       /\ intent.payload.fhdr.f_cnt < 65536
       /\ LET m == phy.payload IN
          decrypt_frm_payload(m.frm_payload, SessionKey(m.f_port), m.fhdr.dev_addr,
            m.fhdr.f_cnt, DirectionOf(m)) = intent.plain
=============================================================================
