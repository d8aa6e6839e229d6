------------------------------ MODULE Messages ------------------------------
(***************************************************************************)
(* pylorawan/message.py: the messages of LoRaWAN 1.0 and their bytes.  A   *)
(* class is the list of its fields and what it has beside them.  Its parse *)
(* is the set of what it may return: one message, or none when it raises;  *)
(* so is a generate that may raise.                                        *)
(*                                                                         *)
(* The cipher and the MIC of encryption.py are library code.  They are     *)
(* replaced by functions with what the code relies on: the cipher is, for  *)
(* each key, a permutation of blocks in which every byte of the result     *)
(* depends on every byte, with its inverse; the MIC is told apart by any   *)
(* change of one byte.                                                     *)
(***************************************************************************)
EXTENDS Fields

Weighted(bytes, weight(_)) ==
  MapThenSumSet(LAMBDA i : weight(i) * (bytes[i] + 1), DOMAIN bytes) % 65521

\* Sums of i * Mix(i) are 0 modulo 256, so that they survive the encryption.
Mix(i) == IF i % 2 = 1 THEN i + 1 ELSE 257 - i

Checksum(block) == MapThenSumSet(LAMBDA i : i * block[i], 1..16)

EncryptBlock(key, block) ==
  LET sum == Checksum(block) % 256
  IN  [i \in 1..16 |-> (block[i] + sum * Mix(i) + key[i]) % 256]

DecryptBlock(key, block) ==
  LET sum == (Checksum(block) - Checksum(key)) % 256
  IN  [i \in 1..16 |-> (block[i] - sum * Mix(i) - key[i]) % 256]

\* ECB: block by block, and an exception for anything but whole blocks.
Ecb(Cipher(_, _), key, message) ==
  IF Len(message) % 16 # 0 THEN {}
  ELSE {FlattenSeq([b \in 1..(Len(message) \div 16) |->
          Cipher(key, SubSeq(message, 16 * b - 15, 16 * b))])}

aes128_encrypt(key, message) == Ecb(EncryptBlock, key, message)
aes128_decrypt(key, message) == Ecb(DecryptBlock, key, message)

generate_mic(key, message) ==
  LET bytes == key \o message
      one == Weighted(bytes, LAMBDA i : i)
      two == Weighted(bytes, LAMBDA i : i * i)
  IN  <<one % 256, one \div 256, two % 256, two \div 256>>

-----------------------------------------------------------------------------
(* MHDR.                                                                   *)

JoinRequestType == 0
JoinAcceptType == 1
UplinkTypes == {2, 4}
DownlinkTypes == {3, 5}
ProprietaryType == 7

MHDR == {Bits("mtype", 0, 5, 3), Bits("major", 0, 0, 2)}

-----------------------------------------------------------------------------
(* FHDR and MACPayload, whose uplink and downlink differ in FCtrl.         *)

FCtrlUplink ==
  {Bits("adr", 4, 7, 1), Bits("adr_ack_req", 4, 6, 1), Bits("ack", 4, 5, 1),
   Bits("class_b", 4, 4, 1), Bits("f_opts_len", 4, 0, 4)}

FCtrlDownlink ==
  {Bits("adr", 4, 7, 1), Bits("ack", 4, 5, 1), Bits("f_pending", 4, 4, 1),
   Bits("f_opts_len", 4, 0, 4)}

FHDR(class) ==
  {Digits("dev_addr", 0, 4), Number("f_cnt", 5, 2)} \cup
    IF class = "MACPayloadUplink" THEN FCtrlUplink ELSE FCtrlDownlink

\* Two bytes for the counter, or an OverflowError.
generateFHDR(class, fhdr, f_opts) ==
  IF fhdr.f_cnt < 65536 THEN {Encode(FHDR(class), fhdr) \o f_opts} ELSE {}

\* A MACPayload; f_port is a sequence of at most one port.
MACPayload(class, fhdr, f_opts, f_port, frm_payload) ==
  [class |-> class, fhdr |-> fhdr, f_opts |-> f_opts, f_port |-> f_port,
   frm_payload |-> frm_payload]

\* Mutant: the port is not taken out of the stream.
parseMACPayloadPort(class, raw) ==
  IF Len(raw) < 7 THEN {}
  ELSE LET fhdr == Decode(FHDR(class), raw)
           port == 8 + fhdr.f_opts_len
       IN  {MACPayload(class, fhdr, SubSeq(raw, 8, Min({port - 1, Len(raw)})),
              SubSeq(raw, port, Min({port, Len(raw)})),
              SubSeq(raw, port, Len(raw)))}

\* A stream that ends within FOpts, or behind it, is no error.
parseMACPayload(class, raw) ==
  IF Len(raw) < 7 THEN {}
  ELSE LET fhdr == Decode(FHDR(class), raw)
           port == 8 + fhdr.f_opts_len
       IN  {MACPayload(class, fhdr, SubSeq(raw, 8, Min({port - 1, Len(raw)})),
              SubSeq(raw, port, Min({port, Len(raw)})),
              SubSeq(raw, port + 1, Len(raw)))}

generateMACPayload(m) ==
  {bytes \o (IF m.f_port = <<>> THEN <<>> ELSE m.f_port \o m.frm_payload) :
     bytes \in generateFHDR(m.class, m.fhdr, m.f_opts)}

-----------------------------------------------------------------------------
(* The join messages, and Proprietary.                                     *)

JoinRequestFields ==
  {Digits("app_eui", 0, 8), Digits("dev_eui", 8, 8), Number("dev_nonce", 16, 2)}

JoinRequest(fields) == [class |-> "JoinRequest", fields |-> fields]

parseJoinRequest(raw) ==
  IF Len(raw) # 18 THEN {} ELSE {JoinRequest(Decode(JoinRequestFields, raw))}

generateJoinRequest(m) == Encode(JoinRequestFields, m.fields)

DLSettings == {Bits("rx1_dr_offset", 10, 4, 3), Bits("rx2_datarate", 10, 0, 4)}

JoinAcceptFields ==
  {Number("app_nonce", 0, 3), Number("net_id", 3, 3), Digits("dev_addr", 6, 4),
   Number("rx_delay", 11, 1)} \cup DLSettings

JoinAccept(fields, cf_list) ==
  [class |-> "JoinAccept", fields |-> fields, cf_list |-> cf_list]

\* The payload behind the MHDR; the MIC is that of the MHDR as it would be
\* generated.
parseJoinAccept(raw, app_key) ==
  {JoinAccept(Decode(JoinAcceptFields, m), SubSeq(m, 13, Len(m))) :
     m \in IF Len(raw) < 12 THEN {}
           ELSE LET mhdr == Decode(MHDR, raw) IN
                {SubSeq(d, 1, Len(d) - 4) : d \in
                   {d \in aes128_encrypt(app_key, SubSeq(raw, 2, Len(raw))) :
                      /\ mhdr.mtype = JoinAcceptType
                      /\ SubSeq(d, Len(d) - 3, Len(d)) =
                           generate_mic(app_key,
                             Encode(MHDR, mhdr) \o SubSeq(d, 1, Len(d) - 4))}}}

\* A CFList that does not fill the last block is a ValueError.
generateJoinAccept(m, app_key) ==
  LET mhdr == Encode(MHDR, [mtype |-> JoinAcceptType, major |-> 0])
      bytes == Encode(JoinAcceptFields, m.fields) \o m.cf_list
  IN  {mhdr \o encrypted : encrypted \in
         aes128_decrypt(app_key, bytes \o generate_mic(app_key, mhdr \o bytes))}

Proprietary(payload) == [class |-> "Proprietary", payload |-> payload]

-----------------------------------------------------------------------------
(* PHYPayload.                                                             *)

PHYPayload(mhdr, payload, mic) == [mhdr |-> mhdr, payload |-> payload, mic |-> mic]

\* JoinAccept and RFU have no class.
parsePayload(mtype, raw) ==
  CASE mtype \in UplinkTypes -> parseMACPayload("MACPayloadUplink", raw)
    [] mtype \in DownlinkTypes -> parseMACPayload("MACPayloadDownlink", raw)
    [] mtype = JoinRequestType -> parseJoinRequest(raw)
    [] mtype = ProprietaryType -> {Proprietary(raw)}
    [] OTHER -> {}

parsePHYPayload(raw) ==
  IF Len(raw) < 5 THEN {}
  ELSE LET mhdr == Decode(MHDR, raw) IN
       {PHYPayload(mhdr, payload, SubSeq(raw, Len(raw) - 3, Len(raw))) :
          payload \in parsePayload(mhdr.mtype, SubSeq(raw, 2, Len(raw) - 4))}

generatePayload(m) ==
  CASE m.class \in {"MACPayloadUplink", "MACPayloadDownlink"} -> generateMACPayload(m)
    [] m.class = "JoinRequest" -> {generateJoinRequest(m)}
    [] m.class = "Proprietary" -> {m.payload}

generatePHYPayload(phy) ==
  {Encode(MHDR, phy.mhdr) \o bytes \o phy.mic : bytes \in generatePayload(phy.payload)}
=============================================================================
