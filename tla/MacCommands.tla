---------------------------- MODULE MacCommands ----------------------------
(***************************************************************************)
(* pylorawan/mac_commands.py: the MAC commands that a LoRaWAN frame        *)
(* carries.  A class is its identifier, its SIZE and two lists of fields:  *)
(* those that parse() takes out of the parameter bytes and those that      *)
(* generate() puts into them, which are two pieces of code in every class. *)
(* The actions are those of MACCommandParser.parse, one for one round of   *)
(* its loop, over a buffer that a sender generated and that is whole, cut  *)
(* short or has something unknown in it.  Frames brings it there.          *)
(***************************************************************************)
EXTENDS Fields

VARIABLES
  direction,  \* "UP" or "DOWN"
  sent,       \* the commands that the sender generated
  buffer,     \* commands_buffer
  position,   \* how far the stream has been read
  result,     \* commands_result
  done        \* parse has returned

vars == <<direction, sent, buffer, position, result, done>>

-----------------------------------------------------------------------------
(* The classes.                                                            *)

Class(name, cid, size, parsed, generated) ==
  [name |-> name, CID |-> cid, SIZE |-> size, parsed |-> parsed,
   generated |-> generated]

Bare(name, cid) == Class(name, cid, 0, {}, {})

\* A class of one field or of whole bytes, on which both plainly agree; where
\* bits are shifted and masked twice, both lists are given.
Plain(name, cid, size, fields) == Class(name, cid, size, fields, fields)

LinkCheckReq == Bare("LinkCheckReq", 2)

LinkADRAns == Class("LinkADRAns", 3, 1,
  {Bits("channel_mask_ack", 0, 0, 1), Bits("datarate_ack", 0, 1, 1),
   Bits("power_ack", 0, 2, 1)},
  {Bits("power_ack", 0, 2, 1), Bits("datarate_ack", 0, 1, 1),
   Bits("channel_mask_ack", 0, 0, 1)})

DutyCycleAns == Bare("DutyCycleAns", 4)

RXParamSetupAns == Class("RXParamSetupAns", 5, 1,
  {Bits("channel_ack", 0, 0, 1), Bits("rx2_datarate_ack", 0, 1, 1),
   Bits("rx1_datarate_offset_ack", 0, 2, 1)},
  {Bits("rx1_datarate_offset_ack", 0, 2, 1), Bits("rx2_datarate_ack", 0, 1, 1),
   Bits("channel_ack", 0, 0, 1)})

DevStatusAns == Plain("DevStatusAns", 6, 2,
  {Bits("battery", 0, 0, 8), Margin("margin", 1)})

NewChannelAns == Class("NewChannelAns", 7, 1,
  {Bits("channel_frequency_ack", 0, 0, 1), Bits("datarate_range_ack", 0, 1, 1)},
  {Bits("datarate_range_ack", 0, 1, 1), Bits("channel_frequency_ack", 0, 0, 1)})

RXTimingSetupAns == Bare("RXTimingSetupAns", 8)

TXParamSetupAns == Bare("TXParamSetupAns", 9)

DlChannelAns == Class("DlChannelAns", 10, 1,
  {Bits("channel_frequency_ok", 0, 0, 1), Bits("uplink_frequency_exists", 0, 1, 1)},
  {Bits("uplink_frequency_exists", 0, 1, 1), Bits("channel_frequency_ok", 0, 0, 1)})

DeviceTimeReq == Bare("DeviceTimeReq", 13)

PingSlotInfoReq == Plain("PingSlotInfoReq", 16, 1, {Bits("periodicity", 0, 0, 3)})

BeaconFreqAns == Plain("BeaconFreqAns", 19, 1, {Bits("status", 0, 0, 1)})

PingSlotChannelAns == Class("PingSlotChannelAns", 17, 1,
  {Bits("datarate_status", 0, 1, 1), Bits("channel_frequency_status", 0, 0, 1)},
  {Bits("datarate_status", 0, 1, 1), Bits("channel_frequency_status", 0, 0, 1)})

\* SIZE is 1, but parse() looks at four bytes and generate() writes four.
PingSlotChannelReq == Plain("PingSlotChannelReq", 17, 1,
  {Number("frequency", 0, 3), Bits("datarate", 3, 0, 4)})

BeaconFreqReq == Plain("BeaconFreqReq", 19, 3, {Number("frequency", 0, 3)})

PingSlotInfoAns == Bare("PingSlotInfoAns", 16)

LinkCheckAns == Plain("LinkCheckAns", 2, 2,
  {Bits("margin", 0, 0, 8), Bits("gw_cnt", 1, 0, 8)})

\* Mutant: generate() puts ch_mask_cntl and nb_trans the other way round.
LinkADRReqSwapped == Class("LinkADRReq", 3, 4,
  {Bits("tx_power", 0, 0, 4), Bits("datarate", 0, 4, 4), Number("ch_mask", 1, 2),
   Bits("nb_trans", 3, 0, 4), Bits("ch_mask_cntl", 3, 4, 3)},
  {Bits("tx_power", 0, 0, 4), Bits("datarate", 0, 4, 4), Number("ch_mask", 1, 2),
   Bits("nb_trans", 3, 4, 4), Bits("ch_mask_cntl", 3, 0, 3)})

LinkADRReq == Class("LinkADRReq", 3, 4,
  {Bits("tx_power", 0, 0, 4), Bits("datarate", 0, 4, 4), Number("ch_mask", 1, 2),
   Bits("nb_trans", 3, 0, 4), Bits("ch_mask_cntl", 3, 4, 3)},
  {Bits("tx_power", 0, 0, 4), Bits("datarate", 0, 4, 4), Number("ch_mask", 1, 2),
   Bits("nb_trans", 3, 0, 4), Bits("ch_mask_cntl", 3, 4, 3)})

DutyCycleReq == Plain("DutyCycleReq", 4, 1, {Bits("max_dcycle", 0, 0, 8)})

RXParamSetupReq == Class("RXParamSetupReq", 5, 4,
  {Bits("rx2_datarate", 0, 0, 4), Bits("rx1_datarate_offset", 0, 4, 3),
   Number("rx2_frequency", 1, 3)},
  {Bits("rx2_datarate", 0, 0, 4), Bits("rx1_datarate_offset", 0, 4, 3),
   Number("rx2_frequency", 1, 3)})

DevStatusReq == Bare("DevStatusReq", 6)

NewChannelReq == Class("NewChannelReq", 7, 5,
  {Bits("ch_index", 0, 0, 8), Number("ch_frequency", 1, 3),
   Bits("min_datarate", 4, 0, 4), Bits("max_datarate", 4, 4, 4)},
  {Bits("ch_index", 0, 0, 8), Number("ch_frequency", 1, 3),
   Bits("min_datarate", 4, 0, 4), Bits("max_datarate", 4, 4, 4)})

RXTimingSetupReq == Plain("RXTimingSetupReq", 8, 1, {Bits("delay", 0, 0, 4)})

TXParamSetupReq == Class("TXParamSetupReq", 9, 1,
  {Bits("max_eirp", 0, 0, 4), Bits("uplink_dwell_time", 0, 4, 1),
   Bits("downlink_dwell_time", 0, 5, 1)},
  {Bits("downlink_dwell_time", 0, 5, 1), Bits("uplink_dwell_time", 0, 4, 1),
   Bits("max_eirp", 0, 0, 4)})

DlChannelReq == Plain("DlChannelReq", 10, 4,
  {Bits("ch_index", 0, 0, 8), Number("freq", 1, 3)})

DeviceTimeAns == Plain("DeviceTimeAns", 13, 5,
  {Number("seconds", 0, 4), Bits("fractional_second", 4, 0, 8)})

mac_commands_map ==
  [UP |->
     {LinkCheckReq, LinkADRAns, DutyCycleAns, RXParamSetupAns, DevStatusAns,
      NewChannelAns, RXTimingSetupAns, TXParamSetupAns, DlChannelAns,
      DeviceTimeReq, PingSlotInfoReq, PingSlotChannelAns, BeaconFreqAns},
   DOWN |->
     {LinkCheckAns, LinkADRReq, DutyCycleReq, RXParamSetupReq, DevStatusReq,
      NewChannelReq, RXTimingSetupReq, TXParamSetupReq, DlChannelReq,
      DeviceTimeAns, PingSlotInfoAns, PingSlotChannelReq, BeaconFreqReq}]

-----------------------------------------------------------------------------
(* Commands: a class and the values of its fields, by name.                *)

Command(class, params) == [class |-> class, params |-> params]

parse(class, raw) == Command(class, Decode(class.parsed, raw))

generate(command) ==
  <<command.class.CID>> \o Encode(command.class.generated, command.params)

generateAll(commands) == FlattenSeq([i \in DOMAIN commands |-> generate(commands[i])])

-----------------------------------------------------------------------------
(* What the sender may send: every class, each field at the ends of its    *)
(* range.  Seconds stay below 2^31, the largest integer of the checker.    *)

SampleValues(f) ==
  CASE f.kind = "bits" -> {0, 1, 2^f.width - 1}
    [] f.kind = "number" -> {0, 256, IF f.len < 4 THEN 256^f.len - 1 ELSE 2147483647}
    [] f.kind = "margin" -> {-32, -1, 0, 1, 31}

Samples(class) ==
  LET fields == class.generated
      Values == UNION {SampleValues(f) : f \in fields}
  IN  {Command(class, p) : p \in {p \in [Names(fields) -> Values] :
         \A f \in fields : p[f.name] \in SampleValues(f)}}

\* One command for each class, each of its fields at the largest value.
Top(class) ==
  LET fields == class.generated IN
  Command(class, [x \in Names(fields) |->
    Max(SampleValues(CHOOSE f \in fields : f.name = x))])

Tops(d) == {Top(c) : c \in mac_commands_map[d]}

Unknown == 0

Offer(commands, bytes) == [sent |-> commands, bytes |-> bytes]

\* What arrives: whole, cut short, or with something unknown in between.
Offers(d) ==
  {Offer(<<a, b>>, generateAll(<<a, b>>)) :
     a \in UNION {Samples(c) : c \in mac_commands_map[d]}, b \in Tops(d)}
  \cup
  UNION {LET bytes == generateAll(<<a, b>>) IN
         {Offer(<<a, b>>, SubSeq(bytes, 1, cut)) : cut \in 0..(Len(bytes) - 1)} \cup
         {Offer(<<a, b>>, generate(a) \o <<Unknown>> \o generate(b))} :
         a \in Tops(d), b \in Tops(d)}

-----------------------------------------------------------------------------
(* MACCommandParser.parse.                                                 *)

left == Len(buffer) - position

\* The class of the identifier that is next in the stream, if it has one.
Next1 == {c \in mac_commands_map[direction] : left > 0 /\ c.CID = buffer[position + 1]}

\* read() finds SIZE bytes, and parse() looks at no byte behind them.
Creatable(class) ==
  /\ left - 1 >= class.SIZE
  /\ \A f \in class.parsed : f.at + f.len <= class.SIZE

Create ==
  /\ ~done
  /\ \E class \in Next1 :
       /\ Creatable(class)
       /\ result' = Append(result, parse(class,
            SubSeq(buffer, position + 2, position + 1 + class.SIZE)))
       /\ position' = position + 1 + class.SIZE
  /\ UNCHANGED <<direction, sent, buffer, done>>

\* Mutant: a command that cannot be created is skipped.
CreateErrorSkips ==
  /\ ~done /\ left > 0
  /\ \A class \in Next1 : ~Creatable(class)
  /\ position' = position + 1
  /\ UNCHANGED <<direction, sent, buffer, result, done>>

\* An identifier without a class, too few bytes, or an index that parse()
\* has no byte for: what has been parsed so far is returned.
CreateError ==
  /\ ~done /\ left > 0
  /\ \A class \in Next1 : ~Creatable(class)
  /\ done' = TRUE
  /\ UNCHANGED <<direction, sent, buffer, position, result>>

End ==
  /\ ~done /\ left = 0
  /\ done' = TRUE
  /\ UNCHANGED <<direction, sent, buffer, position, result>>

-----------------------------------------------------------------------------
(* Properties.                                                             *)

\* The two commands that do not survive: PingSlotChannelReq, whose SIZE is not
\* that of its bytes, and DevStatusAns with a margin of 0, which generate()
\* writes as -32.
Survives(command) ==
  /\ command.class # PingSlotChannelReq
  /\ command.class = DevStatusAns => command.params["margin"] # 0

\* RoundTrip: the commands of a buffer that arrived whole are parsed to what
\* was sent, each field of each class and the boundary between two commands
\* included.
RoundTrip ==
  done /\ buffer = generateAll(sent) /\ (\A i \in DOMAIN sent : Survives(sent[i])) =>
    result = sent

\* PrefixParsed: whatever was cut off or came in between, what is parsed is a
\* beginning of what was sent, and in the end holds every command whose bytes
\* all arrived before the place where parsing stopped: no bytes of one command
\* are taken for another.
PrefixParsed ==
  (\A i \in DOMAIN sent : sent[i].class = DevStatusAns => Survives(sent[i])) =>
    /\ IsPrefix(result, sent)
    /\ done => \A n \in 0..Len(sent) :
         /\ IsPrefix(generateAll(SubSeq(sent, 1, n)), buffer)
         /\ \A i \in 1..n : Survives(sent[i])
         => Len(result) >= n
=============================================================================
