-------------------------------- MODULE Bands --------------------------------
(***************************************************************************)
(* The regional parameters of pylorawan as a network server uses them: it  *)
(* gets the band by its name, finds the channel and the data rate of an    *)
(* uplink that was received, and works out the first receive window of the *)
(* device: channel, data rate and the payload that fits.                   *)
(*                                                                         *)
(* A behaviour is one uplink.  The methods keep no state; a step is the    *)
(* calls for one answer.                                                   *)
(***************************************************************************)
EXTENDS BandInterface

R2 == INSTANCE RP2_1_0_2
R3 == INSTANCE RP2_1_0_3

VARIABLES
  uplink,  \* the uplink and the settings of the device that sent it
  found,   \* the channel and the data rate found for the uplink
  rx1,     \* the receive window: channel, data rate, payload size
  step     \* the last answer

bandVars == <<uplink, found, rx1, step>>

-----------------------------------------------------------------------------
(* bands/__init__.py, and the methods that the classes override.           *)

RP_AVAILABLE ==
  [RP2_1_0_2 |-> R2!BANDS_AVAILABLE, RP2_1_0_3 |-> R3!BANDS_AVAILABLE]

\* None stands for the BandError.  The keys of BANDS_AVAILABLE are read off the
\* classes, through a classmethod around a property (interface.py:216-218),
\* which gives the names in Python 3.9 to 3.12 only.
get_band_by_name(name, rp) ==
  IF name \in DOMAIN RP_AVAILABLE[rp] THEN RP_AVAILABLE[rp][name] ELSE None

get_downlink_channel(b, index) == IF b.dynamic THEN index ELSE index % 8

get_downlink_datarate(b, rate, offset, dwell_time) ==
  CASE b.class = "EU863_870" -> R2!EU_get_downlink_datarate(rate, offset)
    [] b.class = "US902_928" -> R2!US_get_downlink_datarate(rate, offset)
    [] b.class = "AU915_928" -> R2!AU_get_downlink_datarate(rate, offset)
    [] b.class = "AS923"     -> R2!AS_get_downlink_datarate(rate, offset)
    [] b.class = "AS923_2"   -> R3!AS_get_downlink_datarate(rate, offset, dwell_time)

-----------------------------------------------------------------------------
(* The device: a channel in use, one of its data rates, and what the       *)
(* network told it, an offset of three bits and a dwell time.              *)

BandNames == UNION {DOMAIN RP_AVAILABLE[rp] : rp \in DOMAIN RP_AVAILABLE}

\* Only the classes whose methods take a dwell time are told one.
Settings(b) ==
  [offset : 0..7, dwell_time : IF b # None /\ b.dwell THEN {0, 1} ELSE {0}]

UplinksOf(b) ==
  LET up == b.uplink_channels IN
  UNION {{[frequency_khz |-> up[i].frequency_khz, channel |-> i,
           rate |-> up[i].datarates[k]] : k \in DOMAIN up[i].datarates} :
         i \in {j \in DOMAIN up : up[j].is_used}}

Requests(rp, name) ==
  LET b == get_band_by_name(name, rp) IN
  [rp : {rp}, name : {name}, settings : Settings(b),
   sent : IF b = None THEN {None} ELSE UplinksOf(b)]

BandInit ==
  /\ \E rp \in DOMAIN RP_AVAILABLE, name \in BandNames : uplink \in Requests(rp, name)
  /\ found = None /\ rx1 = None
  /\ step = "asked"

-----------------------------------------------------------------------------
(* The server.                                                             *)

\* The class that the name stands for.
band == get_band_by_name(uplink.name, uplink.rp)

GetBand ==
  /\ step = "asked"
  /\ step' = IF band = None THEN "BandError" ELSE "band"
  /\ UNCHANGED <<uplink, found, rx1>>

\* A data rate of LoRa is found by its parameters; there is no lookup for
\* another, whose index the server has to know.
RateOf(b, rate) ==
  LET r == b.datarates[rate] IN
  IF r.modulation = "lora" THEN get_datarate_by_sf_bw(b, r.spreading, r.bandwidth)
  ELSE rate

FindUplink ==
  /\ step = "band"
  /\ found' = [channel |-> get_uplink_channel_by_freq_khz(band, uplink.sent.frequency_khz),
               rate |-> RateOf(band, uplink.sent.rate)]
  /\ step' = "found"
  /\ UNCHANGED <<uplink, rx1>>

OpenRx1 ==
  /\ step = "found"
  /\ rx1' = [channel |-> get_downlink_channel(band, found.channel),
             rate |-> get_downlink_datarate(band, found.rate,
                        uplink.settings.offset, uplink.settings.dwell_time),
             size |-> None]
  /\ step' = "opened"
  /\ UNCHANGED <<uplink, found>>

\* A data rate that the table lacks is a KeyError.
FillRx1 ==
  /\ step = "opened"
  /\ IF rx1.rate \in DOMAIN band.sizes
       THEN /\ rx1' = [rx1 EXCEPT !.size =
                         get_max_payload_size(band, rx1.rate, uplink.settings.dwell_time)]
            /\ step' = "filled"
       ELSE UNCHANGED rx1 /\ step' = "KeyError"
  /\ UNCHANGED <<uplink, found>>

BandNext == GetBand \/ FindUplink \/ OpenRx1 \/ FillRx1

BandSpec == BandInit /\ [][BandNext]_bandVars

-----------------------------------------------------------------------------
(* Properties.                                                             *)

\* SendingLegal, of the tables: a device may send on every channel in use with
\* each of its data rates: the data rate is one for uplinks, it is not reserved
\* and a payload size is defined for it; and the network can mask the channel,
\* since table_ch_mask_cntl_value has a range for its sixteen that holds it.
\* The method over that table, get_ch_mask_cntl_by_ch_index, is no witness of
\* it: it raises a TypeError for every entry (interface.py:301).
SendingLegal ==
  step = "band" =>
    LET rate == band.datarates[uplink.sent.rate]
        mask == band.masks[uplink.sent.channel \div 16]
    IN  /\ allowed_for_uplink(rate)
        /\ rate.modulation # "rfu"
        /\ uplink.sent.rate \in DOMAIN band.sizes
        /\ mask.type = "range"
        /\ uplink.sent.channel \in mask.start .. mask.end

\* UplinkFound: frequency, spreading factor and bandwidth of an uplink give
\* back the channel and the data rate that the device used, although the
\* lookups take the first that fits: bands have data rates with the same
\* parameters for both directions (DR4 and DR12 of US902-928), and Europe has
\* two channels on one frequency, of which a LoRa uplink is the first.
UplinkFound ==
  found # None =>
    /\ found.rate = uplink.sent.rate
    /\ band.datarates[found.rate].modulation = "lora" =>
         /\ found.channel = uplink.sent.channel
         /\ datarate_index_is_used(band.uplink_channels[found.channel], found.rate)

\* Rx1Usable: whatever the offset, the data rate of the first receive window
\* is in the table, is not reserved and is one for downlinks; where the plan
\* is fixed the downlink channel has it, where it is dynamic the window is on
\* the frequency of the uplink.
Rx1Usable ==
  rx1 # None =>
    /\ rx1.rate \in DOMAIN band.datarates
    /\ band.datarates[rx1.rate].modulation \in {"lora", "fsk"}
    /\ allowed_for_downlink(band.datarates[rx1.rate])
    /\ LET down == band.downlink_channels[rx1.channel] IN
       IF band.dynamic THEN down.frequency_khz = uplink.sent.frequency_khz
       ELSE datarate_index_is_used(down, rx1.rate)

\* Rx1Carries: the answer has a defined maximum size, except in AS923 of
\* RP2-1.0.2, where get_downlink_datarate ignores the dwell time ("ensure,
\* there is no extra logic required here", as923.py:152) and can pick a data
\* rate whose size is None under it.
Rx1Carries ==
  /\ step # "KeyError"
  /\ step = "filled" =>
       \/ rx1.size # None /\ rx1.size >= 11
       \/ band.class = "AS923" /\ uplink.settings.dwell_time = 1 /\ rx1.rate < 2

\* The table in the comment of AS923_2.get_downlink_datarate (as923.py:174),
\* one row for each uplink data rate, one column for each offset.
Rx1Table ==
  << <<0, 0, 0, 0, 0, 0, 1, 2>>, <<1, 0, 0, 0, 0, 0, 2, 3>>,
     <<2, 1, 0, 0, 0, 0, 3, 4>>, <<3, 2, 1, 0, 0, 0, 4, 5>>,
     <<4, 3, 2, 1, 0, 0, 5, 6>>, <<5, 4, 3, 2, 1, 0, 6, 7>>,
     <<6, 5, 4, 3, 2, 1, 7, 7>>, <<7, 6, 5, 4, 3, 2, 7, 7>> >>

\* Rx1AsTabled: the arithmetic of AS923-2 gives the table of its comment, with
\* DR2 as the least data rate under the dwell time.
Rx1AsTabled ==
  rx1 # None /\ band.class = "AS923_2" =>
    rx1.rate = Max({IF uplink.settings.dwell_time = 1 THEN 2 ELSE 0,
                    Rx1Table[found.rate + 1][uplink.settings.offset + 1]})
=============================================================================
