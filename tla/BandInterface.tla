---------------------------- MODULE BandInterface ----------------------------
(***************************************************************************)
(* What the regional parameters of pylorawan are made of: data rates,      *)
(* channels, channel masks and the methods that every Band inherits        *)
(* (bands/interface.py, bands/common.py).                                  *)
(*                                                                         *)
(* A class is a record of its tables.  A data rate is named by its index   *)
(* wherever the code passes the object, as each band has one object per    *)
(* index; a table is a function whose domain is the keys of the dict.      *)
(***************************************************************************)
EXTENDS Integers, Sequences, FiniteSetsExt

CONSTANT None  \* Python's None

ASSUME InterfaceAssumption == None \notin Int

-----------------------------------------------------------------------------
(* Data rates.                                                             *)

DataRate(modulation, spreading, bandwidth, direction) ==
  [modulation |-> modulation, spreading |-> spreading, bandwidth |-> bandwidth,
   direction |-> direction]

LoRaDataRate(spreading, bandwidth, direction) ==
  DataRate("lora", spreading, bandwidth, direction)
FSKDataRate(direction) == DataRate("fsk", 0, 0, direction)
LRFHSSDataRate(direction) == DataRate("lr-fhss", 0, 0, direction)
RFUDataRate == DataRate("rfu", 0, 0, "both")

allowed_for_uplink(rate) == rate.direction # "downlink"
allowed_for_downlink(rate) == rate.direction # "uplink"

-----------------------------------------------------------------------------
(* Channels and their masks.                                               *)

\* range(start, end) of data rates.
get_range_datarates(start, end) == [k \in 1..(end - start) |-> start + k - 1]

Channel(frequency_khz, datarates, fixed) ==
  [frequency_khz |-> frequency_khz, datarates |-> datarates, fixed |-> fixed,
   is_used |-> TRUE]

\* The list of data rates is taken for a range.
datarate_index_is_used(channel, index) ==
  channel.datarates[1] <= index /\ index <= channel.datarates[Len(channel.datarates)]

RangeChMaskCtrl(start, end) == [type |-> "range", start |-> start, end |-> end]
ChMaskCtrl(type) == [type |-> type, start |-> 0, end |-> -1]

-----------------------------------------------------------------------------
(* Maximum payload sizes.                                                  *)

WithDwell(n_dwell_0, n_dwell_1) == <<n_dwell_0, n_dwell_1>>

\* Mutant: the sizes of the two dwell times are swapped.
get_max_payload_size_swapped(band, rate, dwell_time) ==
  IF band.dwell THEN band.sizes[rate][2 - dwell_time] ELSE band.sizes[rate]

\* Classes whose table knows no dwell time do not take it as an argument.
get_max_payload_size(band, rate, dwell_time) ==
  IF band.dwell THEN band.sizes[rate][dwell_time + 1] ELSE band.sizes[rate]

-----------------------------------------------------------------------------
(* Lookups.                                                                *)

\* The first that a loop over indices finds, None when it runs out.
First(indices) == IF indices = {} THEN None ELSE Min(indices)

\* Mutant: the bandwidth is not compared.
get_datarate_by_sf(band, spreading, bandwidth_khz) ==
  First({i \in DOMAIN band.datarates :
           /\ band.datarates[i].modulation = "lora"
           /\ band.datarates[i].spreading = spreading})

get_datarate_by_sf_bw(band, spreading, bandwidth_khz) ==
  First({i \in DOMAIN band.datarates :
           /\ band.datarates[i].modulation = "lora"
           /\ band.datarates[i].spreading = spreading
           /\ band.datarates[i].bandwidth = bandwidth_khz})

get_uplink_channel_by_freq_khz(band, frequency_khz) ==
  First({i \in DOMAIN band.uplink_channels :
           band.uplink_channels[i].frequency_khz = frequency_khz})

=============================================================================
