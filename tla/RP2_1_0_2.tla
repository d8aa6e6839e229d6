------------------------------ MODULE RP2_1_0_2 ------------------------------
(***************************************************************************)
(* The bands of revision RP2-1.0.2 of the regional parameters              *)
(* (bands/RP2_1_0_2/).                                                     *)
(***************************************************************************)
EXTENDS BandInterface

-----------------------------------------------------------------------------
(* Europe.                                                                 *)

EU_datarates ==
  [i \in 0..15 |->
     CASE i \in 0..5  -> LoRaDataRate(12 - i, 125, "both")
       [] i = 6       -> LoRaDataRate(7, 250, "both")
       [] i = 7       -> FSKDataRate("both")
       [] i \in 8..11 -> LRFHSSDataRate("uplink")
       [] OTHER       -> RFUDataRate]

EU_sizes ==
  [i \in 0..7 |-> CASE i \in 0..2 -> 51 [] i = 3 -> 115 [] OTHER -> 222]

\* One range of 16 channels; 6 is all on, the rest is reserved.
DynamicMasks ==
  [i \in 0..7 |->
     CASE i = 0 -> RangeChMaskCtrl(0, 15)
       [] i = 6 -> ChMaskCtrl("all_on")
       [] OTHER -> ChMaskCtrl("rfu")]

\* The last channel is the one of FSK, on the frequency of channel 5.
EU_channels ==
  LET khz == <<868100, 868300, 868500, 867100, 867500, 867700, 867900, 867300, 867700>>
  IN  [i \in 0..8 |->
         Channel(khz[i + 1],
                 IF i <= 6 THEN get_range_datarates(0, 6) ELSE <<i - 1>>,
                 i <= 2)]

EU_get_downlink_datarate(rate, rx1_datarate_offset) ==
  Min({Max({0, rate - rx1_datarate_offset}), 7})

EU863_870 ==
  [class |-> "EU863_870", dynamic |-> TRUE, dwell |-> FALSE,
   datarates |-> EU_datarates, sizes |-> EU_sizes, masks |-> DynamicMasks,
   uplink_channels |-> EU_channels, downlink_channels |-> EU_channels]

-----------------------------------------------------------------------------
(* North America and Australia: 64 channels of 125 kHz, 8 of 500 kHz, and  *)
(* 8 downlink channels.                                                    *)

\* Mutant: the wide channels have the data rate after their own.
FixedPlanUplinksNext(khz, rates, khz_wide, rate_wide) ==
  [i \in 0..71 |->
     IF i < 64 THEN Channel(khz + 200 * i, get_range_datarates(0, rates), TRUE)
     ELSE Channel(khz_wide + 1600 * (i - 64), <<rate_wide + 1>>, TRUE)]

FixedPlanUplinks(khz, rates, khz_wide, rate_wide) ==
  [i \in 0..71 |->
     IF i < 64 THEN Channel(khz + 200 * i, get_range_datarates(0, rates), TRUE)
     ELSE Channel(khz_wide + 1600 * (i - 64), <<rate_wide>>, TRUE)]

FixedPlanDownlinks(khz) ==
  [i \in 0..7 |-> Channel(khz + 600 * i, get_range_datarates(8, 14), TRUE)]

FixedPlanMasks ==
  [i \in 0..7 |->
     CASE i \in 0..3 -> RangeChMaskCtrl(16 * i, 16 * i + 15)
       [] i = 4      -> RangeChMaskCtrl(64, 71)
       [] i = 5      -> ChMaskCtrl("rfu")
       [] i = 6      -> ChMaskCtrl("on_125")
       [] OTHER      -> ChMaskCtrl("off_125")]

\* A sub-band is its band with some of the uplink channels in use.
SubBand(band, used) ==
  [band EXCEPT !.uplink_channels =
     [i \in DOMAIN @ |-> [@[i] EXCEPT !.is_used = i \in used]]]

US_datarates ==
  [i \in 0..15 |->
     CASE i \in 0..3  -> LoRaDataRate(10 - i, 125, "uplink")
       [] i = 4       -> LoRaDataRate(8, 500, "uplink")
       [] i \in 5..6  -> LRFHSSDataRate("uplink")
       [] i \in 8..13 -> LoRaDataRate(20 - i, 500, "downlink")
       [] OTHER       -> RFUDataRate]

US_sizes ==
  [i \in 0..4 \cup 8..13 |->
     CASE i = 0 -> 11 [] i = 1 -> 53 [] i = 2 -> 125 [] i \in 3..4 -> 242
       [] i = 8 -> 33 [] i = 9 -> 109 [] OTHER -> 222]

US_uplink_channels == FixedPlanUplinks(902300, 4, 903000, 4)
US_downlink_channels == FixedPlanDownlinks(923000)

\* Mutant: only the lower end is clamped.
US_get_downlink_datarate_low(rate, rx1_datarate_offset) ==
  Max({8, 10 + rate - rx1_datarate_offset})

US_get_downlink_datarate(rate, rx1_datarate_offset) ==
  Min({Max({8, 10 + rate - rx1_datarate_offset}), 13})

US902_928 ==
  [class |-> "US902_928", dynamic |-> FALSE, dwell |-> FALSE,
   datarates |-> US_datarates, sizes |-> US_sizes, masks |-> FixedPlanMasks,
   uplink_channels |-> US_uplink_channels,
   downlink_channels |-> US_downlink_channels]

US902_928A == SubBand(US902_928, 0..7)
US902_928AB == SubBand(US902_928, 2..5 \cup 10..13 \cup {64})

AU_datarates ==
  [i \in 0..15 |->
     CASE i \in 0..5  -> LoRaDataRate(12 - i, 125, "uplink")
       [] i = 6       -> LoRaDataRate(8, 500, "uplink")
       [] i = 7       -> LRFHSSDataRate("uplink")
       [] i \in 8..13 -> LoRaDataRate(20 - i, 500, "downlink")
       [] OTHER       -> RFUDataRate]

AU_sizes ==
  [i \in 0..6 \cup 8..13 |->
     CASE i \in 0..2 -> 51 [] i = 3 -> 115 [] i = 8 -> 33 [] i = 9 -> 109
       [] OTHER -> 222]

AU_uplink_channels == FixedPlanUplinks(915200, 6, 915900, 6)
AU_downlink_channels == FixedPlanDownlinks(923300)

AU_get_downlink_datarate(rate, rx1_datarate_offset) ==
  Min({Max({8, 8 + rate - rx1_datarate_offset}), 13})

AU915_928 ==
  [class |-> "AU915_928", dynamic |-> FALSE, dwell |-> FALSE,
   datarates |-> AU_datarates, sizes |-> AU_sizes, masks |-> FixedPlanMasks,
   uplink_channels |-> AU_uplink_channels,
   downlink_channels |-> AU_downlink_channels]

AU915_928A == SubBand(AU915_928, 0..7)

-----------------------------------------------------------------------------
(* Asia.                                                                   *)

AS_datarates ==
  [i \in 0..15 |->
     CASE i \in 0..5 -> LoRaDataRate(12 - i, 125, "both")
       [] i = 6      -> LoRaDataRate(7, 250, "both")
       [] i = 7      -> FSKDataRate("both")
       [] OTHER      -> RFUDataRate]

AS_sizes ==
  [i \in 0..7 |->
     CASE i \in 0..1 -> WithDwell(51, None)
       [] i = 2 -> WithDwell(51, 11)
       [] i = 3 -> WithDwell(115, 53)
       [] i = 4 -> WithDwell(222, 125)
       [] OTHER -> WithDwell(222, 242)]

\* In this revision channel 5 has DR6 only.
AS_channels ==
  LET khz == <<923200, 923400, 923000, 923600, 923800, 924000, 924200, 924400>>
  IN  [i \in 0..7 |->
         Channel(khz[i + 1],
                 CASE i = 5 -> <<6>> [] i = 7 -> <<7>>
                   [] OTHER -> get_range_datarates(0, 6),
                 i <= 1)]

\* The dwell time is not taken into account (the TODO of as923.py:152).
AS_get_downlink_datarate(rate, rx1_datarate_offset) ==
  Min({5, Max({0, rate - rx1_datarate_offset})})

AS923 ==
  [class |-> "AS923", dynamic |-> TRUE, dwell |-> TRUE,
   datarates |-> AS_datarates, sizes |-> AS_sizes, masks |-> DynamicMasks,
   uplink_channels |-> AS_channels, downlink_channels |-> AS_channels]

-----------------------------------------------------------------------------

BANDS_AVAILABLE ==
  [AU915_928 |-> AU915_928, AU915_928A |-> AU915_928A, EU863_870 |-> EU863_870,
   US902_928 |-> US902_928, US902_928A |-> US902_928A,
   US902_928AB |-> US902_928AB, AS923 |-> AS923]

=============================================================================
