------------------------------ MODULE RP2_1_0_3 ------------------------------
(***************************************************************************)
(* The bands of revision RP2-1.0.3 of the regional parameters              *)
(* (bands/RP2_1_0_3/).  The files of Europe and North America are those of *)
(* RP2-1.0.2; Australia has other payload sizes, and Asia is AS923-2.      *)
(***************************************************************************)
EXTENDS BandInterface

Former == INSTANCE RP2_1_0_2

EU863_870 == Former!EU863_870

US902_928 == Former!US902_928
US902_928A == Former!US902_928A
US902_928AB == Former!US902_928AB

-----------------------------------------------------------------------------
(* Australia.                                                              *)

AU_sizes ==
  [i \in 0..13 |->
     CASE i \in 0..1 -> WithDwell(51, None)
       [] i = 2 -> WithDwell(115, 11)
       [] i = 3 -> WithDwell(222, 53)
       [] i = 4 -> WithDwell(222, 125)
       [] i = 7 -> WithDwell(50, 50)
       [] i = 8 -> WithDwell(53, 53)
       [] i = 9 -> WithDwell(129, 129)
       [] OTHER -> WithDwell(222, 222)]

AU915_928 == [Former!AU915_928 EXCEPT !.dwell = TRUE, !.sizes = AU_sizes]

AU915_928A == Former!SubBand(AU915_928, 0..7)

-----------------------------------------------------------------------------
(* Asia, group 2: every frequency lies 1.8 MHz lower.                      *)

FREQ_OFFSET_KHZ == -1800

AS_sizes ==
  [i \in 0..7 |->
     CASE i \in 0..1 -> WithDwell(51, None)
       [] i = 2 -> WithDwell(115, 11)
       [] i = 3 -> WithDwell(115, 53)
       [] i = 4 -> WithDwell(222, 125)
       [] OTHER -> WithDwell(222, 222)]

calculate_channels(freq_offset_khz) ==
  LET khz == <<923200, 923400, 923000, 923600, 923800, 924000, 924200, 924400>>
  IN  [i \in 0..7 |->
         Channel(khz[i + 1] + freq_offset_khz,
                 CASE i = 5 -> get_range_datarates(0, 7) [] i = 7 -> <<7>>
                   [] OTHER -> get_range_datarates(0, 6),
                 i <= 1)]

\* Mutant: offsets 6 and 7 lower the data rate like the others.
AS_get_downlink_datarate_down(rate, rx1_datarate_offset, dwell_time) ==
  Max({IF dwell_time = 0 THEN 0 ELSE 2, Min({7, rate - rx1_datarate_offset})})

\* Offsets 0..5 lower the data rate by themselves, 6 and 7 raise it by 1 and 2.
AS_get_downlink_datarate(rate, rx1_datarate_offset, dwell_time) ==
  LET times == rx1_datarate_offset \div 6
      lower == ((rx1_datarate_offset % 6) + times)
                 * (IF times % 2 = 0 THEN 1 ELSE -1)
  IN  Max({IF dwell_time = 0 THEN 0 ELSE 2, Min({7, rate - lower})})

AS923_2 ==
  [class |-> "AS923_2", dynamic |-> TRUE, dwell |-> TRUE,
   datarates |-> Former!AS_datarates, sizes |-> AS_sizes,
   masks |-> Former!DynamicMasks,
   uplink_channels |-> calculate_channels(FREQ_OFFSET_KHZ),
   downlink_channels |-> calculate_channels(FREQ_OFFSET_KHZ)]

-----------------------------------------------------------------------------

BANDS_AVAILABLE ==
  [AS923_2 |-> AS923_2, AU915_928 |-> AU915_928, AU915_928A |-> AU915_928A,
   EU863_870 |-> EU863_870, US902_928 |-> US902_928,
   US902_928A |-> US902_928A, US902_928AB |-> US902_928AB]

=============================================================================
