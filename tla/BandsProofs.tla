---------------------------- MODULE BandsProofs ----------------------------
(***************************************************************************)
(* Theorems about Bands, for every band of both revisions: what the five   *)
(* rules for the data rate of the first receive window return for any data *)
(* rate whatever, that the window a server works out can be used and has a *)
(* payload size, that the lookups give back what the device used, and that *)
(* AS923-2 follows the table of its comment.                               *)
(***************************************************************************)
EXTENDS Bands, FiniteSetTheorems, TLAPS

-----------------------------------------------------------------------------
(* The clamps                                                              *)

LEMMA MinOfTwo ==
  ASSUME NEW a \in Int, NEW b \in Int
  PROVE  Min({a, b}) = IF a <= b THEN a ELSE b
<1> DEFINE m == IF a <= b THEN a ELSE b
<1>1. m \in {a, b} /\ \A y \in {a, b} : m <= y
  OBVIOUS
<1>2. \A x \in {a, b} : (\A y \in {a, b} : x <= y) => x = m
  OBVIOUS
<1> HIDE DEF m
<1>3. Min({a, b}) = m
  BY <1>1, <1>2 DEF Min
<1> QED
  BY <1>3 DEF m

LEMMA MaxOfTwo ==
  ASSUME NEW a \in Int, NEW b \in Int
  PROVE  Max({a, b}) = IF a <= b THEN b ELSE a
<1> DEFINE m == IF a <= b THEN b ELSE a
<1>1. m \in {a, b} /\ \A y \in {a, b} : m >= y
  OBVIOUS
<1>2. \A x \in {a, b} : (\A y \in {a, b} : x >= y) => x = m
  OBVIOUS
<1> HIDE DEF m
<1>3. Max({a, b}) = m
  BY <1>1, <1>2 DEF Max
<1> QED
  BY <1>3 DEF m

\* A number clamped from below and above, in either order.
LEMMA Clamped ==
  ASSUME NEW x \in Int, NEW low \in Int, NEW high \in Int, low <= high
  PROVE  /\ Min({Max({low, x}), high}) \in low..high
         /\ Min({high, Max({low, x})}) \in low..high
         /\ Max({low, Min({high, x})}) \in low..high
<1>1. Max({low, x}) \in Int /\ Max({low, x}) >= low
  BY MaxOfTwo
<1>2. Min({high, x}) \in Int /\ Min({high, x}) <= high
  BY MinOfTwo
<1> QED
  BY <1>1, <1>2, MinOfTwo, MaxOfTwo

\* The instances of the modules of the bands have operators of their own.
LEMMA SameClamps ==
  ASSUME NEW S
  PROVE  /\ R2!Min(S) = Min(S) /\ R2!Max(S) = Max(S)
         /\ R3!Min(S) = Min(S) /\ R3!Max(S) = Max(S)
BY DEF Min, Max, R2!Min, R2!Max, R3!Min, R3!Max

\* The data rates that the rule of a class can return.
Rx1Rates(class) ==
  CASE class \in {"EU863_870", "AS923_2"} -> 0..7
    [] class = "AS923" -> 0..5
    [] OTHER -> 8..13

Classes == {"EU863_870", "US902_928", "AU915_928", "AS923", "AS923_2"}

LEMMA DatarateClamped ==
  ASSUME NEW b, b.class \in Classes, NEW rate \in Int, NEW offset \in 0..7,
         NEW dwell_time \in {0, 1}
  PROVE  get_downlink_datarate(b, rate, offset, dwell_time) \in Rx1Rates(b.class)
<1>0. /\ {0, 2, 5, 7, 8, 13} \subseteq Int
      /\ 0 <= 7 /\ 8 <= 13 /\ 0 <= 5 /\ 2 <= 7
  OBVIOUS
<1>1. /\ rate - offset \in Int /\ 10 + rate - offset \in Int
      /\ 8 + rate - offset \in Int
  OBVIOUS
<1>2. R2!EU_get_downlink_datarate(rate, offset) \in 0..7
  <2>1. R2!EU_get_downlink_datarate(rate, offset) = Min({Max({0, rate - offset}), 7})
    BY SameClamps, Zenon DEF R2!EU_get_downlink_datarate
  <2> QED
    BY <1>0, <1>1, <2>1, Clamped, Zenon
<1>3. R2!US_get_downlink_datarate(rate, offset) \in 8..13
  <2>1. R2!US_get_downlink_datarate(rate, offset) = Min({Max({8, 10 + rate - offset}), 13})
    BY SameClamps, Zenon DEF R2!US_get_downlink_datarate
  <2> QED
    BY <1>0, <1>1, <2>1, Clamped, Zenon
<1>4. R2!AU_get_downlink_datarate(rate, offset) \in 8..13
  <2>1. R2!AU_get_downlink_datarate(rate, offset) = Min({Max({8, 8 + rate - offset}), 13})
    BY SameClamps, Zenon DEF R2!AU_get_downlink_datarate
  <2> QED
    BY <1>0, <1>1, <2>1, Clamped, Zenon
<1>5. R2!AS_get_downlink_datarate(rate, offset) \in 0..5
  <2>1. R2!AS_get_downlink_datarate(rate, offset) = Min({5, Max({0, rate - offset})})
    BY SameClamps, Zenon DEF R2!AS_get_downlink_datarate
  <2> QED
    BY <1>0, <1>1, <2>1, Clamped, Zenon
<1>6. R3!AS_get_downlink_datarate(rate, offset, dwell_time) \in 0..7
  <2> DEFINE times == offset \div 6
             lower == ((offset % 6) + times) * (IF times % 2 = 0 THEN 1 ELSE -1)
             low == IF dwell_time = 0 THEN 0 ELSE 2
  <2>1. times \in Int /\ offset % 6 \in Int
    OBVIOUS
  <2>2. lower \in Int
    <3> DEFINE some == (offset % 6) + times
               sign == IF times % 2 = 0 THEN 1 ELSE -1
    <3> HIDE DEF times
    <3>1. some \in Int /\ sign \in Int
      BY <2>1
    <3> HIDE DEF some, sign
    <3>2. some * sign \in Int
      BY <3>1
    <3> QED
      BY <3>2 DEF some, sign
  <2>3. low \in {0, 2} /\ rate - lower \in Int
    BY <2>2
  <2> HIDE DEF lower, low
  <2>4. Max({low, Min({7, rate - lower})}) \in low..7
    <3>1. low \in Int /\ low <= 7
      BY <2>3
    <3> QED
      BY <1>0, <2>3, <3>1, Clamped, Zenon
  <2>5. R3!AS_get_downlink_datarate(rate, offset, dwell_time)
          = Max({low, Min({7, rate - lower})})
    BY SameClamps, Zenon DEF R3!AS_get_downlink_datarate, lower, low
  <2> QED
    BY <2>3, <2>4, <2>5
<1> QED
  BY <1>2, <1>3, <1>4, <1>5, <1>6
     DEF get_downlink_datarate, Rx1Rates, Classes

-----------------------------------------------------------------------------
(* The tables                                                              *)

\* What the theorem needs of a band: of its data rates, of the data rates of
\* its channels, and of its channels for downlinks.
RatesSound(datarates, rates) ==
  /\ DOMAIN datarates = 0..15
  /\ \A r \in rates : /\ r \in 0..15
                     /\ datarates[r].modulation \in {"lora", "fsk"}
                     /\ datarates[r].direction # "uplink"

ChannelsSound(channels) ==
  /\ DOMAIN channels \subseteq 0..71
  /\ \A i \in DOMAIN channels :
       /\ "datarates" \in DOMAIN channels[i]
       /\ \A k \in DOMAIN channels[i].datarates :
            channels[i].datarates[k] \in 0..15

DownlinksSound(channels) ==
  \A i \in 0..7 : \A r \in 8..13 : datarate_index_is_used(channels[i], r)

Sound(b) ==
  /\ b.class \in Classes
  /\ RatesSound(b.datarates, Rx1Rates(b.class))
  /\ ChannelsSound(b.uplink_channels)
  /\ \/ b.dynamic = TRUE /\ b.downlink_channels = b.uplink_channels
     \/ /\ b.dynamic = FALSE /\ DownlinksSound(b.downlink_channels)
        /\ b.class \in {"US902_928", "AU915_928"}

LEMMA RangeType ==
  ASSUME NEW start \in 0..15, NEW end \in 0..15
  PROVE  \A k \in DOMAIN R2!get_range_datarates(start, end) :
           R2!get_range_datarates(start, end)[k] \in 0..15
BY DEF R2!get_range_datarates

LEMMA EURates == RatesSound(R2!EU_datarates, 0..7)
BY DEF RatesSound, R2!EU_datarates, R2!LoRaDataRate, R2!FSKDataRate,
       R2!LRFHSSDataRate, R2!RFUDataRate, R2!DataRate

LEMMA EUChannels == ChannelsSound(R2!EU_channels)
<1>1. DOMAIN R2!EU_channels = 0..8
  BY DEF R2!EU_channels
<1>2. \A i \in 0..8 :
        R2!EU_channels[i].datarates =
          IF i <= 6 THEN R2!get_range_datarates(0, 6) ELSE <<i - 1>>
  BY DEF R2!EU_channels, R2!Channel
<1>3. \A i \in 0..8 : "datarates" \in DOMAIN R2!EU_channels[i]
  BY DEF R2!EU_channels, R2!Channel
<1> QED
  BY <1>1, <1>2, <1>3, RangeType DEF ChannelsSound

\* The plans of fixed channels.
LEMMA FixedUplinks ==
  ASSUME NEW khz, NEW rates \in 0..15, NEW khz_wide, NEW rate_wide \in 0..15
  PROVE  ChannelsSound(R2!FixedPlanUplinks(khz, rates, khz_wide, rate_wide))
<1> DEFINE up == R2!FixedPlanUplinks(khz, rates, khz_wide, rate_wide)
<1>1. DOMAIN up = 0..71
  BY DEF R2!FixedPlanUplinks
<1>2. ASSUME NEW i \in 0..71
      PROVE  /\ \/ up[i].datarates = R2!get_range_datarates(0, rates)
                \/ up[i].datarates = <<rate_wide>>
             /\ "datarates" \in DOMAIN up[i]
  BY DEF R2!FixedPlanUplinks, R2!Channel
<1> HIDE DEF up
<1>3. ASSUME NEW i \in 0..71, NEW k \in DOMAIN up[i].datarates
      PROVE  up[i].datarates[k] \in 0..15
  <2>1. CASE up[i].datarates = R2!get_range_datarates(0, rates)
    BY <2>1, RangeType
  <2>2. CASE up[i].datarates = <<rate_wide>>
    BY <2>2
  <2> QED
    BY <1>2, <2>1, <2>2
<1>4. ChannelsSound(up)
  BY <1>1, <1>2, <1>3 DEF ChannelsSound
<1> QED
  BY <1>4 DEF up

LEMMA FixedDownlinks ==
  ASSUME NEW khz
  PROVE  DownlinksSound(R2!FixedPlanDownlinks(khz))
<1> SUFFICES ASSUME NEW i \in 0..7, NEW r \in 8..13
             PROVE  datarate_index_is_used(R2!FixedPlanDownlinks(khz)[i], r)
  BY DEF DownlinksSound
<1> DEFINE rates == R2!FixedPlanDownlinks(khz)[i].datarates
<1>1. rates = R2!get_range_datarates(8, 14)
  BY DEF R2!FixedPlanDownlinks, R2!Channel
<1>2. R2!get_range_datarates(8, 14) = [k \in 1..6 |-> 8 + k - 1]
  BY DEF R2!get_range_datarates
<1> HIDE DEF rates
<1>3. Len(rates) = 6 /\ rates[1] = 8 /\ rates[6] = 13
  BY <1>1, <1>2
<1> QED
  BY <1>3 DEF datarate_index_is_used, rates

LEMMA FixedRates ==
  RatesSound(R2!US_datarates, 8..13) /\ RatesSound(R2!AU_datarates, 8..13)
BY DEF RatesSound, R2!US_datarates, R2!AU_datarates, R2!LoRaDataRate,
       R2!LRFHSSDataRate, R2!RFUDataRate, R2!DataRate

\* Which channels are in use does not matter here.
LEMMA SubBandChannels ==
  ASSUME NEW channels, ChannelsSound(channels), NEW used
  PROVE  ChannelsSound([i \in DOMAIN channels |->
                          [channels[i] EXCEPT !.is_used = i \in used]])
<1> DEFINE some == [i \in DOMAIN channels |->
                      [channels[i] EXCEPT !.is_used = i \in used]]
<1>1. DOMAIN some = DOMAIN channels
  OBVIOUS
<1>2. ASSUME NEW i \in DOMAIN channels
      PROVE  /\ "datarates" \in DOMAIN some[i]
             /\ some[i].datarates = channels[i].datarates
  <2>1. "datarates" \in DOMAIN channels[i]
    BY DEF ChannelsSound
  <2> QED
    BY <2>1
<1> HIDE DEF some
<1>3. ChannelsSound(some)
  BY <1>1, <1>2 DEF ChannelsSound
<1> QED
  BY <1>3 DEF some

LEMMA USChannels ==
  /\ ChannelsSound(R2!US_uplink_channels)
  /\ DownlinksSound(R2!US_downlink_channels)
BY FixedUplinks, FixedDownlinks DEF R2!US_uplink_channels, R2!US_downlink_channels

LEMMA AUChannels ==
  /\ ChannelsSound(R2!AU_uplink_channels)
  /\ DownlinksSound(R2!AU_downlink_channels)
BY FixedUplinks, FixedDownlinks DEF R2!AU_uplink_channels, R2!AU_downlink_channels

\* A band of North America or Australia, whatever its uplink channels.
LEMMA FixedSound ==
  ASSUME NEW b,
         \/ /\ b.class = "US902_928" /\ b.datarates = R2!US_datarates
            /\ b.downlink_channels = R2!US_downlink_channels
         \/ /\ b.class = "AU915_928" /\ b.datarates = R2!AU_datarates
            /\ b.downlink_channels = R2!AU_downlink_channels,
         b.dynamic = FALSE,
         ChannelsSound(b.uplink_channels)
  PROVE  Sound(b)
<1>1. Rx1Rates(b.class) = 8..13
  BY DEF Rx1Rates
<1> QED
  BY <1>1, FixedRates, USChannels, AUChannels DEF Sound, Classes

\* RP2-1.0.3 builds on the tables of RP2-1.0.2.
LEMMA SameRates ==
  /\ R3!Former!EU_datarates = R2!EU_datarates
  /\ R3!Former!US_datarates = R2!US_datarates
  /\ R3!Former!AU_datarates = R2!AU_datarates
  /\ R3!Former!AS_datarates = R2!AS_datarates
BY DEF R3!Former!EU_datarates, R2!EU_datarates, R3!Former!US_datarates,
       R2!US_datarates, R3!Former!AU_datarates, R2!AU_datarates,
       R3!Former!AS_datarates, R2!AS_datarates, R3!Former!DataRate,
       R2!DataRate, R3!Former!LoRaDataRate, R2!LoRaDataRate,
       R3!Former!FSKDataRate, R2!FSKDataRate, R3!Former!LRFHSSDataRate,
       R2!LRFHSSDataRate, R3!Former!RFUDataRate, R2!RFUDataRate

LEMMA SameChannels ==
  /\ R3!Former!EU_channels = R2!EU_channels
  /\ R3!Former!US_uplink_channels = R2!US_uplink_channels
  /\ R3!Former!US_downlink_channels = R2!US_downlink_channels
  /\ R3!Former!AU_uplink_channels = R2!AU_uplink_channels
  /\ R3!Former!AU_downlink_channels = R2!AU_downlink_channels
BY DEF R3!Former!EU_channels, R2!EU_channels, R3!Former!US_uplink_channels,
       R2!US_uplink_channels, R3!Former!US_downlink_channels,
       R2!US_downlink_channels, R3!Former!AU_uplink_channels,
       R2!AU_uplink_channels, R3!Former!AU_downlink_channels,
       R2!AU_downlink_channels, R3!Former!get_range_datarates,
       R2!get_range_datarates, R3!Former!Channel, R2!Channel,
       R3!Former!FixedPlanUplinks, R2!FixedPlanUplinks,
       R3!Former!FixedPlanDownlinks, R2!FixedPlanDownlinks

LEMMA ASRates == RatesSound(R2!AS_datarates, 0..7)
BY DEF RatesSound, R2!AS_datarates, R2!LoRaDataRate, R2!FSKDataRate,
       R2!RFUDataRate, R2!DataRate

LEMMA ASChannels == ChannelsSound(R2!AS_channels)
<1>1. ASSUME NEW i \in 0..7
      PROVE  /\ \/ R2!AS_channels[i].datarates = R2!get_range_datarates(0, 6)
                \/ R2!AS_channels[i].datarates \in {<< 6 >>, << 7 >>}
             /\ "datarates" \in DOMAIN R2!AS_channels[i]
  BY DEF R2!AS_channels, R2!Channel
<1>2. DOMAIN R2!AS_channels = 0..7
  BY DEF R2!AS_channels
<1> QED
  BY <1>1, <1>2, RangeType DEF ChannelsSound

LEMMA AS2Channels ==
  ASSUME NEW offset
  PROVE  ChannelsSound(R3!calculate_channels(offset))
<1> DEFINE channels == R3!calculate_channels(offset)
<1>1. DOMAIN channels = 0..7
  BY DEF R3!calculate_channels
<1>2. ASSUME NEW i \in 0..7
      PROVE  /\ \/ channels[i].datarates = R2!get_range_datarates(0, 7)
                \/ channels[i].datarates = R2!get_range_datarates(0, 6)
                \/ channels[i].datarates = << 7 >>
             /\ "datarates" \in DOMAIN channels[i]
  BY DEF R3!calculate_channels, R3!Channel, R3!get_range_datarates,
         R2!get_range_datarates
<1> HIDE DEF channels
<1>3. ChannelsSound(channels)
  BY <1>1, <1>2, RangeType DEF ChannelsSound
<1> QED
  BY <1>3 DEF channels

\* A band of Europe or Asia.
LEMMA DynamicSound ==
  ASSUME NEW b,
         \/ b.class = "EU863_870" /\ b.datarates = R2!EU_datarates
         \/ b.class \in {"AS923", "AS923_2"} /\ b.datarates = R2!AS_datarates,
         b.dynamic = TRUE,
         ChannelsSound(b.uplink_channels),
         b.downlink_channels = b.uplink_channels
  PROVE  Sound(b)
<1>1. RatesSound(R2!AS_datarates, 0..5)
  BY ASRates DEF RatesSound
<1>2. RatesSound(b.datarates, Rx1Rates(b.class))
  <2>1. CASE b.class = "AS923"
    BY <1>1, <2>1 DEF Rx1Rates
  <2>2. CASE b.class \in {"EU863_870", "AS923_2"}
    BY <2>2, EURates, ASRates DEF Rx1Rates
  <2> QED
    BY <2>1, <2>2
<1> QED
  BY <1>2 DEF Sound, Classes

LEMMA DynamicBands ==
  /\ Sound(R2!EU863_870) /\ Sound(R3!EU863_870)
  /\ Sound(R2!AS923) /\ Sound(R3!AS923_2)
<1>1. Sound(R2!EU863_870)
  BY DynamicSound, EUChannels DEF R2!EU863_870
<1>2. Sound(R3!EU863_870)
  BY DynamicSound, EUChannels, SameRates, SameChannels
     DEF R3!EU863_870, R3!Former!EU863_870
<1>3. Sound(R2!AS923)
  BY DynamicSound, ASChannels DEF R2!AS923
<1>4. Sound(R3!AS923_2)
  BY DynamicSound, AS2Channels, SameRates DEF R3!AS923_2
<1> QED
  BY <1>1, <1>2, <1>3, <1>4

\* What the bands of North America and Australia have in common.
Fixed(b) ==
  /\ \/ /\ b.class = "US902_928" /\ b.datarates = R2!US_datarates
        /\ b.uplink_channels = R2!US_uplink_channels
        /\ b.downlink_channels = R2!US_downlink_channels
     \/ /\ b.class = "AU915_928" /\ b.datarates = R2!AU_datarates
        /\ b.uplink_channels = R2!AU_uplink_channels
        /\ b.downlink_channels = R2!AU_downlink_channels
  /\ b.dynamic = FALSE
  /\ {"class", "datarates", "downlink_channels", "dynamic", "uplink_channels"}
       \subseteq DOMAIN b

LEMMA SubBandSound ==
  ASSUME NEW b, Fixed(b), NEW used
  PROVE  /\ Sound(b)
         /\ Sound(R2!SubBand(b, used))
         /\ Sound(R3!Former!SubBand(b, used))
<1> DEFINE up == [i \in DOMAIN b.uplink_channels |->
                    [b.uplink_channels[i] EXCEPT !.is_used = i \in used]]
           sub == [b EXCEPT !.uplink_channels = up]
<1>1. ChannelsSound(b.uplink_channels)
  BY USChannels, AUChannels DEF Fixed
<1>2. Sound(b)
  BY <1>1, FixedSound DEF Fixed
<1>3. ChannelsSound(up)
  BY <1>1, SubBandChannels
<1>4. /\ R2!SubBand(b, used) = sub
      /\ R3!Former!SubBand(b, used) = sub
  BY DEF R2!SubBand, R3!Former!SubBand
<1> HIDE DEF up
<1>5. /\ sub.class = b.class /\ sub.datarates = b.datarates
      /\ sub.downlink_channels = b.downlink_channels /\ sub.dynamic = b.dynamic
      /\ sub.uplink_channels = up
  BY DEF Fixed
<1> HIDE DEF sub
<1>6. Sound(sub)
  BY <1>3, <1>5, FixedSound DEF Fixed
<1> QED
  BY <1>2, <1>4, <1>6

LEMMA FixedBands ==
  /\ Fixed(R2!US902_928) /\ Fixed(R3!US902_928)
  /\ Fixed(R2!AU915_928) /\ Fixed(R3!AU915_928)
<1>1. Fixed(R2!US902_928) /\ Fixed(R2!AU915_928)
  BY DEF Fixed, R2!US902_928, R2!AU915_928
<1>2. Fixed(R3!US902_928)
  BY SameRates, SameChannels DEF Fixed, R3!US902_928, R3!Former!US902_928
<1>3. Fixed(R3!AU915_928)
  BY SameRates, SameChannels DEF Fixed, R3!AU915_928, R3!Former!AU915_928
<1> QED
  BY <1>1, <1>2, <1>3

\* Every band that can be had by name.
LEMMA AvailableSound ==
  ASSUME NEW rp \in DOMAIN RP_AVAILABLE, NEW name \in DOMAIN RP_AVAILABLE[rp]
  PROVE  Sound(RP_AVAILABLE[rp][name])
<1>1. /\ Sound(R2!US902_928) /\ Sound(R2!US902_928A) /\ Sound(R2!US902_928AB)
      /\ Sound(R3!US902_928)
      /\ Sound(R2!AU915_928) /\ Sound(R2!AU915_928A)
      /\ Sound(R3!AU915_928) /\ Sound(R3!AU915_928A)
  BY FixedBands, SubBandSound
     DEF R2!US902_928A, R2!US902_928AB, R2!AU915_928A, R3!AU915_928A
<1>2. Sound(R3!US902_928A) /\ Sound(R3!US902_928AB)
  <2>1. Fixed(R3!Former!US902_928)
    BY FixedBands DEF R3!US902_928
  <2> QED
    BY <2>1, SubBandSound DEF R3!US902_928A, R3!US902_928AB,
       R3!Former!US902_928A, R3!Former!US902_928AB
<1>3. CASE rp = "RP2_1_0_2"
  BY <1>1, <1>3, DynamicBands DEF RP_AVAILABLE, R2!BANDS_AVAILABLE
<1>4. CASE rp = "RP2_1_0_3"
  BY <1>1, <1>2, <1>4, DynamicBands DEF RP_AVAILABLE, R3!BANDS_AVAILABLE
<1> QED
  BY <1>3, <1>4 DEF RP_AVAILABLE

-----------------------------------------------------------------------------
(* The lookups                                                             *)

\* A set of natural numbers has a least one: the segments 0..n are ordered by
\* inclusion, which is well-founded.
LEMMA MinIn ==
  ASSUME NEW S, S \subseteq Nat, S # {}
  PROVE  Min(S) \in S
<1> DEFINE segments == {0..n : n \in S}
<1>1. segments \subseteq FiniteSubsetsOf(Nat) /\ segments # {}
  <2>1. ASSUME NEW n \in S
        PROVE  0..n \in FiniteSubsetsOf(Nat)
    <3>1. IsFiniteSet(0..n)
      BY FS_Interval
    <3>2. 0..n \subseteq Nat
      OBVIOUS
    <3> QED
      BY <3>1, <3>2 DEF FiniteSubsetsOf
  <2> QED
    BY <2>1
<1>2. PICK least \in segments :
        \A other \in segments : <<other, least>> \notin StrictSubsetOrdering(Nat)
  <2> HIDE DEF segments
  <2> QED
    BY <1>1, FS_StrictSubsetOrderingWellFounded, WFMin
<1>3. PICK x \in S : least = 0..x
  OBVIOUS
<1>4. \A y \in S : x <= y
  <2> SUFFICES ASSUME NEW y \in S, y < x
               PROVE  FALSE
    OBVIOUS
  <2>1. 0..y \in segments /\ 0..y \subseteq 0..x /\ x \in 0..x /\ x \notin 0..y
    OBVIOUS
  <2>2. <<0..y, 0..x>> \in StrictSubsetOrdering(Nat)
    BY <2>1 DEF StrictSubsetOrdering
  <2> QED
    BY <1>2, <1>3, <2>1, <2>2
<1> QED
  BY <1>4 DEF Min

\* The loop that looks for the first returns one of those it looks for.
LEMMA FirstIn ==
  ASSUME NEW S, S \subseteq Nat, S # {}
  PROVE  First(S) \in S
BY MinIn DEF First

LEMMA ChannelFound ==
  ASSUME NEW b, ChannelsSound(b.uplink_channels), NEW i \in DOMAIN b.uplink_channels
  PROVE  LET khz == b.uplink_channels[i].frequency_khz
             channel == get_uplink_channel_by_freq_khz(b, khz)
         IN  /\ channel \in DOMAIN b.uplink_channels
             /\ b.uplink_channels[channel].frequency_khz = khz
<1> DEFINE khz == b.uplink_channels[i].frequency_khz
           those == {j \in DOMAIN b.uplink_channels :
                       b.uplink_channels[j].frequency_khz = khz}
<1>1. those \subseteq Nat /\ i \in those
  BY DEF ChannelsSound
<1>2. get_uplink_channel_by_freq_khz(b, khz) = First(those)
  BY DEF get_uplink_channel_by_freq_khz
<1>3. First(those) \in those
  <2> HIDE DEF those
  <2>1. those # {}
    BY <1>1
  <2> QED
    BY <1>1, <2>1, FirstIn, Zenon
<1> QED
  BY <1>2, <1>3

LEMMA RateFound ==
  ASSUME NEW b, DOMAIN b.datarates = 0..15, NEW rate \in 0..15
  PROVE  RateOf(b, rate) \in 0..15
<1> DEFINE r == b.datarates[rate]
           those == {i \in DOMAIN b.datarates :
                       /\ b.datarates[i].modulation = "lora"
                       /\ b.datarates[i].spreading = r.spreading
                       /\ b.datarates[i].bandwidth = r.bandwidth}
<1>1. CASE r.modulation = "lora"
  <2>1. those \subseteq 0..15 /\ rate \in those
    BY <1>1
  <2>2. RateOf(b, rate) = First(those)
    BY <1>1 DEF RateOf, get_datarate_by_sf_bw
  <2>3. First(those) \in those
    <3> HIDE DEF those
    <3>1. those \subseteq Nat /\ those # {}
      BY <2>1
    <3> QED
      BY <3>1, FirstIn, Zenon
  <2> HIDE DEF those
  <2> QED
    BY <2>1, <2>2, <2>3
<1>2. CASE r.modulation # "lora"
  BY <1>2 DEF RateOf
<1> QED
  BY <1>1, <1>2

-----------------------------------------------------------------------------
(* The receive window                                                      *)

\* What Rx1Usable says of a window w of a device that sent on a frequency.
Usable(b, w, frequency_khz) ==
  /\ w.rate \in DOMAIN b.datarates
  /\ b.datarates[w.rate].modulation \in {"lora", "fsk"}
  /\ allowed_for_downlink(b.datarates[w.rate])
  /\ IF b.dynamic THEN b.downlink_channels[w.channel].frequency_khz = frequency_khz
     ELSE datarate_index_is_used(b.downlink_channels[w.channel], w.rate)

\* The rules of the class keep to the tables of the class.
LEMMA WindowUsable ==
  ASSUME NEW b, Sound(b), NEW rate \in 0..15, NEW offset \in 0..7,
         NEW dwell_time \in {0, 1},
         NEW channel \in DOMAIN b.uplink_channels,
         NEW w,
         w.channel = get_downlink_channel(b, channel),
         w.rate = get_downlink_datarate(b, rate, offset, dwell_time)
  PROVE  Usable(b, w, b.uplink_channels[channel].frequency_khz)
<1>1. w.rate \in Rx1Rates(b.class)
  <2>1. rate \in Int /\ b.class \in Classes
    BY DEF Sound
  <2> QED
    BY <2>1, DatarateClamped
<1>2. /\ w.rate \in DOMAIN b.datarates
      /\ b.datarates[w.rate].modulation \in {"lora", "fsk"}
      /\ allowed_for_downlink(b.datarates[w.rate])
  BY <1>1 DEF Sound, RatesSound, allowed_for_downlink
<1>3. CASE b.dynamic = TRUE /\ b.downlink_channels = b.uplink_channels
  BY <1>2, <1>3 DEF Usable, get_downlink_channel
<1>4. CASE /\ b.dynamic = FALSE /\ DownlinksSound(b.downlink_channels)
           /\ b.class \in {"US902_928", "AU915_928"}
  <2>1. w.channel = channel % 8 /\ channel \in Nat
    BY <1>4 DEF Sound, ChannelsSound, get_downlink_channel
  <2>2. w.channel \in 0..7 /\ w.rate \in 8..13
    BY <1>1, <1>4, <2>1 DEF Rx1Rates
  <2>3. datarate_index_is_used(b.downlink_channels[w.channel], w.rate)
    BY <1>4, <2>2 DEF DownlinksSound
  <2> QED
    BY <1>2, <1>4, <2>3 DEF Usable
<1> QED
  BY <1>3, <1>4 DEF Sound

\* What the device can have sent on band b.
Uplink(b, u) ==
  /\ u.settings.offset \in 0..7
  /\ u.settings.dwell_time \in {0, 1}
  /\ u.sent.rate \in 0..15
  /\ \E i \in DOMAIN b.uplink_channels :
       u.sent.frequency_khz = b.uplink_channels[i].frequency_khz

LEMMA RequestSound ==
  ASSUME NEW rp \in DOMAIN RP_AVAILABLE, NEW name, NEW u \in Requests(rp, name),
         get_band_by_name(u.name, u.rp) # None
  PROVE  /\ Sound(get_band_by_name(u.name, u.rp))
         /\ Uplink(get_band_by_name(u.name, u.rp), u)
<1> DEFINE b == get_band_by_name(name, rp)
<1>1. /\ u.rp = rp /\ u.name = name /\ b # None
      /\ u.settings \in Settings(b) /\ u.sent \in UplinksOf(b)
  BY DEF Requests
<1>2. Sound(b)
  <2>1. name \in DOMAIN RP_AVAILABLE[rp] /\ b = RP_AVAILABLE[rp][name]
    BY <1>1 DEF get_band_by_name
  <2> QED
    BY <2>1, AvailableSound
<1> HIDE DEF b
<1>3. u.settings.offset \in 0..7 /\ u.settings.dwell_time \in {0, 1}
  BY <1>1 DEF Settings
<1>4. PICK i \in DOMAIN b.uplink_channels :
        \E k \in DOMAIN b.uplink_channels[i].datarates :
        /\ u.sent.frequency_khz = b.uplink_channels[i].frequency_khz
        /\ u.sent.rate = b.uplink_channels[i].datarates[k]
  BY <1>1 DEF UplinksOf
<1>5. u.sent.rate \in 0..15
  BY <1>2, <1>4 DEF Sound, ChannelsSound
<1> QED
  BY <1>1, <1>2, <1>3, <1>4, <1>5 DEF Uplink, b

\* The invariant: how far the answers have got.
Answered ==
  /\ \E rp \in DOMAIN RP_AVAILABLE : \E name \in BandNames :
       uplink \in Requests(rp, name)
  /\ step \in {"asked", "BandError", "band", "found"} => rx1 = None
  /\ step \notin {"asked", "BandError"} => band # None
  /\ step = "found" =>
       /\ found.rate \in 0..15
       /\ found.channel \in DOMAIN band.uplink_channels
       /\ band.uplink_channels[found.channel].frequency_khz =
            uplink.sent.frequency_khz
  /\ step \notin {"asked", "BandError", "band", "found"} =>
       /\ {"channel", "rate", "size"} \subseteq DOMAIN rx1
       /\ Usable(band, rx1, uplink.sent.frequency_khz)

LEMMA BandSound ==
  ASSUME Answered, band # None
  PROVE  Sound(band) /\ Uplink(band, uplink)
<1>1. PICK rp \in DOMAIN RP_AVAILABLE, name \in BandNames :
        uplink \in Requests(rp, name)
  BY DEF Answered
<1> QED
  BY <1>1, RequestSound DEF band

LEMMA AnsweredInit == BandInit => Answered
BY DEF BandInit, Answered

LEMMA AnsweredStep == Answered /\ [BandNext]_bandVars => Answered'
<1> SUFFICES ASSUME Answered, [BandNext]_bandVars
             PROVE  Answered'
  OBVIOUS
<1>1. CASE GetBand
  <2>1. band' = band
    BY <1>1 DEF GetBand, band
  <2> QED
    BY <1>1, <2>1 DEF GetBand, Answered
<1>2. CASE FindUplink
  <2>1. band' = band /\ band # None
    BY <1>2 DEF FindUplink, band, Answered
  <2>2. Sound(band) /\ Uplink(band, uplink)
    BY <2>1, BandSound
  <2>3. PICK i \in DOMAIN band.uplink_channels :
          uplink.sent.frequency_khz = band.uplink_channels[i].frequency_khz
    BY <2>2 DEF Uplink
  <2>4. /\ found'.channel \in DOMAIN band.uplink_channels
        /\ band.uplink_channels[found'.channel].frequency_khz =
             uplink.sent.frequency_khz
    <3>1. found'.channel =
            get_uplink_channel_by_freq_khz(band, band.uplink_channels[i].frequency_khz)
      BY <1>2, <2>3 DEF FindUplink
    <3>2. ChannelsSound(band.uplink_channels)
      BY <2>2 DEF Sound
    <3> QED
      BY <2>3, <3>1, <3>2, ChannelFound
  <2>5. found'.rate \in 0..15
    <3>1. found'.rate = RateOf(band, uplink.sent.rate)
      BY <1>2 DEF FindUplink
    <3>2. DOMAIN band.datarates = 0..15 /\ uplink.sent.rate \in 0..15
      BY <2>2 DEF Sound, RatesSound, Uplink
    <3> QED
      BY <3>1, <3>2, RateFound
  <2> QED
    BY <1>2, <2>1, <2>4, <2>5 DEF FindUplink, Answered
<1>3. CASE OpenRx1
  <2>1. band' = band /\ band # None
    BY <1>3 DEF OpenRx1, band, Answered
  <2>2. Sound(band) /\ Uplink(band, uplink)
    BY <2>1, BandSound
  <2>3. /\ rx1'.channel = get_downlink_channel(band, found.channel)
        /\ rx1'.rate = get_downlink_datarate(band, found.rate,
             uplink.settings.offset, uplink.settings.dwell_time)
        /\ {"channel", "rate", "size"} \subseteq DOMAIN rx1'
    BY <1>3 DEF OpenRx1
  <2>4. /\ found.rate \in 0..15
        /\ found.channel \in DOMAIN band.uplink_channels
        /\ band.uplink_channels[found.channel].frequency_khz =
             uplink.sent.frequency_khz
    BY <1>3 DEF OpenRx1, Answered
  <2>5. Usable(band, rx1', uplink.sent.frequency_khz)
    <3>1. uplink.settings.offset \in 0..7 /\ uplink.settings.dwell_time \in {0, 1}
      BY <2>2 DEF Uplink
    <3> QED
      BY <2>2, <2>3, <2>4, <3>1, WindowUsable
  <2> QED
    BY <1>3, <2>1, <2>3, <2>5 DEF OpenRx1, Answered
<1>4. CASE FillRx1
  <2>1. band' = band /\ uplink' = uplink
    BY <1>4 DEF FillRx1, band
  <2>2. /\ {"channel", "rate", "size"} \subseteq DOMAIN rx1
        /\ Usable(band, rx1, uplink.sent.frequency_khz)
        /\ band # None
    BY <1>4 DEF FillRx1, Answered
  <2>3. /\ {"channel", "rate", "size"} \subseteq DOMAIN rx1'
        /\ rx1'.rate = rx1.rate /\ rx1'.channel = rx1.channel
    BY <1>4, <2>2 DEF FillRx1
  <2>4. Usable(band, rx1', uplink.sent.frequency_khz)
    BY <2>2, <2>3 DEF Usable
  <2>5. step' \in {"filled", "KeyError"}
    BY <1>4 DEF FillRx1
  <2> QED
    BY <2>1, <2>2, <2>3, <2>4, <2>5 DEF Answered
<1>5. CASE UNCHANGED bandVars
  BY <1>5 DEF bandVars, Answered, band
<1> QED
  BY <1>1, <1>2, <1>3, <1>4, <1>5 DEF BandNext

LEMMA AnsweredUsable == Answered => Rx1Usable
<1> SUFFICES ASSUME Answered, rx1 # None
             PROVE  Usable(band, rx1, uplink.sent.frequency_khz)
  BY DEF Usable, Rx1Usable
<1> QED
  BY DEF Answered

\* Rx1Usable: for every band of both revisions, every channel and data rate of
\* a device and every setting, the server can transmit what get_downlink_channel
\* and get_downlink_datarate of the class return for the uplink.
THEOREM Rx1UsableHolds == BandSpec => []Rx1Usable
<1>1. BandInit => Answered
  BY AnsweredInit
<1>2. Answered /\ [BandNext]_bandVars => Answered'
  BY AnsweredStep
<1>3. Answered => Rx1Usable
  BY AnsweredUsable
<1> QED
  BY <1>1, <1>2, <1>3, PTL DEF BandSpec

-----------------------------------------------------------------------------
(* What a device may send and a server finds again                         *)

\* The data rates that the channels of a class have for uplinks.
UpRates(class) ==
  CASE class = "US902_928" -> 0..4
    [] class = "AU915_928" -> 0..6
    [] OTHER -> 0..7

\* They are for uplinks, no two of LoRa among them and those before them are
\* the same, and DR7 is that of FSK where channels have it.
RatesLegal(datarates, rates) ==
  /\ DOMAIN datarates = 0..15
  /\ 7 \in rates => datarates[7].modulation = "fsk"
  /\ \A r \in rates :
       /\ r \in 0..7
       /\ allowed_for_uplink(datarates[r])
       /\ datarates[r].modulation \in {"lora", "fsk"}
       /\ datarates[r].modulation = "lora" =>
            \A s \in 0..(r - 1) :
              ~ /\ datarates[s].modulation = "lora"
                /\ datarates[s].spreading = datarates[r].spreading
                /\ datarates[s].bandwidth = datarates[r].bandwidth

\* Each channel has such data rates, as a range, and is the first with its
\* frequency or has DR7 alone.
ChannelsLegal(channels, rates) ==
  /\ DOMAIN channels \subseteq 0..71
  /\ \A i \in DOMAIN channels :
       /\ "frequency_khz" \in DOMAIN channels[i] /\ "datarates" \in DOMAIN channels[i]
       /\ \A k \in DOMAIN channels[i].datarates :
            /\ channels[i].datarates[k] \in rates
            /\ datarate_index_is_used(channels[i], channels[i].datarates[k])
       /\ \/ \A j \in DOMAIN channels :
               j < i => channels[j].frequency_khz # channels[i].frequency_khz
          \/ channels[i].datarates = << 7 >>

MasksCover(masks, channels) ==
  \A i \in DOMAIN channels :
    /\ masks[i \div 16].type = "range"
    /\ i \in masks[i \div 16].start .. masks[i \div 16].end

\* A size is defined for every data rate of an uplink, and for every data rate
\* of a window unless the dwell time rules it out.
SizesLegal(b) ==
  /\ UpRates(b.class) \subseteq DOMAIN b.sizes
  /\ Rx1Rates(b.class) \subseteq DOMAIN b.sizes
  /\ \A r \in Rx1Rates(b.class) : \A d \in {0, 1} :
       \/ get_max_payload_size(b, r, d) \in Int /\ get_max_payload_size(b, r, d) >= 11
       \/ d = 1 /\ r < 2 /\ b.class \in {"AS923", "AS923_2"}

Legal(b) ==
  /\ RatesLegal(b.datarates, UpRates(b.class))
  /\ ChannelsLegal(b.uplink_channels, UpRates(b.class))
  /\ MasksCover(b.masks, b.uplink_channels)
  /\ SizesLegal(b)

\* The channels in use are some of those.
LEMMA SubBandLegal ==
  ASSUME NEW b, Legal(b), NEW used,
         {"class", "datarates", "uplink_channels", "masks", "sizes", "dwell"}
           \subseteq DOMAIN b
  PROVE  Legal(R2!SubBand(b, used)) /\ Legal(R3!Former!SubBand(b, used))
<1> DEFINE old == b.uplink_channels
           up == [i \in DOMAIN old |-> [old[i] EXCEPT !.is_used = i \in used]]
           sub == [b EXCEPT !.uplink_channels = up]
<1>1. R2!SubBand(b, used) = sub /\ R3!Former!SubBand(b, used) = sub
  BY DEF R2!SubBand, R3!Former!SubBand
<1>2. /\ DOMAIN up = DOMAIN old
      /\ \A i \in DOMAIN old :
           /\ "frequency_khz" \in DOMAIN up[i] /\ "datarates" \in DOMAIN up[i]
           /\ up[i].frequency_khz = old[i].frequency_khz
           /\ up[i].datarates = old[i].datarates
  BY DEF Legal, ChannelsLegal
<1> HIDE DEF up
<1>3. /\ sub.class = b.class /\ sub.datarates = b.datarates /\ sub.masks = b.masks
      /\ sub.sizes = b.sizes /\ sub.dwell = b.dwell /\ sub.uplink_channels = up
  OBVIOUS
<1> HIDE DEF sub
<1>4. ChannelsLegal(up, UpRates(b.class)) /\ MasksCover(b.masks, up)
  BY <1>2 DEF Legal, ChannelsLegal, MasksCover, datarate_index_is_used
<1>5. SizesLegal(sub)
  BY <1>3 DEF Legal, SizesLegal, get_max_payload_size
<1> QED
  BY <1>1, <1>3, <1>4, <1>5 DEF Legal

LEMMA RatesAreLegal ==
  /\ RatesLegal(R2!EU_datarates, 0..7)
  /\ RatesLegal(R2!US_datarates, 0..4)
  /\ RatesLegal(R2!AU_datarates, 0..6)
  /\ RatesLegal(R2!AS_datarates, 0..7)
BY DEF RatesLegal, allowed_for_uplink, R2!EU_datarates, R2!US_datarates,
       R2!AU_datarates, R2!AS_datarates, R2!LoRaDataRate, R2!FSKDataRate,
       R2!LRFHSSDataRate, R2!RFUDataRate, R2!DataRate

\* What get_range_datarates returns is a range.
LEMMA RangeUsed ==
  ASSUME NEW start \in 0..15, NEW end \in 0..15, start < end, NEW channel,
         channel.datarates = R2!get_range_datarates(start, end)
  PROVE  \A k \in DOMAIN channel.datarates :
           /\ channel.datarates[k] \in start..(end - 1)
           /\ datarate_index_is_used(channel, channel.datarates[k])
<1> DEFINE rates == channel.datarates
<1>1. rates = [k \in 1..(end - start) |-> start + k - 1] /\ end - start \in Nat
  BY DEF R2!get_range_datarates
<1> HIDE DEF rates
<1>2. /\ DOMAIN rates = 1..(end - start) /\ Len(rates) = end - start
      /\ \A k \in 1..(end - start) : rates[k] = start + k - 1
  BY <1>1
<1>3. rates[1] = start /\ rates[Len(rates)] = end - 1
  BY <1>2
<1>4. \A k \in DOMAIN rates : rates[k] \in start..(end - 1)
  BY <1>2
<1> QED
  BY <1>3, <1>4 DEF rates, datarate_index_is_used

\* A plan of 64 channels and 8 wide ones that lie between them.
LEMMA FixedUplinksLegal ==
  ASSUME NEW khz \in Nat, NEW rates \in 1..7, NEW khz_wide \in Nat,
         khz_wide = khz + 700
  PROVE  ChannelsLegal(R2!FixedPlanUplinks(khz, rates, khz_wide, rates), 0..rates)
<1> DEFINE up == R2!FixedPlanUplinks(khz, rates, khz_wide, rates)
           frequency(i) == IF i < 64 THEN khz + 200 * i ELSE khz_wide + 1600 * (i - 64)
<1>1. DOMAIN up = 0..71
  BY DEF R2!FixedPlanUplinks
<1>2. ASSUME NEW i \in 0..71
      PROVE  up[i].frequency_khz = frequency(i)
  BY DEF R2!FixedPlanUplinks, R2!Channel
<1>0. ASSUME NEW i \in 0..71
      PROVE  "frequency_khz" \in DOMAIN up[i] /\ "datarates" \in DOMAIN up[i]
  BY DEF R2!FixedPlanUplinks, R2!Channel
<1>3. ASSUME NEW i \in 0..71
      PROVE  /\ i < 64 => up[i].datarates = R2!get_range_datarates(0, rates)
             /\ i >= 64 => up[i].datarates = <<rates>>
  BY DEF R2!FixedPlanUplinks, R2!Channel
<1> HIDE DEF up
<1>4. ASSUME NEW i \in 0..71, NEW j \in 0..71, j < i
      PROVE  frequency(j) # frequency(i)
  <2>1. CASE j < 64 /\ i >= 64
    <3>1. frequency(i) - frequency(j) = 200 * (8 * (i - 64) - j + 3) + 100
      BY <2>1
    <3>2. 200 * (8 * (i - 64) - j + 3) + 100 # 0
      OBVIOUS
    <3>3. frequency(i) - frequency(j) # 0
      BY <3>1, <3>2
    <3> QED
      BY <2>1, <3>3
  <2> QED
    BY <1>4, <2>1
<1>5. ASSUME NEW i \in 0..71
      PROVE  \A k \in DOMAIN up[i].datarates :
               /\ up[i].datarates[k] \in 0..rates
               /\ datarate_index_is_used(up[i], up[i].datarates[k])
  <2>1. CASE i < 64
    <3>1. up[i].datarates = R2!get_range_datarates(0, rates)
      BY <1>3, <2>1
    <3>2. \A k \in DOMAIN up[i].datarates :
            /\ up[i].datarates[k] \in 0..(rates - 1)
            /\ datarate_index_is_used(up[i], up[i].datarates[k])
      BY <3>1, RangeUsed
    <3> QED
      BY <3>2
  <2>2. CASE i >= 64
    <3>1. up[i].datarates = <<rates>>
      BY <1>3, <2>2
    <3> DEFINE those == up[i].datarates
    <3>2. /\ \A k \in DOMAIN those : those[k] = rates
          /\ those[1] = rates /\ those[Len(those)] = rates
      BY <3>1
    <3> QED
      BY <3>2 DEF datarate_index_is_used
  <2> QED
    BY <2>1, <2>2
<1> HIDE DEF frequency
<1>6. ASSUME NEW i \in 0..71, NEW j \in 0..71, j < i
      PROVE  up[j].frequency_khz # up[i].frequency_khz
  <2>1. up[i].frequency_khz = frequency(i) /\ up[j].frequency_khz = frequency(j)
    BY <1>2
  <2> QED
    BY <1>4, <1>6, <2>1
<1>7. DOMAIN up \subseteq 0..71
  BY <1>1
<1>8. ASSUME NEW i \in DOMAIN up
      PROVE  /\ "frequency_khz" \in DOMAIN up[i] /\ "datarates" \in DOMAIN up[i]
             /\ \A k \in DOMAIN up[i].datarates :
                  /\ up[i].datarates[k] \in 0..rates
                  /\ datarate_index_is_used(up[i], up[i].datarates[k])
             /\ \A j \in DOMAIN up :
                  j < i => up[j].frequency_khz # up[i].frequency_khz
  <2>1. i \in 0..71
    BY <1>7
  <2> QED
    BY <1>0, <1>5, <1>6, <1>7, <2>1, Zenon
<1> HIDE DEF up
<1>9. ChannelsLegal(up, 0..rates)
  BY <1>7, <1>8, Zenon DEF ChannelsLegal
<1> QED
  BY <1>9 DEF up

LEMMA FixedMasks ==
  ASSUME NEW khz, NEW rates, NEW khz_wide, NEW rate_wide
  PROVE  MasksCover(R2!FixedPlanMasks,
                    R2!FixedPlanUplinks(khz, rates, khz_wide, rate_wide))
<1> SUFFICES ASSUME NEW i \in 0..71
             PROVE  LET mask == R2!FixedPlanMasks[i \div 16] IN
                    mask.type = "range" /\ i \in mask.start .. mask.end
  BY DEF MasksCover, R2!FixedPlanUplinks
<1>1. CASE i < 64
  <2>1. i \div 16 \in 0..3 /\ 16 * (i \div 16) <= i /\ i <= 16 * (i \div 16) + 15
    BY <1>1
  <2> QED
    BY <2>1 DEF R2!FixedPlanMasks, R2!RangeChMaskCtrl
<1>2. CASE i >= 64
  <2>1. i \div 16 = 4
    BY <1>2
  <2> QED
    BY <1>2, <2>1 DEF R2!FixedPlanMasks, R2!RangeChMaskCtrl
<1> QED
  BY <1>1, <1>2

LEMMA DynamicMasksCover ==
  ASSUME NEW channels, DOMAIN channels \subseteq 0..8
  PROVE  MasksCover(R2!DynamicMasks, channels)
<1> SUFFICES ASSUME NEW i \in 0..8
             PROVE  LET mask == R2!DynamicMasks[i \div 16] IN
                    mask.type = "range" /\ i \in mask.start .. mask.end
  BY DEF MasksCover
<1>1. i \div 16 = 0
  OBVIOUS
<1> QED
  BY <1>1 DEF R2!DynamicMasks, R2!RangeChMaskCtrl

\* A plan of at most nine channels, each with a range of data rates or with one.
LEMMA DynamicUplinksLegal ==
  ASSUME NEW channels, NEW last \in 7..8, DOMAIN channels = 0..last,
         \A i \in 0..last :
           /\ "frequency_khz" \in DOMAIN channels[i]
           /\ "datarates" \in DOMAIN channels[i]
           /\ \/ \E end \in 6..7 : channels[i].datarates = R2!get_range_datarates(0, end)
              \/ \E rate \in 6..7 : channels[i].datarates = <<rate>>
           /\ \/ \A j \in 0..last :
                   j < i => channels[j].frequency_khz # channels[i].frequency_khz
              \/ channels[i].datarates = << 7 >>
  PROVE  ChannelsLegal(channels, 0..7)
<1>1. DOMAIN channels \subseteq 0..71
  OBVIOUS
<1>2. ASSUME NEW i \in 0..last
      PROVE  \A k \in DOMAIN channels[i].datarates :
               /\ channels[i].datarates[k] \in 0..7
               /\ datarate_index_is_used(channels[i], channels[i].datarates[k])
  <2>1. ASSUME NEW end \in 6..7,
               channels[i].datarates = R2!get_range_datarates(0, end)
        PROVE  \A k \in DOMAIN channels[i].datarates :
                 /\ channels[i].datarates[k] \in 0..7
                 /\ datarate_index_is_used(channels[i], channels[i].datarates[k])
    <3>1. \A k \in DOMAIN channels[i].datarates :
            /\ channels[i].datarates[k] \in 0..(end - 1)
            /\ datarate_index_is_used(channels[i], channels[i].datarates[k])
      BY <2>1, RangeUsed
    <3> QED
      BY <3>1
  <2>2. ASSUME NEW rate \in 6..7, channels[i].datarates = <<rate>>
        PROVE  \A k \in DOMAIN channels[i].datarates :
                 /\ channels[i].datarates[k] \in 0..7
                 /\ datarate_index_is_used(channels[i], channels[i].datarates[k])
    <3> DEFINE those == channels[i].datarates
    <3>1. /\ \A k \in DOMAIN those : those[k] = rate
          /\ those[1] = rate /\ those[Len(those)] = rate
      BY <2>2
    <3> QED
      BY <3>1 DEF datarate_index_is_used
  <2>3. \/ \E end \in 6..7 : channels[i].datarates = R2!get_range_datarates(0, end)
        \/ \E rate \in 6..7 : channels[i].datarates = <<rate>>
    OBVIOUS
  <2> QED
    BY <2>1, <2>2, <2>3
<1>3. \A i \in DOMAIN channels : i \in 0..last
  OBVIOUS
<1> QED
  BY <1>1, <1>2, <1>3, Zenon DEF ChannelsLegal

LEMMA EUChannelsLegal == ChannelsLegal(R2!EU_channels, 0..7)
<1> DEFINE channels == R2!EU_channels
           khz == <<868100, 868300, 868500, 867100, 867500, 867700, 867900, 867300, 867700>>
<1>1. DOMAIN channels = 0..8
  BY DEF R2!EU_channels
<1>2. ASSUME NEW i \in 0..8
      PROVE  /\ "frequency_khz" \in DOMAIN channels[i]
             /\ "datarates" \in DOMAIN channels[i]
  BY DEF R2!EU_channels, R2!Channel
<1>3. ASSUME NEW i \in 0..8
      PROVE  /\ i <= 6 => channels[i].datarates = R2!get_range_datarates(0, 6)
             /\ i > 6 => channels[i].datarates = <<i - 1>>
  BY DEF R2!EU_channels, R2!Channel
<1>4. ASSUME NEW i \in 0..8
      PROVE  channels[i].frequency_khz = khz[i + 1]
  BY DEF R2!EU_channels, R2!Channel
<1> HIDE DEF channels
<1>5. \A i, j \in 0..7 : j < i => khz[j + 1] # khz[i + 1]
  OBVIOUS
<1>6. ASSUME NEW i \in 0..8
      PROVE  \/ \A j \in 0..8 :
                  j < i => channels[j].frequency_khz # channels[i].frequency_khz
             \/ channels[i].datarates = << 7 >>
  <2>1. CASE i = 8
    BY <1>3, <2>1
  <2>2. CASE i \in 0..7
    <3>1. ASSUME NEW j \in 0..8, j < i
          PROVE  channels[j].frequency_khz # channels[i].frequency_khz
      <4>1. channels[j].frequency_khz = khz[j + 1] /\ channels[i].frequency_khz = khz[i + 1]
        BY <1>4
      <4> HIDE DEF khz
      <4> QED
        BY <1>5, <2>2, <3>1, <4>1
    <3> QED
      BY <3>1
  <2> QED
    BY <2>1, <2>2
<1>7. ASSUME NEW i \in 0..8
      PROVE  \/ \E end \in 6..7 : channels[i].datarates = R2!get_range_datarates(0, end)
             \/ \E rate \in 6..7 : channels[i].datarates = <<rate>>
  BY <1>3
<1>8. 8 \in 7..8
  OBVIOUS
<1>9. ChannelsLegal(channels, 0..7)
  BY <1>1, <1>2, <1>6, <1>7, <1>8, DynamicUplinksLegal, Zenon
<1> QED
  BY <1>9 DEF channels

LEMMA ASChannelsLegal == ChannelsLegal(R2!AS_channels, 0..7)
<1> DEFINE channels == R2!AS_channels
           khz == <<923200, 923400, 923000, 923600, 923800, 924000, 924200, 924400>>
<1>1. DOMAIN channels = 0..7
  BY DEF R2!AS_channels, R2!Channel
<1>2. ASSUME NEW i \in 0..7
      PROVE  /\ "frequency_khz" \in DOMAIN channels[i]
             /\ "datarates" \in DOMAIN channels[i]
  BY DEF R2!AS_channels, R2!Channel
<1>3. ASSUME NEW i \in 0..7
      PROVE  \/ \E end \in 6..7 : channels[i].datarates = R2!get_range_datarates(0, end)
             \/ \E rate \in 6..7 : channels[i].datarates = <<rate>>
  BY DEF R2!AS_channels, R2!Channel
<1>4. ASSUME NEW i \in 0..7
      PROVE  channels[i].frequency_khz = khz[i + 1]
  BY DEF R2!AS_channels, R2!Channel
<1> HIDE DEF channels
<1>5. \A i, j \in 0..7 : j < i => khz[j + 1] # khz[i + 1]
  OBVIOUS
<1>6. ASSUME NEW i \in 0..7, NEW j \in 0..7, j < i
      PROVE  channels[j].frequency_khz # channels[i].frequency_khz
  <2>1. /\ channels[j].frequency_khz = khz[j + 1]
        /\ channels[i].frequency_khz = khz[i + 1]
    BY <1>4
  <2>2. khz[j + 1] \in Int /\ khz[i + 1] \in Int
    OBVIOUS
  <2> HIDE DEF khz
  <2> QED
    BY <1>5, <1>6, <2>1, <2>2
<1>7. 7 \in 7..8
  OBVIOUS
<1>8. ChannelsLegal(channels, 0..7)
  BY <1>1, <1>2, <1>3, <1>6, <1>7, DynamicUplinksLegal, Zenon
<1> QED
  BY <1>8 DEF channels

LEMMA AS2ChannelsLegal ==
  ASSUME NEW offset \in Int
  PROVE  ChannelsLegal(R3!calculate_channels(offset), 0..7)
<1> DEFINE channels == R3!calculate_channels(offset)
           khz == <<923200, 923400, 923000, 923600, 923800, 924000, 924200, 924400>>
<1>1. DOMAIN channels = 0..7
  BY DEF R3!calculate_channels, R3!Channel
<1>2. ASSUME NEW i \in 0..7
      PROVE  /\ "frequency_khz" \in DOMAIN channels[i]
             /\ "datarates" \in DOMAIN channels[i]
  BY DEF R3!calculate_channels, R3!Channel
<1>3. ASSUME NEW i \in 0..7
      PROVE  \/ \E end \in 6..7 : channels[i].datarates = R2!get_range_datarates(0, end)
             \/ \E rate \in 6..7 : channels[i].datarates = <<rate>>
  BY DEF R3!calculate_channels, R3!Channel,
         R3!get_range_datarates, R2!get_range_datarates
<1>4. ASSUME NEW i \in 0..7
      PROVE  channels[i].frequency_khz = khz[i + 1] + offset
  BY DEF R3!calculate_channels, R3!Channel
<1> HIDE DEF channels
<1>5. \A i, j \in 0..7 : j < i => khz[j + 1] # khz[i + 1]
  OBVIOUS
<1>6. ASSUME NEW i \in 0..7, NEW j \in 0..7, j < i
      PROVE  channels[j].frequency_khz # channels[i].frequency_khz
  <2>1. /\ channels[j].frequency_khz = khz[j + 1] + offset
        /\ channels[i].frequency_khz = khz[i + 1] + offset
    BY <1>4
  <2>2. khz[j + 1] \in Int /\ khz[i + 1] \in Int
    OBVIOUS
  <2> HIDE DEF khz
  <2> QED
    BY <1>5, <1>6, <2>1, <2>2
<1>7. 7 \in 7..8
  OBVIOUS
<1>8. ChannelsLegal(channels, 0..7)
  BY <1>1, <1>2, <1>3, <1>6, <1>7, DynamicUplinksLegal, Zenon
<1> QED
  BY <1>8 DEF channels


\* The tables of the payload sizes: what they hold for one dwell time or for
\* each of the two.
LEMMA SizesOnce ==
  /\ DOMAIN R2!EU_sizes = 0..7 /\ \A r \in 0..7 : R2!EU_sizes[r] \in {51, 115, 222}
  /\ DOMAIN R2!US_sizes = 0..4 \cup 8..13
  /\ \A r \in 0..4 \cup 8..13 : R2!US_sizes[r] \in {11, 53, 125, 242, 33, 109, 222}
  /\ DOMAIN R2!AU_sizes = 0..6 \cup 8..13
  /\ \A r \in 0..6 \cup 8..13 : R2!AU_sizes[r] \in {51, 115, 33, 109, 222}
<1>1. DOMAIN R2!EU_sizes = 0..7 /\ \A r \in 0..7 : R2!EU_sizes[r] \in {51, 115, 222}
  BY SMT DEF R2!EU_sizes
<1>2. /\ DOMAIN R2!US_sizes = 0..4 \cup 8..13
      /\ \A r \in 0..4 \cup 8..13 : R2!US_sizes[r] \in {11, 53, 125, 242, 33, 109, 222}
  BY SMT DEF R2!US_sizes
<1>3. /\ DOMAIN R2!AU_sizes = 0..6 \cup 8..13
      /\ \A r \in 0..6 \cup 8..13 : R2!AU_sizes[r] \in {51, 115, 33, 109, 222}
  BY SMT DEF R2!AU_sizes
<1> QED
  BY <1>1, <1>2, <1>3

LEMMA SizesTwice ==
  /\ DOMAIN R2!AS_sizes = 0..7 /\ DOMAIN R3!AS_sizes = 0..7
  /\ DOMAIN R3!AU_sizes = 0..13
  /\ \A r \in 0..7 :
       R2!AS_sizes[r][1] \in {51, 115, 222} /\ R3!AS_sizes[r][1] \in {51, 115, 222}
  /\ \A r \in 2..7 :
       R2!AS_sizes[r][2] \in {11, 53, 125, 242} /\ R3!AS_sizes[r][2] \in {11, 53, 125, 222}
  /\ \A r \in 8..13 :
       R3!AU_sizes[r][1] \in {53, 129, 222} /\ R3!AU_sizes[r][2] \in {53, 129, 222}
<1>1. /\ DOMAIN R2!AS_sizes = 0..7 /\ DOMAIN R3!AS_sizes = 0..7
      /\ DOMAIN R3!AU_sizes = 0..13
  BY SMT DEF R2!AS_sizes, R3!AS_sizes, R3!AU_sizes
<1>2. ASSUME NEW r \in 0..7
      PROVE  /\ R2!AS_sizes[r][1] \in {51, 115, 222}
             /\ r \in 2..7 => R2!AS_sizes[r][2] \in {11, 53, 125, 242}
  BY SMT DEF R2!AS_sizes, R2!WithDwell
<1>3. ASSUME NEW r \in 0..7
      PROVE  /\ R3!AS_sizes[r][1] \in {51, 115, 222}
             /\ r \in 2..7 => R3!AS_sizes[r][2] \in {11, 53, 125, 222}
  BY SMT DEF R3!AS_sizes, R3!WithDwell
<1>4. ASSUME NEW r \in 8..13
      PROVE  /\ R3!AU_sizes[r][1] \in {53, 129, 222}
             /\ R3!AU_sizes[r][2] \in {53, 129, 222}
  BY SMT DEF R3!AU_sizes, R3!WithDwell
<1> QED
  BY <1>1, <1>2, <1>3, <1>4

LEMMA AllSizes ==
  ASSUME NEW b,
         \/ /\ b.dwell = FALSE
            /\ \/ b.class = "EU863_870" /\ b.sizes = R2!EU_sizes
               \/ b.class = "US902_928" /\ b.sizes = R2!US_sizes
               \/ b.class = "AU915_928" /\ b.sizes = R2!AU_sizes
         \/ /\ b.dwell = TRUE
            /\ \/ b.class = "AU915_928" /\ b.sizes = R3!AU_sizes
               \/ b.class = "AS923" /\ b.sizes = R2!AS_sizes
               \/ b.class = "AS923_2" /\ b.sizes = R3!AS_sizes
  PROVE  SizesLegal(b)
BY SMT, SizesOnce, SizesTwice DEF SizesLegal, UpRates, Rx1Rates, get_max_payload_size

LEMMA SameTables ==
  /\ R3!Former!EU_sizes = R2!EU_sizes /\ R3!Former!US_sizes = R2!US_sizes
  /\ R3!Former!DynamicMasks = R2!DynamicMasks
  /\ R3!Former!FixedPlanMasks = R2!FixedPlanMasks
<1>1. R3!Former!EU_sizes = R2!EU_sizes
  BY SMT DEF R3!Former!EU_sizes, R2!EU_sizes
<1>2. R3!Former!US_sizes = R2!US_sizes
  BY SMT DEF R3!Former!US_sizes, R2!US_sizes
<1>3. R3!Former!DynamicMasks = R2!DynamicMasks
  BY SMT DEF R3!Former!DynamicMasks, R2!DynamicMasks, R3!Former!RangeChMaskCtrl,
             R2!RangeChMaskCtrl, R3!Former!ChMaskCtrl, R2!ChMaskCtrl
<1>4. R3!Former!FixedPlanMasks = R2!FixedPlanMasks
  BY SMT DEF R3!Former!FixedPlanMasks, R2!FixedPlanMasks, R3!Former!RangeChMaskCtrl,
             R2!RangeChMaskCtrl, R3!Former!ChMaskCtrl, R2!ChMaskCtrl
<1> QED
  BY <1>1, <1>2, <1>3, <1>4

LEMMA FixedPlansLegal ==
  /\ ChannelsLegal(R2!US_uplink_channels, 0..4)
  /\ MasksCover(R2!FixedPlanMasks, R2!US_uplink_channels)
  /\ ChannelsLegal(R2!AU_uplink_channels, 0..6)
  /\ MasksCover(R2!FixedPlanMasks, R2!AU_uplink_channels)
<1>1. /\ 902300 \in Nat /\ 903000 \in Nat /\ 4 \in 1..7
      /\ 915200 \in Nat /\ 915900 \in Nat /\ 6 \in 1..7
  BY SMT
<1>2. 903000 = 902300 + 700 /\ 915900 = 915200 + 700
  BY SMT
<1>3. ChannelsLegal(R2!US_uplink_channels, 0..4)
  BY <1>1, <1>2, FixedUplinksLegal, SMT DEF R2!US_uplink_channels
<1>4. ChannelsLegal(R2!AU_uplink_channels, 0..6)
  BY <1>1, <1>2, FixedUplinksLegal, SMT DEF R2!AU_uplink_channels
<1>5. /\ MasksCover(R2!FixedPlanMasks, R2!US_uplink_channels)
      /\ MasksCover(R2!FixedPlanMasks, R2!AU_uplink_channels)
  BY FixedMasks DEF R2!US_uplink_channels, R2!AU_uplink_channels
<1> QED
  BY <1>3, <1>4, <1>5

\* What SubBandLegal asks for beside.
Whole(b) ==
  {"class", "datarates", "uplink_channels", "masks", "sizes", "dwell"} \subseteq DOMAIN b

LEMMA USLegal ==
  ASSUME NEW b, b \in {R2!US902_928, R3!US902_928}
  PROVE  Legal(b) /\ Whole(b)
<1>1. /\ b.class = "US902_928" /\ b.dwell = FALSE
      /\ b.datarates = R2!US_datarates
      /\ b.uplink_channels = R2!US_uplink_channels
      /\ b.masks = R2!FixedPlanMasks /\ b.sizes = R2!US_sizes
      /\ Whole(b)
  <2>1. CASE b = R2!US902_928
    BY <2>1 DEF R2!US902_928, Whole
  <2>2. CASE b = R3!US902_928
    BY <2>2, SameRates, SameChannels, SameTables
       DEF R3!US902_928, R3!Former!US902_928, Whole
  <2> QED
    BY <2>1, <2>2
<1>2. SizesLegal(b) /\ UpRates(b.class) = 0..4
  BY <1>1, AllSizes DEF UpRates
<1> QED
  BY <1>1, <1>2, RatesAreLegal, FixedPlansLegal DEF Legal

LEMMA AULegal ==
  ASSUME NEW b, b \in {R2!AU915_928, R3!AU915_928}
  PROVE  Legal(b) /\ Whole(b)
<1>1. /\ b.class = "AU915_928"
      /\ \/ b.dwell = FALSE /\ b.sizes = R2!AU_sizes
         \/ b.dwell = TRUE /\ b.sizes = R3!AU_sizes
      /\ b.datarates = R2!AU_datarates
      /\ b.uplink_channels = R2!AU_uplink_channels
      /\ b.masks = R2!FixedPlanMasks
      /\ Whole(b)
  <2>1. CASE b = R2!AU915_928
    BY <2>1 DEF R2!AU915_928, Whole
  <2>2. CASE b = R3!AU915_928
    BY <2>2, SameRates, SameChannels, SameTables
       DEF R3!AU915_928, R3!Former!AU915_928, Whole
  <2> QED
    BY <2>1, <2>2
<1>2. SizesLegal(b) /\ UpRates(b.class) = 0..6
  BY <1>1, AllSizes DEF UpRates
<1> QED
  BY <1>1, <1>2, RatesAreLegal, FixedPlansLegal DEF Legal

LEMMA DynamicLegal ==
  ASSUME NEW b, b \in {R2!EU863_870, R3!EU863_870, R2!AS923, R3!AS923_2}
  PROVE  Legal(b)
<1>1. /\ \/ /\ b.class = "EU863_870" /\ b.dwell = FALSE /\ b.sizes = R2!EU_sizes
            /\ b.datarates = R2!EU_datarates /\ b.uplink_channels = R2!EU_channels
         \/ /\ b.class = "AS923" /\ b.dwell = TRUE /\ b.sizes = R2!AS_sizes
            /\ b.datarates = R2!AS_datarates /\ b.uplink_channels = R2!AS_channels
         \/ /\ b.class = "AS923_2" /\ b.dwell = TRUE /\ b.sizes = R3!AS_sizes
            /\ b.datarates = R2!AS_datarates
            /\ b.uplink_channels = R3!calculate_channels(R3!FREQ_OFFSET_KHZ)
      /\ b.masks = R2!DynamicMasks
  <2>1. CASE b = R2!EU863_870
    BY <2>1 DEF R2!EU863_870
  <2>2. CASE b = R3!EU863_870
    BY <2>2, SameRates, SameChannels, SameTables
       DEF R3!EU863_870, R3!Former!EU863_870
  <2>3. CASE b = R2!AS923
    BY <2>3 DEF R2!AS923
  <2>4. CASE b = R3!AS923_2
    BY <2>4, SameRates, SameTables DEF R3!AS923_2
  <2> QED
    BY <2>1, <2>2, <2>3, <2>4
<1>2. SizesLegal(b) /\ UpRates(b.class) = 0..7
  BY <1>1, AllSizes DEF UpRates
<1>3. ChannelsLegal(b.uplink_channels, 0..7)
  <2>1. R3!FREQ_OFFSET_KHZ \in Int
    BY DEF R3!FREQ_OFFSET_KHZ
  <2>2. ChannelsLegal(R3!calculate_channels(R3!FREQ_OFFSET_KHZ), 0..7)
    BY <2>1, AS2ChannelsLegal
  <2> QED
    BY <1>1, <2>2, EUChannelsLegal, ASChannelsLegal
<1>4. MasksCover(b.masks, b.uplink_channels)
  <2>1. DOMAIN b.uplink_channels \subseteq 0..8
    BY <1>1 DEF R2!EU_channels, R2!AS_channels, R3!calculate_channels
  <2> QED
    BY <1>1, <2>1, DynamicMasksCover
<1>5. RatesLegal(b.datarates, 0..7)
  BY <1>1, RatesAreLegal
<1> QED
  BY <1>2, <1>3, <1>4, <1>5 DEF Legal

LEMMA AvailableLegal ==
  ASSUME NEW rp \in DOMAIN RP_AVAILABLE, NEW name \in DOMAIN RP_AVAILABLE[rp]
  PROVE  Legal(RP_AVAILABLE[rp][name])
<1>1. /\ Legal(R2!US902_928) /\ Legal(R2!US902_928A) /\ Legal(R2!US902_928AB)
      /\ Legal(R3!US902_928)
      /\ Legal(R2!AU915_928) /\ Legal(R2!AU915_928A)
      /\ Legal(R3!AU915_928) /\ Legal(R3!AU915_928A)
  BY USLegal, AULegal, SubBandLegal
     DEF Whole, R2!US902_928A, R2!US902_928AB, R2!AU915_928A, R3!AU915_928A
<1>2. Legal(R3!US902_928A) /\ Legal(R3!US902_928AB)
  <2>1. Legal(R3!Former!US902_928) /\ Whole(R3!Former!US902_928)
    BY USLegal DEF R3!US902_928
  <2> QED
    BY <2>1, SubBandLegal DEF Whole, R3!US902_928A, R3!US902_928AB,
       R3!Former!US902_928A, R3!Former!US902_928AB
<1>3. CASE rp = "RP2_1_0_2"
  BY <1>1, <1>3, DynamicLegal DEF RP_AVAILABLE, R2!BANDS_AVAILABLE
<1>4. CASE rp = "RP2_1_0_3"
  BY <1>1, <1>2, <1>4, DynamicLegal DEF RP_AVAILABLE, R3!BANDS_AVAILABLE
<1> QED
  BY <1>3, <1>4 DEF RP_AVAILABLE

\* The loop returns the first.
LEMMA FirstIs ==
  ASSUME NEW S, S \subseteq Nat, NEW x \in S, \A y \in S : x <= y
  PROVE  First(S) = x
<1>1. \A z \in S : (\A y \in S : z <= y) => z = x
  OBVIOUS
<1>2. S # {}
  OBVIOUS
<1> QED
  BY <1>1, <1>2 DEF First, Min

LEMMA RateFoundAgain ==
  ASSUME NEW b, Legal(b), NEW rate \in UpRates(b.class)
  PROVE  RateOf(b, rate) = rate
<1> DEFINE r == b.datarates[rate]
           those == {i \in DOMAIN b.datarates :
                       /\ b.datarates[i].modulation = "lora"
                       /\ b.datarates[i].spreading = r.spreading
                       /\ b.datarates[i].bandwidth = r.bandwidth}
<1>1. CASE r.modulation = "lora"
  <2>1. RateOf(b, rate) = First(those)
    BY <1>1 DEF RateOf, get_datarate_by_sf_bw
  <2>2. those \subseteq 0..15 /\ rate \in those /\ rate \in 0..7
    BY <1>1 DEF Legal, RatesLegal
  <2>3. ASSUME NEW s \in those PROVE rate <= s
    <3>1. s \notin 0..(rate - 1)
      BY <1>1 DEF Legal, RatesLegal
    <3> QED
      BY <2>2, <3>1
  <2> HIDE DEF those
  <2>4. those \subseteq Nat
    BY <2>2
  <2> QED
    BY <2>1, <2>2, <2>3, <2>4, FirstIs
<1>2. CASE r.modulation # "lora"
  BY <1>2 DEF RateOf
<1> QED
  BY <1>1, <1>2

LEMMA ChannelFoundAgain ==
  ASSUME NEW b, Legal(b), NEW i \in DOMAIN b.uplink_channels,
         NEW k \in DOMAIN b.uplink_channels[i].datarates,
         b.datarates[b.uplink_channels[i].datarates[k]].modulation = "lora"
  PROVE  get_uplink_channel_by_freq_khz(b, b.uplink_channels[i].frequency_khz) = i
<1> DEFINE khz == b.uplink_channels[i].frequency_khz
           those == {j \in DOMAIN b.uplink_channels :
                       b.uplink_channels[j].frequency_khz = khz}
<1>1. get_uplink_channel_by_freq_khz(b, khz) = First(those)
  BY DEF get_uplink_channel_by_freq_khz
<1>2. those \subseteq 0..71 /\ i \in those
  BY DEF Legal, ChannelsLegal
<1>3. b.uplink_channels[i].datarates # << 7 >>
  <2> SUFFICES ASSUME b.uplink_channels[i].datarates = << 7 >> PROVE FALSE
    OBVIOUS
  <2>1. b.uplink_channels[i].datarates[k] = 7
    OBVIOUS
  <2>2. 7 \in UpRates(b.class)
    BY <2>1 DEF Legal, ChannelsLegal
  <2> QED
    BY <2>1, <2>2 DEF Legal, RatesLegal
<1>4. ASSUME NEW j \in those PROVE i <= j
  <2>1. ~ j < i
    BY <1>3 DEF Legal, ChannelsLegal
  <2> QED
    BY <1>2, <2>1
<1> HIDE DEF those
<1>5. those \subseteq Nat
  BY <1>2
<1> QED
  BY <1>1, <1>2, <1>4, <1>5, FirstIs

\* The rule of AS923-2 keeps to DR2 and above under the dwell time, and is the
\* table of its comment otherwise.
LEMMA LowerOf ==
  ASSUME NEW offset \in 0..7
  PROVE  ((offset % 6) + (offset \div 6)) * (IF (offset \div 6) % 2 = 0 THEN 1 ELSE -1)
           = IF offset <= 5 THEN offset ELSE 5 - offset
<1>1. CASE offset <= 5
  <2>1. offset % 6 = offset /\ offset \div 6 = 0 /\ 0 % 2 = 0
    BY <1>1
  <2> QED
    BY <1>1, <2>1
<1>2. CASE offset \in 6..7
  <2>1. offset % 6 = offset - 6 /\ offset \div 6 = 1 /\ 1 % 2 # 0
    BY <1>2
  <2> QED
    BY <1>2, <2>1
<1> QED
  BY <1>1, <1>2

LEMMA DwellRate ==
  ASSUME NEW b, b.class = "AS923_2", NEW rate \in Int, NEW offset \in 0..7,
         NEW dwell_time \in {0, 1}
  PROVE  get_downlink_datarate(b, rate, offset, dwell_time)
           = LET lower == IF offset <= 5 THEN offset ELSE 5 - offset
                 rate7 == IF 7 <= rate - lower THEN 7 ELSE rate - lower
                 low == IF dwell_time = 0 THEN 0 ELSE 2
             IN  IF low <= rate7 THEN rate7 ELSE low
<1> DEFINE lower == IF offset <= 5 THEN offset ELSE 5 - offset
           rate7 == IF 7 <= rate - lower THEN 7 ELSE rate - lower
           low == IF dwell_time = 0 THEN 0 ELSE 2
<1>1. get_downlink_datarate(b, rate, offset, dwell_time)
        = R3!AS_get_downlink_datarate(rate, offset, dwell_time)
  BY DEF get_downlink_datarate
<1>2. R3!AS_get_downlink_datarate(rate, offset, dwell_time)
        = Max({low, Min({7, rate - lower})})
  BY LowerOf, SameClamps, Zenon DEF R3!AS_get_downlink_datarate
<1>3. lower \in Int /\ low \in Int /\ rate - lower \in Int
  OBVIOUS
<1> HIDE DEF lower, low
<1>4. Min({7, rate - lower}) = rate7
  BY <1>3, MinOfTwo
<1>5. rate7 \in Int
  BY <1>3
<1>6. Max({low, rate7}) = IF low <= rate7 THEN rate7 ELSE low
  BY <1>3, <1>5, MaxOfTwo
<1> QED
  BY <1>1, <1>2, <1>4, <1>6 DEF lower, low

-----------------------------------------------------------------------------
(* The answers                                                             *)

\* The uplink is one of band b.
Sent(b, u) ==
  /\ u.sent.channel \in DOMAIN b.uplink_channels
  /\ u.sent.frequency_khz = b.uplink_channels[u.sent.channel].frequency_khz
  /\ \E k \in DOMAIN b.uplink_channels[u.sent.channel].datarates :
       u.sent.rate = b.uplink_channels[u.sent.channel].datarates[k]

LEMMA RequestLegal ==
  ASSUME Answered, band # None
  PROVE  Legal(band) /\ Sent(band, uplink)
<1>1. PICK rp \in DOMAIN RP_AVAILABLE, name \in BandNames : uplink \in Requests(rp, name)
  BY DEF Answered
<1>2. /\ uplink.rp = rp /\ uplink.name = name
      /\ band = get_band_by_name(name, rp)
      /\ uplink.sent \in UplinksOf(band)
  BY <1>1 DEF Requests, band
<1>3. Legal(band)
  <2>1. name \in DOMAIN RP_AVAILABLE[rp] /\ band = RP_AVAILABLE[rp][name]
    BY <1>2 DEF get_band_by_name
  <2> QED
    BY <2>1, AvailableLegal
<1>4. Sent(band, uplink)
  BY <1>2 DEF UplinksOf, Sent
<1> QED
  BY <1>3, <1>4

LEMMA SentLegal ==
  ASSUME NEW b, Legal(b), NEW u, Sent(b, u)
  PROVE  /\ u.sent.rate \in UpRates(b.class)
         /\ datarate_index_is_used(b.uplink_channels[u.sent.channel], u.sent.rate)
         /\ RateOf(b, u.sent.rate) = u.sent.rate
         /\ b.datarates[u.sent.rate].modulation = "lora" =>
              get_uplink_channel_by_freq_khz(b, u.sent.frequency_khz) = u.sent.channel
<1>1. PICK k \in DOMAIN b.uplink_channels[u.sent.channel].datarates :
        u.sent.rate = b.uplink_channels[u.sent.channel].datarates[k]
  BY DEF Sent
<1>2. /\ u.sent.rate \in UpRates(b.class)
      /\ datarate_index_is_used(b.uplink_channels[u.sent.channel], u.sent.rate)
  BY <1>1 DEF Legal, ChannelsLegal, Sent
<1> QED
  BY <1>1, <1>2, RateFoundAgain, ChannelFoundAgain DEF Sent

\* The invariant: what has been answered is what the methods return for this
\* uplink, and there was a size to return.
Replied ==
  /\ step \in {"asked", "BandError", "band"} => found = None
  /\ step \notin {"asked", "BandError", "band"} =>
       /\ found.rate = uplink.sent.rate
       /\ band.datarates[found.rate].modulation = "lora" =>
            found.channel = uplink.sent.channel
  /\ step \notin {"asked", "BandError", "band", "found"} =>
       rx1.rate = get_downlink_datarate(band, found.rate, uplink.settings.offset,
                                        uplink.settings.dwell_time)
  /\ step # "KeyError"
  /\ step = "filled" =>
       rx1.size = get_max_payload_size(band, rx1.rate, uplink.settings.dwell_time)

\* The window's data rate is one for which the class has rules.
LEMMA WindowRate ==
  ASSUME Answered, Replied, step \notin {"asked", "BandError", "band", "found"}
  PROVE  rx1.rate \in Rx1Rates(band.class)
<1>1. Sound(band) /\ Uplink(band, uplink)
  BY BandSound DEF Answered
<1>2. found.rate \in Int
  BY <1>1 DEF Replied, Uplink
<1> QED
  BY <1>1, <1>2, DatarateClamped DEF Replied, Sound, Uplink

LEMMA RepliedStep == Answered /\ Replied /\ [BandNext]_bandVars => Replied'
<1> SUFFICES ASSUME Answered, Replied, [BandNext]_bandVars
             PROVE  Replied'
  OBVIOUS
<1>1. CASE GetBand
  BY <1>1 DEF GetBand, Replied
<1>2. CASE FindUplink
  <2>1. band' = band /\ band # None /\ uplink' = uplink /\ step' = "found"
    BY <1>2 DEF FindUplink, band, Answered
  <2>2. Legal(band) /\ Sent(band, uplink)
    BY <2>1, RequestLegal
  <2>3. /\ found'.rate = RateOf(band, uplink.sent.rate)
        /\ found'.channel = get_uplink_channel_by_freq_khz(band, uplink.sent.frequency_khz)
    BY <1>2 DEF FindUplink
  <2> QED
    BY <2>1, <2>2, <2>3, SentLegal DEF Replied
<1>3. CASE OpenRx1
  <2>1. band' = band /\ uplink' = uplink /\ found' = found /\ step' = "opened"
    BY <1>3 DEF OpenRx1, band
  <2>2. rx1'.rate = get_downlink_datarate(band, found.rate, uplink.settings.offset,
                                          uplink.settings.dwell_time)
    BY <1>3 DEF OpenRx1
  <2> QED
    BY <1>3, <2>1, <2>2 DEF OpenRx1, Replied
<1>4. CASE FillRx1
  <2>1. band' = band /\ uplink' = uplink /\ found' = found /\ step = "opened"
    BY <1>4 DEF FillRx1, band
  <2>2. rx1.rate \in DOMAIN band.sizes
    <3>1. band # None
      BY <2>1 DEF Answered
    <3> QED
      BY <2>1, <3>1, RequestLegal, WindowRate DEF Legal, SizesLegal
  <2>3. /\ rx1' = [rx1 EXCEPT !.size =
                     get_max_payload_size(band, rx1.rate, uplink.settings.dwell_time)]
        /\ step' = "filled"
    BY <1>4, <2>2 DEF FillRx1
  <2>4. /\ rx1'.rate = rx1.rate
        /\ rx1'.size = get_max_payload_size(band, rx1.rate, uplink.settings.dwell_time)
    BY <2>1, <2>3 DEF Answered
  <2> QED
    BY <2>1, <2>3, <2>4 DEF Replied
<1>5. CASE UNCHANGED bandVars
  BY <1>5 DEF bandVars, Replied, band
<1> QED
  BY <1>1, <1>2, <1>3, <1>4, <1>5 DEF BandNext

LEMMA RepliedInit == BandInit => Replied
BY DEF BandInit, Replied

LEMMA BandInvariant == BandSpec => [](Answered /\ Replied)
BY AnsweredInit, AnsweredStep, RepliedInit, RepliedStep, PTL DEF BandSpec

\* SendingLegal: for every band of both revisions, a device may use each data
\* rate on each channel that its class gives it, and the table of the channel
\* masks has a range for that channel.
THEOREM SendingLegalHolds == BandSpec => []SendingLegal
<1>1. Answered => SendingLegal
  <2> SUFFICES ASSUME Answered, step = "band"
               PROVE  LET rate == band.datarates[uplink.sent.rate]
                          mask == band.masks[uplink.sent.channel \div 16]
                      IN  /\ allowed_for_uplink(rate)
                          /\ rate.modulation # "rfu"
                          /\ uplink.sent.rate \in DOMAIN band.sizes
                          /\ mask.type = "range"
                          /\ uplink.sent.channel \in mask.start .. mask.end
    BY DEF SendingLegal
  <2>1. Legal(band) /\ Sent(band, uplink)
    BY RequestLegal DEF Answered
  <2>2. uplink.sent.rate \in UpRates(band.class)
    BY <2>1, SentLegal
  <2>3. /\ allowed_for_uplink(band.datarates[uplink.sent.rate])
        /\ band.datarates[uplink.sent.rate].modulation # "rfu"
    BY <2>1, <2>2 DEF Legal, RatesLegal
  <2>4. uplink.sent.rate \in DOMAIN band.sizes
    BY <2>1, <2>2 DEF Legal, SizesLegal
  <2>5. LET mask == band.masks[uplink.sent.channel \div 16] IN
        mask.type = "range" /\ uplink.sent.channel \in mask.start .. mask.end
    BY <2>1 DEF Legal, MasksCover, Sent
  <2> QED
    BY <2>3, <2>4, <2>5
<1> QED
  BY <1>1, BandInvariant, PTL

\* UplinkFound: the first channel with the frequency and the first data rate
\* with the parameters are those that the device used.
THEOREM UplinkFoundHolds == BandSpec => []UplinkFound
<1>1. Answered /\ Replied => UplinkFound
  <2> SUFFICES ASSUME Answered, Replied, found # None
               PROVE  /\ found.rate = uplink.sent.rate
                      /\ band.datarates[found.rate].modulation = "lora" =>
                           /\ found.channel = uplink.sent.channel
                           /\ datarate_index_is_used(
                                band.uplink_channels[found.channel], found.rate)
    BY DEF UplinkFound
  <2>1. step \notin {"asked", "BandError", "band"} /\ band # None
    BY DEF Answered, Replied
  <2> QED
    BY <2>1, RequestLegal, SentLegal DEF Replied
<1> QED
  BY <1>1, BandInvariant, PTL

\* Rx1Carries: whatever the offset and the dwell time, the table has a size for
\* the data rate of the window, of which only AS923 ignores the dwell time.
THEOREM Rx1CarriesHolds == BandSpec => []Rx1Carries
<1>1. Answered /\ Replied => Rx1Carries
  <2> SUFFICES ASSUME Answered, Replied, step = "filled"
               PROVE  \/ rx1.size # None /\ rx1.size >= 11
                      \/ /\ band.class = "AS923" /\ uplink.settings.dwell_time = 1
                         /\ rx1.rate < 2
    BY DEF Rx1Carries, Replied
  <2>1. Legal(band) /\ Sound(band) /\ Uplink(band, uplink)
    BY RequestLegal, BandSound DEF Answered
  <2>2. rx1.rate \in Rx1Rates(band.class) /\ uplink.settings.dwell_time \in {0, 1}
    BY <2>1, WindowRate DEF Uplink
  <2>3. \/ rx1.size \in Int /\ rx1.size >= 11
        \/ /\ uplink.settings.dwell_time = 1 /\ rx1.rate < 2
           /\ band.class \in {"AS923", "AS923_2"}
    BY <2>1, <2>2 DEF Legal, SizesLegal, Replied
  <2>4. ASSUME band.class = "AS923_2", uplink.settings.dwell_time = 1
        PROVE  rx1.rate >= 2
    <3>1. /\ found.rate \in Int /\ uplink.settings.offset \in 0..7
          /\ rx1.rate = get_downlink_datarate(band, found.rate, uplink.settings.offset, 1)
      BY <2>1, <2>4 DEF Uplink, Replied
    <3>2. 1 \in {0, 1}
      OBVIOUS
    <3> QED
      BY <2>4, <3>1, <3>2, DwellRate
  <2>5. CASE rx1.size \in Int /\ rx1.size >= 11
    BY <2>5, InterfaceAssumption
  <2>6. CASE /\ uplink.settings.dwell_time = 1 /\ rx1.rate < 2
             /\ band.class \in {"AS923", "AS923_2"}
    <3>1. rx1.rate \in Int
      BY <2>2, <2>6 DEF Rx1Rates
    <3> QED
      BY <2>4, <2>6, <3>1
  <2> QED
    BY <2>3, <2>5, <2>6
<1> QED
  BY <1>1, BandInvariant, PTL

\* The table, entry by entry.
LEMMA TableEntry ==
  ASSUME NEW rate \in 0..7, NEW offset \in 0..7
  PROVE  Rx1Table[rate + 1][offset + 1]
           = LET lower == IF offset <= 5 THEN offset ELSE 5 - offset
                 rate7 == IF 7 <= rate - lower THEN 7 ELSE rate - lower
             IN  IF 0 <= rate7 THEN rate7 ELSE 0
<1>1. CASE rate \in {0, 1}
  BY <1>1 DEF Rx1Table
<1>2. CASE rate \in {2, 3}
  BY <1>2 DEF Rx1Table
<1>3. CASE rate \in {4, 5}
  BY <1>3 DEF Rx1Table
<1>4. CASE rate \in {6, 7}
  BY <1>4 DEF Rx1Table
<1> QED
  BY <1>1, <1>2, <1>3, <1>4

\* Rx1AsTabled: for every data rate that a channel of AS923-2 has and every
\* offset the arithmetic of get_downlink_datarate is the table of its comment.
THEOREM Rx1AsTabledHolds == BandSpec => []Rx1AsTabled
<1>1. Answered /\ Replied => Rx1AsTabled
  <2> SUFFICES ASSUME Answered, Replied, rx1 # None, band.class = "AS923_2"
               PROVE  rx1.rate = Max({IF uplink.settings.dwell_time = 1 THEN 2 ELSE 0,
                        Rx1Table[found.rate + 1][uplink.settings.offset + 1]})
    BY DEF Rx1AsTabled
  <2> DEFINE offset == uplink.settings.offset
             dwell_time == uplink.settings.dwell_time
             entry == Rx1Table[found.rate + 1][offset + 1]
             lower == IF offset <= 5 THEN offset ELSE 5 - offset
             rate7 == IF 7 <= found.rate - lower THEN 7 ELSE found.rate - lower
             low == IF dwell_time = 1 THEN 2 ELSE 0
  <2>1. step \notin {"asked", "BandError", "band", "found"} /\ band # None
    BY DEF Answered
  <2>2. Legal(band) /\ Sent(band, uplink) /\ Sound(band) /\ Uplink(band, uplink)
    BY <2>1, RequestLegal, BandSound
  <2>3. offset \in 0..7 /\ dwell_time \in {0, 1} /\ found.rate \in 0..7
    <3>1. found.rate \in UpRates(band.class)
      BY <2>1, <2>2, SentLegal DEF Replied
    <3> QED
      BY <2>2, <3>1 DEF Uplink, UpRates
  <2>4. rx1.rate = get_downlink_datarate(band, found.rate, offset, dwell_time)
    BY <2>1 DEF Replied
  <2> HIDE DEF offset, dwell_time
  <2>5. rx1.rate = IF low <= rate7 THEN rate7 ELSE low
    BY <2>3, <2>4, DwellRate
  <2>6. entry = IF 0 <= rate7 THEN rate7 ELSE 0
    BY <2>3, TableEntry
  <2>7. rate7 \in Int /\ low \in {0, 2}
    BY <2>3
  <2> HIDE DEF entry, rate7, low
  <2>8. Max({low, entry}) = IF low <= entry THEN entry ELSE low
    BY <2>6, <2>7, MaxOfTwo
  <2> QED
    BY <2>5, <2>6, <2>7, <2>8 DEF entry, low, offset, dwell_time
<1> QED
  BY <1>1, BandInvariant, PTL
=============================================================================
