# A TLA+ model of the PinePhone Pro LoRa stack

The repository turns a PinePhone Pro with the PineDio LoRa back cover into
either a LoRaWAN **gateway** (a Semtech packet forwarder) or a LoRaWAN **node**
(an OTAA end device).  Both drive one Semtech SX1262 through an ATtiny84 that
bridges I2C to SPI.  This directory holds TLA+ modules that model the parts of
the program with concurrency, failure or state worth checking, the TLC
configurations that check them on small instances, and TLAPS proofs of the most
important results for all instances.

## 1. The system

| part | source (`src/lora/`) | state | operations |
|---|---|---|---|
| I2C bridge | `bridge.py` | the file descriptor; outside it, the ATtiny's circular buffer of MISO bytes | `spi_transfer` (write, read back byte by byte, three attempts), `sync_buffer`, `shutdown`, `close` |
| SX1262 driver | `sx1262.py` | none of its own; the chip's mode, interrupt flags, buffer, base addresses | `init`, `get_irq`, `clear_irq`, `transmit`, `receive` |
| forwarder, radio side | `lora-pkt-fwd.py` | `_txpk_queue`, `_tx_done`, `_stop`, `_last_payload`, `_last_push_ts` | threads `rx-loop` (`_push_loop`), `tx-drain` (`_tx_drain_loop`), the main thread's shutdown |
| forwarder, network side | `lora-pkt-fwd.py` | the socket, `_stat` | threads `udp-rx` (`_rx_thread`), `pull` (`_pull_loop`), `_send*` |
| node | `lora_mac.py`, `lora-node.py` | `dev_nonce`, `joined`, session keys, `frame_counter` | `join`, `send_uplink`, `listen_window` |
| mode switch | `lora-mode`, `install.sh`, two `.service` files | the mode file, the active and enabled units | `set`, `status`, installation, what systemd does |
| MAC commands | `pylorawan/mac_commands.py` | none (pure) | `parse`, `generate` of 26 classes, `MACCommandParser` |
| message codec | `pylorawan/message.py` | none (pure) | `parse`, `generate` of PHY payload, MAC payload, headers, join messages |
| MIC, encryption | `pylorawan/common.py`, `encryption.py` | none (pure) | key stream, MIC blocks, key derivation, addresses |
| regional parameters | `pylorawan/bands/` | the channel list of a band object | data rates, channels, receive windows, frequency checks |

How they interact.  In the gateway role `rx-loop` and `tx-drain` call the same
`SX1262` object, which calls the same `I2CBridge`, **without any lock**; the
main thread calls `bridge.shutdown()` beside them.  `udp-rx` hands downlinks to
`tx-drain` through the list `_txpk_queue`; `tx-drain` tells `rx-loop` through
the event `_tx_done` that reception is to be resumed.  In the node role one
thread does everything.  `lora-mode` starts and stops the two services, whose
processes would otherwise share the bridge.

What is hard about it: the interleaving of the two radio threads on a chip
that is half-duplex and has one set of interrupt flags; a byte stream between
bridge and driver in which nothing says whose answer a byte is; I2C
transactions that fail half way and are retried; deadlines; a process that is
killed at any point; a command line tool that may be interrupted between any
two of its commands.  `PROJECT.json` lists these hazards at their lines.

What makes each part correct:

* bridge - a command gets the bytes that answer it; a call ends; nobody waits
  for bytes that never come;
* forwarder - a chip out of reception is put back; a frame received is pushed
  at most once and unmixed; downlinks are sent in order, one at a time, once
  each unless a failed transfer is retried; `TX_DONE` is attributed to the right
  downlink; the service of a downlink ends;
* mode switch - one radio user at a time; file and units agree after a swap, and
  a swap repairs what went wrong in earlier ones;
* codecs - what was generated is parsed back; damage stays local;
* node - a join ends; nonces and frame counters do not repeat; what is received
  is received in a window that was opened.

## 2. The modules

| module | models |
|---|---|
| `Radio` | the SX1262 as the forwarder uses it: one operator per command of `sx1262.py` that changes the chip, one per thing the chip does by itself (external, from how the code uses it) |
| `Forwarder` (extends `Radio`) | `_push_loop`, `_tx_drain_loop`, the intake of `_rx_thread`, `run`'s shutdown |
| `DownlinkService` | the abstract service of downlinks that `Forwarder` implements (`Service == INSTANCE DownlinkService WITH ...`) |
| `MCForwarder`, `MCBridge` | symmetry sets for TLC |
| `ForwarderProofs` | theorems about `Forwarder` |
| `UdpSession` | the Semtech UDP session: `_send*`, `_pull_loop`, `_rx_thread`, the counters of `_make_stat`, the intake and the end of the queue, the network and the server (external) |
| `UdpSessionProofs` | theorems about `UdpSession` |
| `Bridge` | `I2CBridge` over the ATtiny's buffer |
| `BridgeProofs` | theorems about `Bridge` |
| `LoraMode` | `lora-mode set`, several calls at once, `install.sh`'s mode handling, the units |
| `LoraModeProofs` | theorems about `LoraMode` |
| `Node` (instantiates `Radio`) | the OTAA node: `SX1262.init`, `transmit`, `receive`, `join`, `_wait_for_packet`, `listen_window`, the process and its restarts |
| `NodeProofs` | theorems about `Node` |
| `Fields` | fields of a run of bytes: where they are, taking them out, putting them in |
| `MacCommands` (extends `Fields`) | the MAC command classes and the rounds of their parser |
| `Messages` (extends `Fields`) | `message.py`: every class with its parse and generate |
| `CodecProofs` (extends `MacCommands`, `Messages`) | what `Encode` writes, `Decode` reads; theorems about `MacCommands`; the layouts of `Messages` |
| `Frames` (extends `MacCommands`, `Messages`) | `common.py`, and the way of a frame from its sender through parse, MIC and MAC commands |
| `FramesProofs` (extends `Frames`, `CodecProofs`) | theorems about `Frames` |
| `BandInterface` | data rates, channels, masks and the methods that every band inherits |
| `RP2_1_0_2`, `RP2_1_0_3` (extend `BandInterface`) | the tables and the overridden methods of the bands of the two revisions |
| `Bands` (instantiates both) | what a network server works out for an uplink: band, channel, data rate, first receive window |
| `BandsProofs` | theorems about `Bands` |
| `MCPylorawan` (extends `Frames`, `Bands`) | the library as one state space for TLC |

### Forwarder

An action is one command to the chip together with the Python up to the next
command, so the threads interleave between commands.  `rxpc` and `txpc` say
which command comes next.  `Transfer` is a call of `spi_transfer`: it returns;
or the command was executed but its answer could not be read, so it is sent
again; or it raises, with the command executed or not.  Each command names the
place the thread continues at when the call returns and when it raises, which
is where the `try` blocks of the code show: the `clear_irq` of lines 327, 330
and 337 is in none, so `RxTimeout` and `RxError` end the thread.

The variables `meta`, `payload`, `txcur` are locals of the threads, `queue`,
`txDone`, `lastPayload` are the attributes with the underscore; `rateOk`
abstracts `_last_push_ts` to what line 308 asks of it, and `Cool` is the second
going by.  `heard`, `pushed`, `delivered`, `onAir` and `air` are histories, for
the properties, and `sends` counts the SetTx of the downlink in service.  A
frame is a model value; the length that
`GetRxBufferStatus` reports is identified with the frame it belongs to, so that
a payload is a pair: the frame whose length was used and the frame whose bytes
were read.  `_tx_done.is_set()` followed by `clear()` is one action: a `set()`
between the two has the effect of one before them.

Constants choose what the environment may do: `Garbled` lets every value that
is read back be wrong (the bridge's threads take each other's bytes, see
`Bridge`), `MaxFaults` bounds I2C faults, `Timely` says that a transmission and
its polls fit into the deadline of five seconds, `Interrupts` allows ^C (the
`finally` clause) and SIGTERM (no handler: the process just ends).

### UdpSession

The threads as the socket sees them; what the radio does between their calls is
`Forwarder`, which has the same `_txpk_queue` from its other side.  A call of
`_send` hands its datagram to the network or raises (`Sends`, `SendRaises`).
Every `+=` on a counter is an action, since `rx-loop` and `tx-drain` run between
two of them, and so is the copy of the counters in `_make_stat`.  `Dispatch` is
what `_rx_thread` does with a datagram: a `PULL_RESP` may have a good `txpk`,
none, be no JSON, or be JSON that has no `get`, which raises outside the `try`
and ends the thread.  `Arrive` is the network: what it delivers is any answer
that the server may have given so far, late, never, repeated or in another
order, or noise; the two kinds of acknowledgement are one, since the code treats
them alike.  `ListenTop` is the test of `_stop` and the call of `recvfrom`,
`Receive` its return: `main`'s `close()` does not wake a thread that is blocked
in it, so that a last datagram may still be taken.  `arrivals`, `queued` and
`pushed` are histories.

What the code does and the model therefore leaves out: tokens are drawn and
never compared, `_send_txack` is never called, everything goes to `port_up` and
is received on one socket, `STAT_INTERVAL_S` is not used, and `rxfw` counts the
datagrams sent and not those acknowledged.

### Bridge

One action per I2C transaction.  The ATtiny answers every SPI byte with a byte
in its buffer and every I2C read takes the oldest byte; each byte carries, as a
history, the call and the position that it answers.  A read of an empty buffer
returns junk.  `Abandon` is the end of an attempt, which leaves in the buffer
what was not read.  `alone` records whether a call overlapped with another.

The size of the ATtiny's buffer is not in the repository (`bridge.py:7` calls it
circular), so that here nothing in it is overwritten.  What abandoned attempts
leave stays until the next sync or shutdown; a real buffer that filled up with it
is outside what the properties say.

### LoraMode

One action per command of the tool, with its real effects, for each of the
`Calls` that may be in progress together, beside `install.sh`: nothing keeps two
of them apart.  Every command may fail on its own (`Failures`): `systemctl stop`
and `systemctl start` are run with `check=False`, so that a failure of sudo or of
systemctl goes unnoticed (`Unnoticed`) and the call goes on to its next command.
`write_mode`'s `tee` gets `147147` on its standard input because `run()` feeds
that to every sudo; whatever became of it, `open()` comes next, which only
`root` can do: `user` ends there with an exception (`SetOpenRaises`).
`Interrupts` ends a call or an installation between any two commands, `set -e`
ends an installation at the first that fails (`InstallEnds`), `Fail` and
`Restart` are a service that crashes and systemd's `Restart=on-failure`, `Boot`
starts what is enabled.

Four histories record what there is to rely on.  `unsure`: a command of this
call failed, or what it stopped has been started by another since.  `alone`: no
other call, and no installation, has run beside it.  `blind`: the last start was
of one that was not sure of its stop.  `doubt`: something has gone wrong since a
call that was alone and sure came to its end.

### Node

One action per command to the chip, for one process of `lora-node.py` (or of
another program that uses the class as a library, constant `Library`, which may
go on after a failed join and call `listen_window`).  `pc` is the place in
`init`, `transmit`, `_wait_for_packet` and `receive`; an exception ends the
program except in the one place where `transmit` catches it (`TxClear`).
`Kill` and `Start` are the process ending anywhere and systemd starting the
next one, which begins on the chip as it was left; `Init` is the chip as the
gateway may have left it.  A command whose answer could not be read is executed
again: for SetTx this means a chip that transmits already, the exception that
`StandbyBeforeTx` states.  `Expire` lets the deadlines of `_wait_for_packet` and
`receive` pass, `ChipTimeout` is the timer of SetRx and SetTx, `timed` whether
it runs.  `Timely` says that a transmission is over within the 1.8 s that
`transmit` sleeps, `Garbled` that readings may be wrong, the constant 0xa6a6 of
the docstring included, and `NonceMod` stands for 65536.  `ours`, `armed` and
`onAir` are histories.

`PHYPayload.parse` has no class for a JoinAccept, so `join` never returns True
and what follows a join in the code is not reached; it is not modelled.

### Fields, MacCommands, Messages, Frames

A class is the list of its fields, from which `Decode` and `Encode` get its
parse and its generate; MAC command classes have two lists, since the code has
the shifts twice.  A parse of `Messages` is the set of what it may return, empty
when it raises.  Numbers that the checker's integers cannot hold (addresses,
EUIs) are sequences of digits.

A behaviour of `Frames` is one frame.  Its sender is another implementation of
LoRaWAN, counting with 32 bits (`Wire`); on the way a byte changes or the end is
lost (`Damaged`); the receiver parses (`ParsePHYPayload`, `ParseJoinAccept`,
`ParseError`), may put the upper half of the counter into the parsed frame
(`SetCounter`, what the setter of `f_cnt` is for), verifies the MIC (`Verify`),
extracts the commands (`Extract`) and runs `MACCommandParser.parse`, one action
for one round of its loop (`Create`, `CreateError`, `End` of `MacCommands`).
`generate_mic_mac_payload` has one byte for the length of the message and raises
`ValueError` beyond 255 (`common.py:57`): a radio frame is never longer, and
neither is one of the model.

AES and CMAC are library code.  The model has small functions in their place
with what the code relies on: for each key a permutation of blocks, with its
inverse, in which every byte depends on every other, and a MIC that a change of
one byte changes.  Nothing is said about the strength of either.

### BandInterface, RP2_1_0_2, RP2_1_0_3, Bands

A class is a record of its tables; a subclass that changes a table is an
`EXCEPT` of its parent, as `RP2_1_0_3` takes over the files that are the same in
both revisions.  A data rate is named by its index where the code passes the
object.  A behaviour of `Bands` is one uplink on any channel and data rate of
any band, from a device with any offset and dwell time: `GetBand`,
`FindUplink`, `OpenRx1` and `FillRx1` are the calls a server makes for it.

What the tables show on the way, without a line of the repository that says
otherwise: `get_ch_mask_cntl_by_ch_index` (`interface.py`) subscripts an object
and raises `TypeError` for every index in its table, and nothing calls it
(`SendingLegal` is about the table, not about that function);
AS923 of RP2-1.0.2 takes a dwell time and ignores it, as its TODO says, and so
can pick a data rate whose payload size is `None`; channels 5 and 8 of Europe
share 867700 kHz, so that the lookup by frequency finds the first for both; the
default of the second receive window of North America, 923300 kHz, is none of
its downlink channels, which the code lets start at 923000 kHz (nothing computes
with that default).

`get_band_by_name` takes the names of the bands from a `@classmethod` over a
`@property` (`interface.py:216-218`), which Python supports from 3.9 to 3.12
only.  From 3.13 on (the repository's `pyvenv.cfg` says 3.14.7) the keys of
`BANDS_AVAILABLE` are method objects, no name is found, and every call raises
`BandError`.  `Bands` models the versions in which it works; what the properties
say of the tables and of the other methods does not depend on it.

`MCPylorawan` runs the two uses of the library side by side: a behaviour takes
a frame through the codec or an uplink through the bands.

## 3. The runs

| run | what it shows |
|---|---|
| `fwd_core` | `TypeOK`, `NeverStranded`, `DoneIsOwn`, `NoDuplicatePush`: all interleavings of three receptions (of two frames, corrupt ones included) and two downlinks |
| `fwd_live` | `ServedInOrder` (refinement of `DownlinkService`: in order, one at a time, on the air once, and again only by the retry of a transfer that failed), and under fairness `EventuallyListening`, `EveryDownlinkServed`, `RestoredByDownlink`: an I2C fault at any command, garbled readings, an undecodable downlink, missed deadlines, ^C and SIGTERM at any point |
| `udp_session` | `TypeOK`, `ReportsCount`, `QueuedInOrder`, and under fairness `KeepaliveGoesOn`, `ArrivalsHandled`: a network that loses, repeats and reorders, every kind of `PULL_RESP`, a `sendto` that raises, the process stopped or killed anywhere |
| `bridge_shared` | `TypeOK`, `NeverStarve`, `OwnIfAlone`: two threads, the main thread, three commands, two faults |
| `mode_swap` | `TypeOK`, `StopBeforeStart`, `FileIsTruth`: two calls at once of root and of a user, any command failing, interrupts, failing services, reboots, new installations |
| `node` | `TypeOK`, `InitClean`, `SentAsWritten`, `StandbyBeforeTx`, and `CallsEnd`, `QuietAtLast` under fairness: a fault at any command, garbled readings, late transmissions, kills and restarts anywhere |
| `pylorawan` | the codec: `RoundTrip`, `PrefixParsed` (every class, every field at the ends of its range, every cut), `Authentic`, `Regenerates`, `Delivered` (headers and join messages at the ends of their ranges, every byte damaged, every cut); the bands: `SendingLegal`, `UplinkFound`, `Rx1Usable`, `Rx1Carries`, `Rx1AsTabled` (every band, channel, data rate, offset and dwell time) |
| `fwd_v_half_duplex` | *violated*: "Stops RX while a TX is being performed" |
| `bridge_v_threads` | *violated*: a command returns its own answer (two threads, no fault) |
| `mode_v_swap` | *violated*: `set` swaps the running unit |
| `node_v_window` | *violated*: "Open RX window, wait for packet" |
| `node_v_accept` | *violated*: "Returns True if join succeeded" |

The last five refute what a comment or docstring of the repository says; the
"findings" of `PROJECT.json` quote the lines.

**Bounds.**  Three receptions let a frame be received before, during and after
the handling of another, which is as far as one round of `rx-loop` reaches;
two downlinks let the second meet everything the first leaves behind (flag,
event, base address, rx-loop in the middle of its resume).  One fault is enough
to reach every error path, and `Forwarder`'s safety is proved for any number.
In `mode_swap`
two calls can undo each other's stop and start, and others begin whenever one has
ended.  Three bridge commands of two threads let two overlap and a third find what they
left; two faults with `Retries = 2` exhaust the attempts.  One-byte commands
are enough there because the read phase of two one-byte commands already mixes;
`bridge_v_threads` has two-byte ones.  `fwd_live` has no receptions (`MaxRx` is
0): all that a reception changes for the threads is what they read, and its
readings are garbled, so that `RX_DONE` and every other flag is seen at any
time; `NoDuplicatePush`, which counts receptions, is checked in `fwd_core` and
proved for all bounds.  In `udp_session` two arrivals let a good response come
before and after one that is dropped or ends the thread, and let a duplicate
come; two pushes let a statistic follow another with both threads counting in
between; one `sendto` that raises hits any of the calls.  `SyncMax` is at least `MaxStale`, as 256
is more than the ATtiny's buffer holds; `MaxCalls`, `MaxRx`, `MaxDown` bound
counters and histories only.  In `node`, two nonces tell a frame from its
predecessor and from the next one after the wrap; one fault reaches every error
path, and the safety properties are proved for any number.  In `pylorawan` a field
takes the ends of its range and a value between; two commands have one boundary
between them, and a command parsed in the wrong place shows there; damage is one
byte changed by each of eight differences (every single bit among them), at
every position of one frame of each kind, and every length.  The bands have no bound:
every channel, data rate, offset and dwell time of every band of both revisions
is an initial state.

**Deadlock** is checked in `fwd_core`, `mode_swap` and the `node` runs, where
polls, calls and restarts always have a step; the other runs end in states where the
process has exited, a thread has ended or the bounded inputs are used up.

**Fairness** (`fwd_live`): `WF_vars(RxLoop)` and
`WF_vars(TxProgress)`, since the interpreter runs every runnable thread again
and each of their waits has a time limit; `WF_vars(AirTxEnd)`, since the chip
ends what it transmits unless it is told to do something else.  `TxProgress` is
tx-drain without its polls: with garbled readings a poll may return the awaited
flag by chance, and what is to end the wait is the deadline, never luck.  Nothing
is assumed of the network, of the end devices, of faults or of the stop.  In
`udp_session`: `WF_vars(Pull)` and `WF_vars(Listen)`, two threads that the
interpreter runs again, whose `recvfrom` returns what has reached the socket;
nothing of the other threads, the network or the server.  In `node`:
`WF_vars(Program)`, one thread that the system schedules; `WF_vars(Expire(d))`,
since time passes; `WF_vars(ChipTimeout)`, the chip's own timer.  Nothing is
assumed of restarts, kills, faults or of frames on the air.

## 4. What is proved

| theorem | module |
|---|---|
| `TypeCorrect == Spec => []TypeOK` | `ForwarderProofs` |
| `NeverStrandedHolds == Spec => []NeverStranded` | `ForwarderProofs` |
| `DoneIsOwnHolds == Spec => []DoneIsOwn` | `ForwarderProofs` |
| `ServedInOrderHolds == Spec => ServedInOrder` | `ForwarderProofs` |
| `NoDuplicatePushHolds == Spec => []NoDuplicatePush` | `ForwarderProofs` |
| `TypeCorrect`, `ReportsCountHolds`, `QueuedInOrderHolds` | `UdpSessionProofs` |
| `TypeCorrect`, `NeverStarveHolds`, `OwnIfAloneHolds` | `BridgeProofs` |
| `TypeCorrect`, `StopBeforeStartHolds`, `FileIsTruthHolds` | `LoraModeProofs` |
| `TypeCorrect`, `InitCleanHolds`, `SentAsWrittenHolds`, `StandbyBeforeTxHolds` | `NodeProofs` |
| `Rx1UsableHolds`, `SendingLegalHolds`, `UplinkFoundHolds`, `Rx1CarriesHolds`, `Rx1AsTabledHolds` | `BandsProofs` |
| `RoundTripHolds == ParserSpec => []RoundTrip` | `CodecProofs` |
| `PrefixParsedHolds == ParserSpec => []PrefixParsed` | `CodecProofs` |
| `OffersArrive`: what the run takes are inputs of `ParserSpec` | `CodecProofs` |
| `RegeneratesHolds == ReceiverSpec => []Regenerates` | `FramesProofs` |
| `DeliveredHolds == SenderSpec => []Delivered` | `FramesProofs` |
| `AuthenticIntact == SenderSpec => [](Intact => Authentic)` | `FramesProofs` |
| `CommandsReach == CarrierSpec => [](RoundTrip /\ PrefixParsed)` | `FramesProofs` |
| `FramesHold`, `OfferedReach`: the same of the frames the run takes | `FramesProofs` |

Each rests on the named assumptions on the constants of its module and on
nothing else.  They hold for any sets of frames, threads and responses, any
bounds, and with garbling, faults, missed deadlines and interrupts allowed or
not.

*Forwarder.*  `IndInv` is `TypeOK` strengthened by three facts: the locals of a
thread are set where it uses them (`LocalsSet`), the queue is what is left of
the deliveries (`QueueIsSuffix`), and nothing is on the air that was not taken
(`OnAirTaken`).  `NeverStranded` is inductive relative to it: the handover
works because tx-drain sets the event *after* its last command and rx-loop
clears it *before* its own, so that an event consumed too early is always
followed by one more; each action either keeps a witness of `ResumeDue` or puts
the chip into reception.  `DoneIsOwn` needs `DoneInv`: with exact readings the
TX_DONE flag, or the poll that saw it, belongs to the downlink in service,
because the deadline cannot pass while a transmission is on the air or its flag
is set, and every way out of the wait clears all flags.  The refinement maps
`delivered`, `Taken`, `txcur`, `sends` and `faults` to the variables of
`DownlinkService`, and `settled` to tx-drain being past its SetTx (`~Unsent`);
each action of the forwarder is one of its actions or a stutter.  Since `sends`
and `faults` are counted on both sides, a SetTx that is repeated is a second
`Transmit`, which the abstract service has only after a first whose transfer
failed, and none after one that returned.
`NoDuplicatePush` compares two counts, and what it needs (`Matched`) is about the
moment they are equal: then every way on which a payload reaches the push, from
the flag in the chip to the local of `rx-loop`, is free of that frame, unless
the frame is the last one pushed and is held back by the comparison (`Spent`).
`Settled` is what makes the comparison enough: the reading after a flag that was
cleared too early can repeat a frame once, but no flag is left by which it
could be read a third time after another frame was pushed.

*UdpSession.*  `CountersKept` says how far each thread is with its increments;
`Reportable` is what the copy that `rx-loop` holds must satisfy to be sent, and
stays true while `tx-drain` goes on counting; `Grown` carries what was reported
to the next copy.  `QueuedInOrder` says that the k-th good response
that was handled is the k-th that was queued (`GoodAmong(n)` are the good ones
among the first n arrivals); `Waiting` adds that an element of the queue keeps
its place counted from the end of `queued`.

*Bridge.*  `Progress` and `CallsMade` make the types inductive.  `Sizes` counts
the bytes: `Outstanding` is the set of bytes that calls in their read phase have
yet to read, and a step of one client changes it by that client's bytes only;
the buffer has at least as many (`NeverStarve`) and, until a transaction fails,
after the sync no more (`Excess`).  Hence a call that is alone starts on an empty
buffer, and what it has read together with what is left is its answer (`Own`).

*Bands.*  `Sound` is what `Rx1Usable` needs of a table, and `AvailableSound`
shows it of every band of both revisions; the arithmetic of the data rates is
two clamps (`DatarateClamped`), and the first channel that fits is the least
element of a set of naturals, whose existence is proved here (`MinIn`) since the
library has it for an operator argument only.  `Legal` is what the other four
need of one: data rates and channels within the limits, masks that cover the
channels, a payload size for every data rate the first window can have.  The
inductive invariant is `Answered /\ Replied`: what the calls so far have returned
is what the methods return for this uplink.

*MAC commands.*  `ParserSpec` is the parser of `MacCommands` by itself, its
input any sequence of commands of one direction, with any values that their
fields have room for, and the bytes of it (`Arrives`): all of them, cut off
anywhere, or those of any number of commands followed by an unknown identifier
and anything behind it.  `OffersArrive` says that the inputs which TLC takes are
among these.  What one command says comes back by `LaidBack`: if the fields of a class lie apart, alone in their bytes or as two or three
groups of bits in one, `Decode` of `Encode` is the identity on values in range;
each class is shown to be so laid out, except `PingSlotChannelReq`.  `Encode`
adds up what the fields contribute to a byte, in the order in which `CHOOSE`
takes them out of a set; shown first is that the order does not
matter, for want of a fact in the library that could be cited.  The parser is
then an induction over its rounds: `ParserInv` says that it stands at the
boundary behind some number of commands, that `result` is exactly those, and
that it has stopped only where the bytes of the next one are not all there.
`NextBytes` is the reason: at a boundary the next byte is unknown or the
identifier of the next command, so nothing is taken for a command that is not
one.  As in the properties, `PingSlotChannelReq` and a margin of 0 in
`DevStatusAns` are the exceptions.

*Frames.*  Three specifications have the steps of `Frames` and begin with more
than the checker's frames.  `ReceiverSpec` takes any bytes; that what is parsed
is canonical (`IsParsed`) is kept by every step, and gives `RegeneratesHolds`.
`SenderSpec` takes anything `Sendable`: any header, address, counter of 32 bits,
options and payload, any join message.  `DeliveredHolds` then needs that a
second decryption with the same key stream gives the plain text back
(`XorTwice`), that decoding inverts encoding for each message (the layouts in
`CodecProofs`), and, for the counters beyond two bytes, that the two MICs differ
because the weighted sums they come from do (`MICsApart`).  `CarrierSpec` takes a
frame that carries commands and is intact, and is reduced to `ParserInv` above
(`CommandsReach`).  `FramesHold` and `OfferedReach` say that the frames of the
run are among these.  The cipher and the MIC are the stand-ins of `Messages`: what
is proved is about what the code does around them.

*Node.*  `InitClean` and `SentAsWritten` are not inductive: one needs that the
chip does nothing by itself between the command that puts it into standby and
the end of `init` (`AtRest`), which is why `init` may clear the flags last; the
other that at SetTx the chip is not receiving, has its halves apart and the
frame of this join in the tx half (`ReadyToSend`), which holds across retries
because every command on the way can be repeated.  `IndInv` is the conjunction
with `TypeOK`; the proof has a lemma for each group of actions (`SilentInd`,
`InitRadioInd`, `TransmitInd`, `ReceiveInd`, `ChipInd`).

*LoraMode.*  `IndInv` adds to the types what holds along a call (`CallKnows`):
the service that a sure call has stopped stays stopped, and one that is alone
besides has the services as it wants them from its start on; that a call which is
alone has neither another nor `install.sh` beside it (`Alone`); and what the
histories stand for: one radio user unless the last start was a blind one, and,
as long as nothing is in doubt, calls that are alone and a file that names the
one service that runs (`Undisturbed`), also while `install.sh` is on its way.  It
is inductive, for any number of calls, because a start by another marks the
calls that had stopped that service as unsure (`UnsureAfter`).

**Only model-checked:** the liveness properties `EventuallyListening`,
`EveryDownlinkServed`, `RestoredByDownlink`, `KeepaliveGoesOn`,
`ArrivalsHandled`, `CallsEnd`, `QuietAtLast` (out of the prover's reach); and
`Authentic` of frames that were damaged on their way: a MIC of four bytes, the
stand-in as the real one, does not tell all frames apart, so that it holds of the
frames of the run and not of every frame.  Every other property of a passing run
is proved.

## 5. Not modelled

Logging, the text of messages, `as_dict`/`from_dict`, `lora-mode status` (it
only reads), AES and CMAC (a library), device tree files, declarations of
constants and exceptions.  Facts about the chip that the code's comments report
but the code does not depend on (TCXO warm-up) are left out; that no code sets
the payload length in the packet parameters before a transmission (`sx1262.py`
lines 139-152) is a question to the chip and not to this model.

What follows a join in `lora_mac.py` (`send_uplink` and the loop of
`lora-node.py` around it): `join` never returns True, see above, so that no
behaviour of the program reaches it.

Of `common.py`, `generate_dev_addr_for_network` and `calc_ping_offset`: numbers
computed from their arguments, which nothing in the repository calls.
`verify_mic_join_accept` reads a name that is not defined, raises whenever it is
called, and nothing calls it.  Of the bands, transmit powers and the defaults of
the second window are data that nothing computes with.

The format of an `rxpk` (time, RSSI, base64) and of the configuration is left
out of `UdpSession`, as is the second in which it is sent.

Hazards that are modelled and have no property, because no line of the
repository promises better and a property would be refuted by the first step
that shows them (`PROJECT.json` lists them with their lines): a payload that
mixes two frames, the length of one with the bytes of another
(`lora-pkt-fwd.py:271`, `:363`); the `clear_irq` outside any `try` whose failure
ends `rx-loop` (`:327`; `RestoredByDownlink` names it as its exception); a chip
that is put back into reception after `shutdown` because the threads are not
joined (`:226`); and nonces that start again in every process
(`lora_mac.py:99`).
