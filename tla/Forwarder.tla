----------------------------- MODULE Forwarder -----------------------------
(***************************************************************************)
(* The threads of lora-pkt-fwd.py that share one SX1262: rx-loop           *)
(* (_push_loop), tx-drain (_tx_drain_loop), udp-rx (_rx_thread, as far as  *)
(* it feeds the downlink queue) and the main thread that shuts down.       *)
(*                                                                         *)
(* One action is one command to the chip together with the Python code up  *)
(* to the next command: the threads interleave between commands, which is  *)
(* the finest grain at which a client of spi_transfer can be told apart    *)
(* (that two transfers may themselves interleave is what module Bridge is  *)
(* about; its effect appears here as Garbled).                             *)
(***************************************************************************)
EXTENDS Radio, Sequences, Bags

CONSTANTS
  Undecodable,  \* the Downlinks whose "data" is not valid base64
  None,         \* no downlink, no record
  MaxRx,        \* bound: receptions, the spoilt ones included
  MaxDown,      \* bound: PULL_RESPs delivered
  MaxFaults,    \* bound: I2C faults
  Garbled,      \* what is read back may not be what the chip answered
  Timely,       \* a transmission and its polls fit into the 5 s deadline
  Interrupts    \* the process may be told to stop

ASSUME ForwarderAssumption ==
  /\ Undecodable \subseteq Downlinks
  /\ None \notin Frame
  /\ MaxRx \in Nat /\ MaxDown \in Nat /\ MaxFaults \in Nat
  /\ Garbled \in BOOLEAN /\ Timely \in BOOLEAN /\ Interrupts \in BOOLEAN

VARIABLES
  rxpc,         \* where rx-loop is
  meta,         \* rx-loop: plen and start, read by GetRxBufferStatus
  payload,      \* rx-loop: the payload read, <<length of, bytes of>>
  lastPayload,  \* _last_payload
  rateOk,       \* a second has passed since _last_push_ts
  txpc,         \* where tx-drain is
  txcur,        \* tx-drain: the payload decoded from the txpk popped
  queue,        \* _txpk_queue
  txDone,       \* the event _tx_done
  mpc,          \* where the main thread is
  listening,    \* _rx_thread is in its loop
  faults,       \* I2C faults so far
  heard,        \* history: the receptions, a bag of frames
  pushed,       \* history: the payloads pushed to the server, a bag
  delivered,    \* history: the txpks appended to _txpk_queue, in order
  onAir,        \* history: the last downlink for which SetTx was executed
  sends,        \* history: how often it was, for the downlink in service
  air           \* history: transmissions completed, <<downlink, bytes>>

rxVars == <<rxpc, meta, payload, lastPayload, rateOk, heard, pushed>>
txVars == <<txpc, txcur, queue, onAir, sends, air>>
mainVars == <<mpc, listening, delivered>>
vars == <<radio, rxVars, txVars, mainVars, txDone, faults>>

-----------------------------------------------------------------------------

RxPcs == {"setrx", "top", "resume", "poll", "rxdone", "status", "badlen",
          "read", "push", "rearm", "timeout", "error", "exited"}
TxPcs == {"idle", "standby", "base", "write", "settx", "wait", "txdone",
          "txto", "fin", "exited"}
MainPcs == {"run", "stopping", "closing", "closed", "exited"}

Payload == Frame \X Frame
Status == [frame : Frame, start : Half]

\* How many downlinks tx-drain has popped: the last popped has this number.
Taken == Len(delivered) - Len(queue)

TypeOK ==
  /\ RadioTypeOK
  /\ rxpc \in RxPcs
  /\ meta \in Status \cup {None}
  /\ payload \in Payload \cup {<<>>}
  /\ lastPayload \in Payload \cup {<<>>}
  /\ rateOk \in BOOLEAN
  /\ txpc \in TxPcs
  /\ txcur \in Downlinks \cup {None}
  /\ queue \in Seq(Downlinks)
  /\ txDone \in BOOLEAN
  /\ mpc \in MainPcs
  /\ listening \in BOOLEAN
  /\ faults \in 0..MaxFaults
  /\ IsABag(heard) /\ DOMAIN heard \subseteq Frame
  /\ IsABag(pushed) /\ DOMAIN pushed \subseteq Payload
  /\ delivered \in Seq(Downlinks)
  /\ onAir \in 0..MaxDown
  /\ sends \in Nat
  /\ air \subseteq (0..MaxDown) \X Frame

Init ==
  /\ RadioInit
  /\ rxpc = "setrx" /\ meta = None /\ payload = <<>>
  /\ lastPayload = <<>> /\ rateOk = TRUE
  /\ txpc = "idle" /\ txcur = None /\ queue = <<>> /\ txDone = FALSE
  /\ mpc = "run" /\ listening = TRUE
  /\ faults = 0
  /\ heard = EmptyBag /\ pushed = EmptyBag /\ delivered = <<>>
  /\ onAir = 0 /\ sends = 0 /\ air = {}

stopSet == mpc # "run"          \* _stop.is_set()
alive == mpc # "exited"         \* daemon threads die with the process
busOpen == mpc \in {"run", "stopping", "closing"}

-----------------------------------------------------------------------------
(* One call of spi_transfer for a command with effect A on the chip.  It   *)
(* returns; or an attempt executes the command but fails to read the       *)
(* answer, so that it is tried again; or it raises, with the command       *)
(* executed or not; once the bus is closed it can only raise.              *)

Returns(A) == busOpen /\ A /\ UNCHANGED faults

Faulty(A) ==
  /\ busOpen
  /\ faults < MaxFaults
  /\ faults' = faults + 1
  /\ A

Raises(A) ==
  \/ Faulty(A \/ Query)
  \/ ~busOpen /\ Query /\ UNCHANGED faults

Transfer(pc, A, ok, err, pcNext) ==
  \/ Returns(A) /\ pcNext = ok
  \/ Faulty(A) /\ pcNext = pc
  \/ Raises(A) /\ pcNext = err

\* Transfers of rx-loop and of tx-drain: from pc to ok, to err if it raises.
RxCommand(pc, A, ok, err) ==
  alive /\ rxpc = pc /\ Transfer(pc, A, ok, err, rxpc')

TxCommand(pc, A, ok, err) ==
  alive /\ txpc = pc /\ Transfer(pc, A, ok, err, txpc')

\* What get_irq may return.
IrqReadings ==
  {irq} \cup IF Garbled THEN {{f} : f \in IrqFlags} \cup {{}} ELSE {}

\* What GetRxBufferStatus may return; None stands for a length of zero.
StatusReadings ==
  {last} \cup IF Garbled THEN {[frame |-> Noise, start |-> last.start], None}
              ELSE {}

\* What ReadBuffer may return from a half of the buffer.
BufferReadings(h) == {mem[h]} \cup IF Garbled THEN {Noise} ELSE {}

-----------------------------------------------------------------------------
(* rx-loop: _push_loop.                                                    *)

rxLocals == <<meta, payload, lastPayload, rateOk, pushed, heard>>
notRx == <<txVars, mainVars>>

\* The SetRx that starts the reception; if it fails the thread returns.
RxStart ==
  /\ RxCommand("setrx", SetRx, "top", "exited")
  /\ UNCHANGED <<rxLocals, notRx, txDone>>

\* Mutant: the event is consumed but reception is not resumed.
RxTopWithoutResume ==
  /\ alive /\ rxpc = "top"
  /\ rxpc' = IF stopSet THEN "exited" ELSE "poll"
  /\ txDone' = (txDone /\ stopSet)
  /\ UNCHANGED <<radio, faults, rxLocals, notRx>>

\* The head of the loop: stop, resume after a transmission, or poll.
RxTop ==
  /\ alive /\ rxpc = "top"
  /\ rxpc' = IF stopSet THEN "exited" ELSE IF txDone THEN "resume" ELSE "poll"
  /\ txDone' = (txDone /\ stopSet)
  /\ UNCHANGED <<radio, faults, rxLocals, notRx>>

\* The event is already cleared when this SetRx is tried, and a failure is
\* only logged.
RxResume ==
  /\ RxCommand("resume", SetRx, "poll", "poll")
  /\ UNCHANGED <<rxLocals, notRx, txDone>>

\* The branch that the interrupt word selects.
RxBranch(seen) ==
  CASE "RX_DONE" \in seen -> "rxdone"
    [] "RX_DONE" \notin seen /\ "TIMEOUT" \in seen -> "timeout"
    [] seen \cap {"RX_DONE", "TIMEOUT"} = {}
         /\ seen \cap {"CRC_ERROR", "HEADER_ERROR"} # {} -> "error"
    [] OTHER -> "top"

RxPoll ==
  /\ \E seen \in IrqReadings : RxCommand("poll", Query, RxBranch(seen), "top")
  /\ UNCHANGED <<rxLocals, notRx, txDone>>

\* RX_DONE: clear_irq() with its default mask, which is all flags.
RxClear ==
  /\ RxCommand("rxdone", ClearIrq(IrqFlags), "status", "top")
  /\ UNCHANGED <<rxLocals, notRx, txDone>>

RxStatus ==
  /\ \E m \in StatusReadings :
       /\ RxCommand("status", Query, IF m = None THEN "badlen" ELSE "read", "top")
       /\ meta' = IF rxpc' = "read" THEN m ELSE None
  /\ UNCHANGED <<payload, lastPayload, rateOk, pushed, heard, notRx, txDone>>

RxBadLength ==
  /\ RxCommand("badlen", SetRx, "top", "top")
  /\ UNCHANGED <<rxLocals, notRx, txDone>>

\* ReadBuffer: as many bytes as the status said, of what is there by now.
RxRead ==
  /\ rxpc = "read"
  /\ \E bytes \in BufferReadings(meta.start) :
       /\ RxCommand("read", Query, "push", "top")
       /\ payload' = IF rxpc' = "push" THEN <<meta.frame, bytes>> ELSE <<>>
  /\ meta' = IF rxpc' = "read" THEN meta ELSE None
  /\ UNCHANGED <<lastPayload, rateOk, pushed, heard, notRx, txDone>>

\* Mutant: only the rate is looked at.
FreshByRate == rateOk

\* The comparison with the last payload and the limit of one per second.
Fresh == payload # lastPayload /\ rateOk

RxSkip ==
  /\ ~Fresh
  /\ UNCHANGED <<lastPayload, rateOk, pushed>>

\* Mutant: what is remembered is the encoded bytes, not the payload.
RxSendRememberBytes ==
  /\ Fresh
  /\ BagCardinality(pushed) <= MaxRx
  /\ pushed' = pushed (+) SetToBag({payload})
  /\ lastPayload' = payload[2]
  /\ rateOk' = FALSE

\* Bound: MaxRx + 1 pushes, which garbled readings alone could exceed.
RxSend ==
  /\ Fresh
  /\ BagCardinality(pushed) <= MaxRx
  /\ pushed' = pushed (+) SetToBag({payload})
  /\ lastPayload' = payload
  /\ rateOk' = FALSE

\* sendto raises: the payload is neither sent nor remembered.
RxSendError ==
  /\ Fresh
  /\ UNCHANGED <<lastPayload, rateOk, pushed>>

RxPush ==
  /\ alive /\ rxpc = "push"
  /\ RxSkip \/ RxSend \/ RxSendError
  /\ rxpc' = "rearm"
  /\ payload' = <<>>
  /\ UNCHANGED <<radio, faults, meta, heard, notRx, txDone>>

RxRearm ==
  /\ RxCommand("rearm", SetRx, "top", "top")
  /\ UNCHANGED <<rxLocals, notRx, txDone>>

\* This clear_irq and the next are outside any try: raising ends the thread.
RxTimeout ==
  /\ RxCommand("timeout", ClearIrq({"TIMEOUT"}), "top", "exited")
  /\ UNCHANGED <<rxLocals, notRx, txDone>>

RxError ==
  /\ RxCommand("error", ClearIrq(IrqFlags), "rearm", "exited")
  /\ UNCHANGED <<rxLocals, notRx, txDone>>

RxLoop ==
  \/ RxStart \/ RxTop \/ RxResume \/ RxPoll
  \/ RxClear \/ RxStatus \/ RxBadLength \/ RxRead \/ RxPush \/ RxRearm
  \/ RxTimeout \/ RxError

\* A second passes since the last push.
Cool ==
  /\ ~rateOk
  /\ rateOk' = TRUE
  /\ UNCHANGED <<radio, faults, rxpc, meta, payload, lastPayload, pushed,
                 heard, notRx, txDone>>

-----------------------------------------------------------------------------
(* tx-drain: _tx_drain_loop.                                               *)

txLocals == <<txcur, queue, onAir, sends, air>>
notTx == <<rxVars, mainVars>>

TxStop ==
  /\ alive /\ txpc = "idle" /\ stopSet
  /\ txpc' = "exited"
  /\ UNCHANGED <<radio, faults, txLocals, notTx, txDone>>

\* pop(0), then the base64 decoding.
TxPop ==
  /\ alive /\ txpc = "idle" /\ ~stopSet /\ queue # <<>>
  /\ queue' = Tail(queue)
  /\ IF Head(queue) \in Undecodable
       THEN UNCHANGED <<txpc, txcur>>
       ELSE txpc' = "standby" /\ txcur' = Head(queue)
  /\ UNCHANGED <<radio, faults, onAir, sends, air, notTx, txDone>>

TxStandby ==
  /\ TxCommand("standby", SetStandby, "base", "fin")
  /\ UNCHANGED <<txLocals, notTx, txDone>>

TxBase ==
  /\ TxCommand("base", SetBufferBase(0, 0), "write", "fin")
  /\ UNCHANGED <<txLocals, notTx, txDone>>

TxWrite ==
  /\ TxCommand("write", WriteBuffer(0, txcur), "settx", "fin")
  /\ UNCHANGED <<txLocals, notTx, txDone>>

\* SetTx, noting which downlink the chip transmits and how often it was told
\* to; the chip may have executed an attempt that raised.
TxSetTx ==
  /\ TxCommand("settx", SetTx, "wait", "fin")
  /\ \/ busOpen /\ SetTx /\ onAir' = Taken /\ sends' = sends + 1
     \/ txpc' = "fin" /\ Query /\ UNCHANGED <<onAir, sends>>
  /\ UNCHANGED <<txcur, queue, air, notTx, txDone>>

\* Mutant: a transmission that ends with TIMEOUT is tried again.
TxBranchAgain(seen) ==
  IF "TX_DONE" \in seen THEN "txdone"
  ELSE IF "TIMEOUT" \in seen THEN "settx" ELSE "wait"

\* The poll of the wait loop: TX_DONE is looked at before TIMEOUT.
TxBranch(seen) ==
  IF "TX_DONE" \in seen THEN "txdone"
  ELSE IF "TIMEOUT" \in seen THEN "txto" ELSE "wait"

TxPoll ==
  /\ \E seen \in IrqReadings : TxCommand("wait", Query, TxBranch(seen), "fin")
  /\ UNCHANGED <<txLocals, notTx, txDone>>

\* Mutant: at the deadline the thread goes for the next downlink without
\* telling rx-loop.
TxExpireSilently ==
  /\ alive /\ txpc = "wait"
  /\ Timely => chip # "TX" /\ "TX_DONE" \notin irq
  /\ txpc' = "idle"
  /\ txcur' = None
  /\ sends' = 0
  /\ UNCHANGED <<radio, faults, queue, onAir, air, notTx, txDone>>

\* Mutant: the thread waits for TX_DONE or TIMEOUT without a deadline.
TxWaitForever == FALSE

\* The deadline of five seconds.
TxExpire ==
  /\ alive /\ txpc = "wait"
  /\ Timely => chip # "TX" /\ "TX_DONE" \notin irq
  /\ txpc' = "fin"
  /\ UNCHANGED <<radio, faults, txLocals, notTx, txDone>>

\* Mutant: clear_irq with the mask of TIMEOUT only.
TxClearTimeout ==
  /\ \E pc \in {"txdone", "txto"} :
       TxCommand(pc, ClearIrq({"TIMEOUT"}), "fin", "fin")
  /\ UNCHANGED <<txLocals, notTx, txDone>>

\* TX_DONE and TIMEOUT differ in what is counted and logged.
TxClear ==
  /\ \E pc \in {"txdone", "txto"} :
       TxCommand(pc, ClearIrq(IrqFlags), "fin", "fin")
  /\ UNCHANGED <<txLocals, notTx, txDone>>

\* finally: tell rx-loop to resume.
TxFinally ==
  /\ alive /\ txpc = "fin"
  /\ txDone' = TRUE
  /\ txpc' = "idle"
  /\ txcur' = None
  /\ sends' = 0
  /\ UNCHANGED <<radio, faults, queue, onAir, air, notTx>>

TxDrain ==
  \/ TxStop \/ TxPop
  \/ TxStandby \/ TxBase \/ TxWrite \/ TxSetTx
  \/ TxPoll \/ TxExpire \/ TxClear \/ TxFinally

-----------------------------------------------------------------------------
(* udp-rx: a PULL_RESP is appended to the queue.  The same txpk may come   *)
(* twice: UDP duplicates, and servers repeat.                              *)

UdpPullResp(d) ==
  /\ alive /\ listening
  /\ Len(delivered) < MaxDown
  /\ queue' = Append(queue, d)
  /\ delivered' = Append(delivered, d)
  /\ listening' = ~stopSet
  /\ UNCHANGED <<radio, faults, mpc, txpc, txcur, onAir, sends, air, rxVars, txDone>>

-----------------------------------------------------------------------------
(* The main thread.                                                        *)

notMain == <<listening, delivered, rxVars, txVars, txDone>>

\* KeyboardInterrupt, then _stop.set() in the finally clause.
MainInterrupt ==
  /\ Interrupts /\ mpc = "run"
  /\ mpc' = "stopping"
  /\ UNCHANGED <<radio, faults, notMain>>

\* bridge.shutdown(): standby.  A BridgeError is swallowed, an OSError of the
\* write is not and skips bridge.close().
MainShutdown ==
  /\ mpc = "stopping"
  /\ \E failed \in {"closing", "exited"} :
       Transfer("stopping", SetStandby, "closing", failed, mpc')
  /\ UNCHANGED notMain

\* bridge.close() and then the socket, which ends udp-rx.
MainClose ==
  /\ mpc = "closing"
  /\ mpc' = "closed"
  /\ listening' = FALSE
  /\ UNCHANGED <<radio, faults, delivered, rxVars, txVars, txDone>>

\* The interpreter exits; the daemon threads end wherever they are.
MainExit ==
  /\ mpc = "closed"
  /\ mpc' = "exited"
  /\ UNCHANGED <<radio, faults, notMain>>

\* SIGTERM, what systemctl stop sends, has no handler.
Terminate ==
  /\ Interrupts /\ alive
  /\ mpc' = "exited"
  /\ UNCHANGED <<radio, faults, notMain>>

Main == MainInterrupt \/ MainShutdown \/ MainClose \/ MainExit \/ Terminate

-----------------------------------------------------------------------------
(* The chip and the air.                                                   *)

Hear(f) ==
  /\ BagCardinality(heard) < MaxRx
  /\ heard' = heard (+) SetToBag({f})
  /\ UNCHANGED <<rxpc, meta, payload, lastPayload, rateOk, pushed, txVars,
                 mainVars, txDone, faults>>

AirUplink(f) == ReceiveFrame(f) /\ Hear(f)
AirCorrupt == ReceiveCorrupt /\ Hear(Noise)
AirBadHeader == ReceiveBadHeader /\ Hear(Noise)

\* The transmission ends; what was sent is what the tx half holds by now.
AirTxEnd ==
  /\ FinishTx
  /\ air' = air \cup {<<onAir, mem[base.tx]>>}
  /\ UNCHANGED <<rxVars, txpc, txcur, queue, onAir, sends, mainVars, txDone, faults>>

Air == (\E f \in Uplinks : AirUplink(f)) \/ AirCorrupt \/ AirBadHeader \/ AirTxEnd

Next ==
  \/ RxLoop
  \/ Cool
  \/ TxDrain
  \/ \E d \in Downlinks : UdpPullResp(d)
  \/ Main
  \/ Air

Spec == Init /\ [][Next]_vars

(* The scheduler runs every thread again, and the chip ends what it sends.
   A poll is not among the steps that tx-drain is bound to take: what ends
   its wait at last is the deadline, not a reading that happens to be right. *)
TxProgress ==
  \/ TxStop \/ TxPop
  \/ TxStandby \/ TxBase \/ TxWrite \/ TxSetTx
  \/ TxExpire \/ TxClear \/ TxFinally

Fairness ==
  /\ WF_vars(RxLoop)
  /\ WF_vars(TxProgress)
  /\ WF_vars(AirTxEnd)

LiveSpec == Spec /\ Fairness

-----------------------------------------------------------------------------
(* Properties.                                                             *)

\* The resume of the reception is still due: rx-loop has yet to arm the chip,
\* the event that makes it do so is set, or tx-drain has yet to set it.
ResumeDue ==
  \/ txDone
  \/ rxpc \in {"setrx", "resume"}
  \/ txpc \notin {"idle", "standby"}

\* NeverStranded: without I2C faults, a chip that is not receiving while
\* tx-drain has not taken it out of reception is about to be put back.  The
\* two threads hand the duty over through _tx_done, which rx-loop clears
\* BEFORE it issues SetRx (lines 252-256), while tx-drain may already be in
\* its next transmission.
NeverStranded == faults = 0 /\ mpc = "run" /\ chip # "RX" => ResumeDue

\* DoneIsOwn: when tx-drain counts a transmission as done (lines 371-376),
\* the downlink it is serving did go on the air.  TX_DONE is one flag shared
\* by all transmissions and cleared by both threads, so a flag left over from
\* an earlier downlink would be taken for the end of this one.
DoneIsOwn ==
  Timely /\ ~Garbled /\ faults = 0 /\ txpc = "txdone" =>
    \E f \in Frame : <<Taken, f>> \in air

\* NoDuplicatePush: a frame is pushed to the server no more often than it was
\* received, although a reception that lands between clear_irq (line 270) and
\* GetRxBufferStatus (line 271) is read twice, and a transfer that failed may
\* have cleared the flags, or may clear them again.
NoDuplicatePush ==
  ~Garbled =>
    \A f \in Uplinks :
      BagIn(<<f, f>>, pushed) => BagIn(f, heard) /\ pushed[<<f, f>>] <= heard[f]

\* A downlink in service that SetTx has not been tried for, or is to be again.
Unsent == txpc \in {"standby", "base", "write", "settx"}

\* ServedInOrder: the threads implement the abstract service of downlinks,
\* also when transfers fail, readings are garbled and the process is stopped:
\* in the order of their PULL_RESPs, one at a time, and each on the air once.
\* Only the retries of spi_transfer (bridge.py lines 71-88), which repeat a
\* SetTx that the chip has executed when its answer could not be read, put it
\* there again; a TIMEOUT, a missed deadline or a flag that is not its own do
\* not.
Service == INSTANCE DownlinkService
  WITH accepted <- delivered,
       taken <- Taken,
       serving <- txcur,
       settled <- (txcur # None /\ ~Unsent),
       failures <- faults

ServedInOrder == Service!Spec

\* EveryDownlinkServed: every downlink accepted is taken in the end, and its
\* service ends, although rx-loop may turn the chip to reception in the
\* middle of the transmission, transfers fail and readings are wrong; only
\* telling the process to stop leaves downlinks behind.
EveryDownlinkServed ==
  \A n \in 1..MaxDown :
    Len(delivered) >= n ~> stopSet \/ (Taken >= n /\ (Taken = n => txcur = None))

\* EventuallyListening: without I2C faults, once the downlinks have been dealt
\* with, the chip is left in continuous reception, however the commands of the
\* two threads were interleaved and whatever they read.
EventuallyListening ==
  [](faults = 0 /\ mpc = "run") => <>[](chip = "RX")

\* RestoredByDownlink: a chip that a failed SetRx has left out of reception
\* (its failure is only logged, and the event that asked for it is already
\* cleared, lines 254-258) is put back at the latest by the next downlink,
\* whose service ends with the event set, however it ended; unless the fault
\* hit a clear_irq outside any try and ended rx-loop (lines 327, 330, 337).
RestoredByDownlink ==
  [](mpc = "run" /\ rxpc # "exited") =>
    (faults = MaxFaults /\ txpc = "fin" ~> chip = "RX")

-----------------------------------------------------------------------------
(* What the comments of the program say and the code does not do.          *)

\* "Stops RX while a TX is being performed" (line 242): nothing puts the chip
\* into reception while it transmits.
TxUninterrupted == [][chip = "TX" => chip' # "RX"]_vars
=============================================================================
