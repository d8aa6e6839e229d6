------------------------------- MODULE Node --------------------------------
(***************************************************************************)
(* The OTAA node: LoRaWANNode of lora_mac.py on the driver of sx1262.py,   *)
(* and the process of lora-node.py that systemd starts again when it       *)
(* fails.  One thread, one action per command to the chip together with    *)
(* the Python up to the next one; the chip, the clock and systemd run      *)
(* beside it.                                                              *)
(*                                                                         *)
(* PHYPayload.parse has no class for a JoinAccept, so that join() never    *)
(* returns True: what the code would do once joined (lora_mac.py:123-141   *)
(* and 148-159, lora-node.py:78-83) is not reached and not modelled.       *)
(***************************************************************************)
EXTENDS Naturals

CONSTANTS
  Accept,     \* a JoinAccept of the network server
  Data,       \* any other frame on the air
  Noise,      \* the content of a corrupted reception or of a stale buffer
  None,       \* no packet
  NonceMod,   \* dev_nonce is counted modulo this, in the code 65536
  Library,    \* another program than lora-node.py uses the class
  MaxFaults,  \* bound: I2C faults
  Garbled,    \* what is read back may not be what the chip answered
  Timely      \* a transmission ends within the 1.8 s of transmit()

Request(n) == <<"JoinRequest", n>>
Requests == {Request(n) : n \in 0..(NonceMod - 1)}

ASSUME NodeAssumption ==
  /\ NonceMod \in Nat \ {0} /\ MaxFaults \in Nat
  /\ Library \in BOOLEAN /\ Garbled \in BOOLEAN /\ Timely \in BOOLEAN
  /\ {Accept, Data, Noise} \cap Requests = {}
  /\ Noise \notin {Accept, Data}
  /\ None \notin Requests \cup {Accept, Data, Noise}

VARIABLES
  chip, irq, mem, base, last,  \* the SX1262, see Radio
  timed,      \* the last SetRx or SetTx had a timeout
  pc,         \* where the program is
  call,       \* the method of LoRaWANNode called last
  dev_nonce,
  joined,
  expired,    \* the deadlines that have passed
  armed,      \* history: the call has put the chip into reception
  pkt,        \* what _wait_for_packet returns
  ours,       \* history: init() has reached the chip since the service began
  onAir,      \* history: the frame handed to the last SetTx
  faults      \* I2C faults so far

INSTANCE Radio WITH Uplinks <- {Accept, Data}, Downlinks <- Requests

chipVars == <<chip, irq, mem, base, last>>
callVars == <<call, dev_nonce, joined, pkt>>
vars == <<chipVars, timed, pc, callVars, expired, armed, ours, onAir, faults>>

-----------------------------------------------------------------------------

Initialising == {"sleep", "standby", "config", "sync", "bases", "clear"}
Sending == {"txstandby", "txbase", "txwrite", "settx", "txwait", "txafter",
            "txclear"}
Receiving == {"setrx", "rxpoll", "rxclear", "rxdrop", "status", "read", "got"}
Calling == Sending \cup {"wait", "return"} \cup Receiving
Running == Initialising \cup {"ready"} \cup Calling
Pcs == Running \cup {"failed", "stopped"}

Deadlines == {"wait", "receive"}

TypeOK ==
  /\ RadioTypeOK
  /\ timed \in BOOLEAN
  /\ pc \in Pcs
  /\ call \in {"none", "join", "listen"}
  /\ dev_nonce \in 0..(NonceMod - 1)
  /\ joined \in BOOLEAN
  /\ expired \in SUBSET Deadlines
  /\ armed \in BOOLEAN
  /\ pkt \in Frame \cup {None}
  /\ ours \in BOOLEAN
  /\ onAir \in Frame
  /\ faults \in 0..MaxFaults

\* The service is started on a chip in the state in which the gateway, or a
\* node before it, left it.
Init ==
  /\ chip \in {"STDBY", "RX", "TX"}
  /\ irq \in {{}, {"RX_DONE"}, {"TX_DONE"}}
  /\ mem = [h \in Half |-> Noise]
  /\ base \in {[tx |-> 0, rx |-> 128], [tx |-> 0, rx |-> 0]}
  /\ last = [frame |-> Noise, start |-> base.rx]
  /\ timed = FALSE
  /\ pc = "sleep"
  /\ call = "none" /\ dev_nonce = 0 /\ joined = FALSE /\ pkt = None
  /\ expired = {} /\ armed = FALSE
  /\ ours = FALSE /\ onAir = Noise /\ faults = 0

-----------------------------------------------------------------------------
(* One call of spi_transfer for a command with effect A: it returns; or an *)
(* attempt executes the command but fails to read the answer, so that it   *)
(* is tried again; or it raises, with the command executed or not.         *)

Faulty(A) ==
  /\ faults < MaxFaults
  /\ faults' = faults + 1
  /\ A

Command(from, A, to, err) ==
  /\ pc = from
  /\ \/ A /\ UNCHANGED faults /\ pc' = to
     \/ Faulty(A) /\ pc' = from
     \/ Faulty(A \/ Query) /\ pc' = err

\* An exception that nobody catches ends the program with a failure.
Do(from, A, to) == Command(from, A, to, "failed")

quiet == <<timed, callVars, expired, armed, ours, onAir>>

\* What get_irq may return.  The docstring of transmit() says that on this
\* hardware the word reads as the constant 0xa6a6, in which the bits of
\* RX_DONE, HEADER_ERROR and TIMEOUT are set.
IrqReadings ==
  {irq} \cup IF Garbled THEN {{"RX_DONE", "HEADER_ERROR", "TIMEOUT"}, {}} ELSE {}

\* What ReadBuffer may return, from the half that the status names.
BufferReadings ==
  {mem[last.start]} \cup IF Garbled THEN {Noise, mem[0], mem[128]} ELSE {}

-----------------------------------------------------------------------------
(* SX1262.init.  Asleep the chip is off the air as it is in standby.       *)

\* Mutant: the chip is configured in the mode in which it was left.
InitSleepLeft ==
  /\ Do("sleep", Query, "config")
  /\ ours' = TRUE
  /\ UNCHANGED <<timed, callVars, expired, armed, onAir>>

InitSleep ==
  /\ Do("sleep", SetStandby, "standby")
  /\ ours' = (ours \/ pc' = "standby")
  /\ UNCHANGED <<timed, callVars, expired, armed, onAir>>

InitStandby == Do("standby", SetStandby, "config") /\ UNCHANGED quiet

\* Packet type, frequency, power, modulation, packet and interrupt parameters:
\* none of what the model tells apart.
InitConfig == Do("config", Query, "sync") /\ UNCHANGED quiet

\* The "sync word" is written into the data buffer, at 0x07 of the tx half.
InitSync == Do("sync", WriteBuffer(0, Noise), "bases") /\ UNCHANGED quiet

InitBases == Do("bases", SetBufferBase(0, 128), "clear") /\ UNCHANGED quiet

\* Mutant: only the flags of the transmission are cleared.
InitClearTx == Do("clear", ClearIrq({"TX_DONE"}), "ready") /\ UNCHANGED quiet

InitClear == Do("clear", ClearIrq(IrqFlags), "ready") /\ UNCHANGED quiet

InitRadio ==
  InitSleep \/ InitStandby \/ InitConfig \/ InitSync \/ InitBases \/ InitClear

-----------------------------------------------------------------------------
(* transmit(frame), called by join().                                      *)

\* Mutant: the nonce is not masked.
CallJoinUnmasked ==
  /\ pc = "ready"
  /\ pc' = "txstandby"
  /\ call' = "join" /\ pkt' = None
  /\ dev_nonce' = dev_nonce + 1
  /\ expired' = {} /\ armed' = FALSE
  /\ UNCHANGED <<chipVars, timed, joined, ours, onAir, faults>>

CallJoin ==
  /\ pc = "ready"
  /\ pc' = "txstandby"
  /\ call' = "join" /\ pkt' = None
  /\ dev_nonce' = (dev_nonce + 1) % NonceMod
  /\ expired' = {} /\ armed' = FALSE
  /\ UNCHANGED <<chipVars, timed, joined, ours, onAir, faults>>

\* Mutant: the transmission is begun in the mode the chip is in.
TxStandbyNot == Do("txstandby", Query, "txbase") /\ UNCHANGED quiet

TxStandby == Do("txstandby", SetStandby, "txbase") /\ UNCHANGED quiet

TxBase == Do("txbase", SetBufferBase(0, 128), "txwrite") /\ UNCHANGED quiet

TxWrite ==
  /\ Do("txwrite", WriteBuffer(0, Request(dev_nonce)), "settx")
  /\ UNCHANGED quiet

TxSet ==
  /\ Do("settx", SetTx, "txwait")
  /\ timed' = (timed \/ chip' = "TX")
  /\ onAir' = IF chip' = "TX" THEN Request(dev_nonce) ELSE onAir
  /\ UNCHANGED <<callVars, expired, armed, ours>>

\* The sleep of 1.8 seconds.
TxWait ==
  /\ pc = "txwait"
  /\ Timely => chip # "TX"
  /\ pc' = "txafter"
  /\ UNCHANGED <<chipVars, quiet, faults>>

TxAfter == Do("txafter", SetStandby, "txclear") /\ UNCHANGED quiet

\* The only command of the node whose failure is ignored.
TxClear ==
  Command("txclear", ClearIrq(IrqFlags), "wait", "wait") /\ UNCHANGED quiet

Transmit ==
  TxStandby \/ TxBase \/ TxWrite \/ TxSet \/ TxWait \/ TxAfter \/ TxClear

-----------------------------------------------------------------------------
(* _wait_for_packet and the receive() that it calls.                       *)

\* listen_window(), which lora-node.py calls only once joined.
CallListen ==
  /\ Library /\ pc = "ready"
  /\ pc' = "wait"
  /\ call' = "listen" /\ pkt' = None
  /\ expired' = {} /\ armed' = FALSE
  /\ UNCHANGED <<chipVars, timed, dev_nonce, joined, ours, onAir, faults>>

WaitDeadline ==
  /\ pc = "wait" /\ "wait" \in expired
  /\ pc' = "return"
  /\ UNCHANGED <<chipVars, quiet, faults>>

\* The chip is asked for RX_DONE before anything has put it into reception.
WaitPoll ==
  /\ "wait" \notin expired
  /\ \E seen \in IrqReadings :
       Do("wait", Query, IF "RX_DONE" \in seen THEN "setrx" ELSE "wait")
  /\ UNCHANGED quiet

\* Mutant: reception without a timeout.
RxSetContinuous ==
  /\ Do("setrx", SetRx, "rxpoll")
  /\ timed' = (timed /\ chip' # "RX")
  /\ armed' = (armed \/ chip' = "RX")
  /\ expired' = expired \ {"receive"}
  /\ UNCHANGED <<callVars, ours, onAir>>

\* SetRx with a timeout of 0.1 s, and the deadline of receive().
RxSet ==
  /\ Do("setrx", SetRx, "rxpoll")
  /\ timed' = (timed \/ chip' = "RX")
  /\ armed' = (armed \/ chip' = "RX")
  /\ expired' = expired \ {"receive"}
  /\ UNCHANGED <<callVars, ours, onAir>>

\* Mutant: receive() waits for an interrupt for ever.
RxDeadlineNever == FALSE

\* receive() returns None and _wait_for_packet goes on.
RxDeadline ==
  /\ pc = "rxpoll" /\ "receive" \in expired
  /\ pc' = "wait"
  /\ UNCHANGED <<chipVars, quiet, faults>>

RxBranch(seen) ==
  IF seen \cap {"RX_DONE", "TIMEOUT", "HEADER_ERROR", "CRC_ERROR"} = {} THEN "rxpoll"
  ELSE IF "RX_DONE" \in seen THEN "rxclear" ELSE "rxdrop"

RxPoll ==
  /\ "receive" \notin expired
  /\ \E seen \in IrqReadings : Do("rxpoll", Query, RxBranch(seen))
  /\ UNCHANGED quiet

RxClear == Do("rxclear", ClearIrq(IrqFlags), "status") /\ UNCHANGED quiet

\* TIMEOUT or a bad frame: None.
RxDrop == Do("rxdrop", ClearIrq(IrqFlags), "wait") /\ UNCHANGED quiet

\* GetRxBufferStatus: a length of zero is None as well.
RxStatus ==
  \E next \in {"read", "wait"} : Do("status", Query, next) /\ UNCHANGED quiet

RxRead ==
  /\ \E bytes \in BufferReadings :
       /\ Do("read", Query, "got")
       /\ pkt' = IF pc' = "got" THEN bytes ELSE pkt
  /\ UNCHANGED <<timed, call, dev_nonce, joined, expired, armed, ours, onAir>>

RxGot == Do("got", ClearIrq({"RX_DONE"}), "return") /\ UNCHANGED quiet

Receive ==
  \/ WaitDeadline \/ WaitPoll
  \/ RxSet \/ RxDeadline \/ RxPoll \/ RxClear \/ RxDrop \/ RxStatus \/ RxRead
  \/ RxGot

-----------------------------------------------------------------------------
(* The end of a call, and of the program.                                  *)

MTypes == {"JoinRequest", "JoinAccept", "Data", "Proprietary"}

\* The types that PHYPayload.parse may return for a packet: it raises for a
\* JoinAccept, and nothing is known of a packet that was garbled.
parse(p) == CASE p \in Requests -> {"JoinRequest"}
              [] p = Accept -> {}
              [] p = Data -> {"Data"}
              [] OTHER -> MTypes \ {"JoinAccept"}

\* join() returns: lora-node.py exits with 1 unless it has joined, a library
\* user goes on in either case.
JoinReturn ==
  /\ pc = "return" /\ call = "join"
  /\ joined' = (joined \/ (pkt # None /\ "JoinAccept" \in parse(pkt)))
  /\ pc' = IF joined' \/ Library THEN "ready" ELSE "failed"
  /\ UNCHANGED <<chipVars, timed, call, dev_nonce, pkt, expired, armed, ours, onAir,
                 faults>>

ListenReturn ==
  /\ pc = "return" /\ call = "listen"
  /\ pc' = "ready"
  /\ UNCHANGED <<chipVars, quiet, faults>>

\* The program: what the scheduler must give a turn.
Program ==
  \/ InitRadio \/ CallJoin \/ Transmit
  \/ CallListen \/ Receive \/ JoinReturn \/ ListenReturn

\* The process is killed; SIGTERM of systemctl stop is not handled either.
Kill ==
  /\ pc \in Running
  /\ pc' \in {"failed", "stopped"}
  /\ UNCHANGED <<chipVars, quiet, faults>>

\* Restart=on-failure, or systemctl start: a new process.
Start ==
  /\ pc \in {"failed", "stopped"}
  /\ pc' = "sleep"
  /\ call' = "none" /\ dev_nonce' = 0 /\ joined' = FALSE /\ pkt' = None
  /\ expired' = {} /\ armed' = FALSE
  /\ UNCHANGED <<chipVars, timed, ours, onAir, faults>>

Process == Kill \/ Start

-----------------------------------------------------------------------------
(* The clock and the chip.                                                 *)

\* A deadline of the call passes.
Expire(d) ==
  /\ pc \in (IF d = "wait" THEN {"wait"} \cup Receiving ELSE {"rxpoll"})
  /\ d \notin expired
  /\ expired' = expired \cup {d}
  /\ UNCHANGED <<chipVars, timed, pc, callVars, armed, ours, onAir, faults>>

notChip == <<timed, pc, callVars, expired, armed, ours, onAir, faults>>

\* With a timeout the chip listens for one frame, and then is in standby.
ChipReceives(f, flag) ==
  /\ chip = "RX"
  /\ chip' = IF timed THEN "STDBY" ELSE "RX"
  /\ mem' = [mem EXCEPT ![base.rx] = f]
  /\ last' = [frame |-> f, start |-> base.rx]
  /\ irq' = irq \cup {flag}
  /\ UNCHANGED <<base, notChip>>

ChipHears ==
  \/ \E f \in {Accept, Data} : ChipReceives(f, "RX_DONE")
  \/ \E flag \in {"CRC_ERROR", "HEADER_ERROR"} : ChipReceives(Noise, flag)

ChipTimeout ==
  /\ chip \in {"RX", "TX"} /\ timed
  /\ chip' = "STDBY"
  /\ irq' = irq \cup {"TIMEOUT"}
  /\ UNCHANGED <<mem, base, last, notChip>>

ChipSent == FinishTx /\ UNCHANGED notChip

Next ==
  \/ Program
  \/ Process
  \/ \E d \in Deadlines : Expire(d)
  \/ ChipHears \/ ChipTimeout \/ ChipSent

Spec == Init /\ [][Next]_vars

(* The program gets its turns, time passes, and so it does for the chip's  *)
(* own timers.                                                             *)
LiveSpec ==
  /\ Spec
  /\ WF_vars(Program)
  /\ \A d \in Deadlines : WF_vars(Expire(d))
  /\ WF_vars(ChipTimeout)

-----------------------------------------------------------------------------
(* Properties.                                                             *)

\* InitClean: what init() hands over is a chip in standby without a flag set,
\* in whatever mode the chip was left by the gateway or by a node that was
\* killed, and although the chip goes on by itself ("clean", sx1262.py:108).
InitClean ==
  pc = "ready" /\ call = "none" => chip = "STDBY" /\ irq = {}

\* SentAsWritten: while the chip transmits for the node, the buffer holds the
\* frame that it was told to transmit, whatever was retried, and also when the
\* process was killed in the middle and its successor is in init(), which
\* writes into the tx half (sx1262.py:160).
SentAsWritten == ours /\ chip = "TX" => mem[base.tx] = onAir

\* StandbyBeforeTx: "SX1262 must be in standby before SetTx" (sx1262.py:202),
\* also when the window of an earlier call is still open.  The one exception
\* is the retry of spi_transfer: an attempt has executed SetTx and lost its
\* answer, and the next one meets a chip that transmits, but then it is this
\* join's own frame that is on the air.
StandbyBeforeTx ==
  [][chip' = "TX" =>
       \/ pc # "settx" /\ chip = "TX"
       \/ chip = "STDBY"
       \/ chip = "TX" /\ onAir = Request(dev_nonce) /\ faults > 0]_vars

\* CallsEnd: join and listen_window end, by a deadline if by nothing else
\* (lora_mac.py:170, sx1262.py:240), with readings that are always garbled too.
CallsEnd == pc \in Calling ~> pc \notin Calling

\* QuietAtLast: a node that is stopped, wherever that happens, leaves a chip
\* that comes to rest: each SetTx and SetRx of the driver has a timeout
\* (sx1262.py:209 and 228), since nobody puts the chip into standby.
QuietAtLast == (pc = "stopped" /\ ours) ~> (chip = "STDBY" \/ pc # "stopped")

-----------------------------------------------------------------------------
(* What the program says and does not do.                                  *)

\* "Open RX window, wait for packet" (lora_mac.py:162), "RX1 window opens 1s
\* after TX end" (line 110): a wait that ends at its deadline has had the chip
\* in reception.
WindowOpened == pc = "return" /\ pkt = None => armed

\* "Returns True if join succeeded, False if timeout/no accept" (line 97).
AcceptTaken == [][JoinReturn /\ pkt = Accept => joined']_vars
=============================================================================
