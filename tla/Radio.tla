------------------------------- MODULE Radio -------------------------------
(***************************************************************************)
(* The SX1262 as the forwarder's threads see it: the operating mode, the   *)
(* interrupt flags, the two halves of the data buffer, the base addresses  *)
(* and the status of the last reception.  One operator per command of      *)
(* sx1262.py that changes the chip, and one per thing the chip does by     *)
(* itself.  A frame is a model value; its length is told apart from its    *)
(* bytes only where the code can mix the length of one frame with the      *)
(* bytes of another (GetRxBufferStatus and ReadBuffer are two commands).   *)
(***************************************************************************)
EXTENDS Naturals

CONSTANTS
  Uplinks,     \* frames that end devices put on the air
  Downlinks,   \* payloads that the network server hands out
  Noise        \* the content of a corrupted reception or of a stale buffer

ASSUME FrameAssumption ==
  /\ Uplinks \cap Downlinks = {}
  /\ Noise \notin Uplinks \cup Downlinks

VARIABLES
  chip,   \* "STDBY", "RX" or "TX"
  irq,    \* the interrupt flags that are set
  mem,    \* the data buffer: what each half holds
  base,   \* the base addresses of SetBufferBaseAddress
  last    \* GetRxBufferStatus: the frame last received and where it starts

radio == <<chip, irq, mem, base, last>>

Frame == Uplinks \cup Downlinks \cup {Noise}

\* The two addresses the code ever uses as a base: 0x00 and 0x80.
Half == {0, 128}

IrqFlags == {"TX_DONE", "RX_DONE", "TIMEOUT", "CRC_ERROR", "HEADER_ERROR"}

RadioTypeOK ==
  /\ chip \in {"STDBY", "RX", "TX"}
  /\ irq \in SUBSET IrqFlags
  /\ mem \in [Half -> Frame]
  /\ base \in [tx : Half, rx : Half]
  /\ last \in [frame : Frame, start : Half]

(* The chip after SX1262.init: standby, flags cleared, tx and rx in       *)
(* separate halves of the buffer, nothing received yet.                    *)
RadioInit ==
  /\ chip = "STDBY"
  /\ irq = {}
  /\ mem = [h \in Half |-> Noise]
  /\ base = [tx |-> 0, rx |-> 128]
  /\ last = [frame |-> Noise, start |-> 128]

-----------------------------------------------------------------------------
(* Commands.  SetRx and SetStandby end whatever the chip was doing, a      *)
(* transmission included.                                                  *)

EnterMode(m) ==
  /\ chip' = m
  /\ UNCHANGED <<irq, mem, base, last>>

SetStandby == EnterMode("STDBY")
SetRx == EnterMode("RX")
SetTx == EnterMode("TX")

SetBufferBase(tx, rx) ==
  /\ base' = [tx |-> tx, rx |-> rx]
  /\ UNCHANGED <<chip, irq, mem, last>>

WriteBuffer(offset, f) ==
  /\ mem' = [mem EXCEPT ![offset] = f]
  /\ UNCHANGED <<chip, irq, base, last>>

ClearIrq(mask) ==
  /\ irq' = irq \ mask
  /\ UNCHANGED <<chip, mem, base, last>>

\* A command that only reads the chip.
Query == UNCHANGED radio

-----------------------------------------------------------------------------
(* What the chip does by itself.  In continuous receive mode it stays in   *)
(* RX after a packet; after a transmission it falls back to standby.       *)

Store(f, flag) ==
  /\ chip = "RX"
  /\ mem' = [mem EXCEPT ![base.rx] = f]
  /\ last' = [frame |-> f, start |-> base.rx]
  /\ irq' = irq \cup {flag}
  /\ UNCHANGED <<chip, base>>

ReceiveFrame(f) == Store(f, "RX_DONE")

ReceiveCorrupt == Store(Noise, "CRC_ERROR")

ReceiveBadHeader ==
  /\ chip = "RX"
  /\ irq' = irq \cup {"HEADER_ERROR"}
  /\ UNCHANGED <<chip, mem, base, last>>

FinishTx ==
  /\ chip = "TX"
  /\ chip' = "STDBY"
  /\ irq' = irq \cup {"TX_DONE"}
  /\ UNCHANGED <<mem, base, last>>
=============================================================================
