----------------------------- MODULE NodeProofs ------------------------------
(***************************************************************************)
(* Theorems about Node, for every modulus of the nonce, any number of I2C  *)
(* faults, and programs that use LoRaWANNode as they like: type            *)
(* correctness, InitClean, SentAsWritten and StandbyBeforeTx.              *)
(***************************************************************************)
EXTENDS Node, TLAPS

-----------------------------------------------------------------------------
(* The inductive invariant: what the commands executed so far have made of *)
(* the chip, at the places of the program where the next one relies on it. *)

SeparateHalves == [tx |-> 0, rx |-> 128]

\* Between the command that ends what the chip was doing and the one that
\* starts something new, the chip does nothing by itself.
AtRest ==
  pc \in {"standby", "config", "sync", "bases", "clear", "txbase", "txwrite"}
    => chip = "STDBY"

\* SetTx meets the frame of this join and a chip in standby, or one that an
\* attempt of the same SetTx has made transmit this frame.
ReadyToSend ==
  /\ pc = "txwrite" => base = SeparateHalves
  /\ pc = "settx" =>
       /\ chip # "RX" /\ base = SeparateHalves /\ mem[0] = Request(dev_nonce)
       /\ chip = "TX" => onAir = Request(dev_nonce) /\ faults > 0

IndInv == TypeOK /\ AtRest /\ ReadyToSend /\ InitClean /\ SentAsWritten

-----------------------------------------------------------------------------

LEMMA NonceType ==
  ASSUME NEW n \in Nat
  PROVE  (n + 1) % NonceMod \in 0..(NonceMod - 1)
BY NodeAssumption

LEMMA InitInd == Init => IndInv
<1> SUFFICES ASSUME Init PROVE IndInv
  OBVIOUS
<1> USE NodeAssumption
<1>1. RadioTypeOK
  BY DEF Init, RadioTypeOK, Half, Frame, IrqFlags
<1>2. TypeOK
  <2>1. timed \in BOOLEAN /\ joined \in BOOLEAN /\ armed \in BOOLEAN /\ ours \in BOOLEAN
    BY Zenon DEF Init
  <2>2. /\ pc \in Pcs /\ call \in {"none", "join", "listen"}
        /\ dev_nonce \in 0..(NonceMod - 1) /\ expired \in SUBSET Deadlines
        /\ pkt \in Frame \cup {None} /\ onAir \in Frame /\ faults \in 0..MaxFaults
    BY DEF Init, Pcs, Running, Initialising, Frame
  <2> QED
    BY <1>1, <2>1, <2>2 DEF TypeOK
<1> QED
  BY <1>2 DEF Init, IndInv, AtRest, ReadyToSend, InitClean, SentAsWritten

\* The steps of the program that send nothing to the chip.
Silent ==
  \/ CallJoin \/ TxWait \/ CallListen \/ WaitDeadline \/ RxDeadline
  \/ JoinReturn \/ ListenReturn \/ Process
  \/ \E d \in Deadlines : Expire(d)

LEMMA SilentInd ==
  ASSUME IndInv, Silent
  PROVE  IndInv'
<1> USE NodeAssumption DEF IndInv
<1>1. UNCHANGED chipVars /\ UNCHANGED <<ours, onAir, faults>>
  BY DEF Silent, CallJoin, TxWait, CallListen, WaitDeadline, RxDeadline,
         JoinReturn, ListenReturn, Process, Kill, Start, Expire, quiet, callVars
<1>2. TypeOK'
  <2>1. timed' \in BOOLEAN /\ joined' \in BOOLEAN /\ armed' \in BOOLEAN
    BY Zenon DEF Silent, CallJoin, TxWait, CallListen, WaitDeadline, RxDeadline,
         JoinReturn, ListenReturn, Process, Kill, Start, Expire, quiet, callVars,
         TypeOK
  <2>2. pc' \in Pcs
    BY DEF Silent, CallJoin, TxWait, CallListen, WaitDeadline, RxDeadline,
         JoinReturn, ListenReturn, Process, Kill, Start, Expire, TypeOK, Pcs,
         Running, Initialising, Calling, Sending, Receiving
  <2>3. dev_nonce' \in 0..(NonceMod - 1)
    BY NonceType
       DEF Silent, CallJoin, TxWait, CallListen, WaitDeadline, RxDeadline,
         JoinReturn, ListenReturn, Process, Kill, Start, Expire, TypeOK, quiet,
         callVars
  <2>4. call' \in {"none", "join", "listen"} /\ pkt' \in Frame \cup {None}
    BY DEF Silent, CallJoin, TxWait, CallListen, WaitDeadline, RxDeadline,
         JoinReturn, ListenReturn, Process, Kill, Start, Expire, TypeOK, quiet,
         callVars
  <2>5. expired' \in SUBSET Deadlines
    BY DEF Silent, CallJoin, TxWait, CallListen, WaitDeadline, RxDeadline,
         JoinReturn, ListenReturn, Process, Kill, Start, Expire, TypeOK, quiet
  <2> QED
    BY <1>1, <2>1, <2>2, <2>3, <2>4, <2>5 DEF TypeOK, RadioTypeOK, chipVars
<1>3. AtRest' /\ ReadyToSend' /\ InitClean'
  BY <1>1
     DEF Silent, CallJoin, TxWait, CallListen, WaitDeadline, RxDeadline,
         JoinReturn, ListenReturn, Process, Kill, Start, Expire, quiet, callVars,
         AtRest, ReadyToSend, InitClean, chipVars
<1>4. SentAsWritten'
  BY <1>1 DEF SentAsWritten, chipVars
<1> QED
  BY <1>2, <1>3, <1>4

-----------------------------------------------------------------------------
(* The commands.                                                           *)

LEMMA InitRadioInd ==
  ASSUME IndInv, InitRadio
  PROVE  IndInv'
<1> USE NodeAssumption DEF IndInv, Do, Command, Faulty, Query, radio
<1>1. UNCHANGED <<timed, callVars, expired, armed, onAir>>
  BY DEF InitRadio, InitSleep, InitStandby, InitConfig, InitSync, InitBases,
         InitClear, quiet
<1>2. /\ ours' \in BOOLEAN /\ faults' \in 0..MaxFaults /\ pc' \in Pcs
      /\ RadioTypeOK'
  <2>1. ours' \in BOOLEAN
    BY Zenon DEF InitRadio, InitSleep, InitStandby, InitConfig, InitSync,
         InitBases, InitClear, quiet, TypeOK
  <2>2. faults' \in 0..MaxFaults /\ pc' \in Pcs
    BY DEF InitRadio, InitSleep, InitStandby, InitConfig, InitSync, InitBases,
         InitClear, TypeOK, Pcs, Running, Initialising
  <2>3. RadioTypeOK'
    BY DEF InitRadio, InitSleep, InitStandby, InitConfig, InitSync, InitBases,
         InitClear, TypeOK, RadioTypeOK, Half, Frame, SetStandby, EnterMode,
         WriteBuffer, SetBufferBase, ClearIrq
  <2> QED
    BY <2>1, <2>2, <2>3
<1>3. TypeOK'
  BY <1>1, <1>2 DEF TypeOK, callVars
<1>4. AtRest' /\ ReadyToSend'
  BY DEF InitRadio, InitSleep, InitStandby, InitConfig, InitSync, InitBases,
         InitClear, AtRest, ReadyToSend, SetStandby, EnterMode, WriteBuffer,
         SetBufferBase, ClearIrq
<1>5. InitClean'
  BY DEF InitRadio, InitSleep, InitStandby, InitConfig, InitSync, InitBases,
         InitClear, AtRest, InitClean, ClearIrq, TypeOK, RadioTypeOK
<1>6. SentAsWritten'
  BY <1>1
     DEF InitRadio, InitSleep, InitStandby, InitConfig, InitSync, InitBases,
         InitClear, quiet, AtRest, SentAsWritten, SetStandby, EnterMode,
         WriteBuffer, SetBufferBase, ClearIrq
<1> QED
  BY <1>3, <1>4, <1>5, <1>6

LEMMA TransmitInd ==
  ASSUME IndInv, TxStandby \/ TxBase \/ TxWrite \/ TxSet \/ TxAfter \/ TxClear
  PROVE  IndInv'
<1> USE NodeAssumption DEF IndInv, Do, Command, Faulty, Query, radio
<1>1. UNCHANGED <<callVars, expired, armed, ours>>
  BY DEF TxStandby, TxBase, TxWrite, TxSet, TxAfter, TxClear, quiet
<1>2. Request(dev_nonce) \in Requests
  BY DEF TypeOK, Requests
<1>3. timed' \in BOOLEAN
  BY Zenon DEF TxStandby, TxBase, TxWrite, TxSet, TxAfter, TxClear, quiet, TypeOK
<1>4. /\ faults' \in 0..MaxFaults /\ pc' \in Pcs /\ onAir' \in Frame
  BY <1>2
     DEF TxStandby, TxBase, TxWrite, TxSet, TxAfter, TxClear, quiet, TypeOK, Pcs,
         Running, Calling, Sending, Frame
<1>5. RadioTypeOK'
  BY <1>2
     DEF TxStandby, TxBase, TxWrite, TxSet, TxAfter, TxClear, TypeOK, RadioTypeOK,
         Half, Frame, SetStandby, SetTx, EnterMode, WriteBuffer, SetBufferBase,
         ClearIrq
<1>6. TypeOK'
  BY <1>1, <1>3, <1>4, <1>5 DEF TypeOK, callVars
<1>7. AtRest' /\ ReadyToSend' /\ InitClean'
  BY <1>1
     DEF TxStandby, TxBase, TxWrite, TxSet, TxAfter, TxClear, AtRest, ReadyToSend,
         InitClean, SeparateHalves, TypeOK, RadioTypeOK, Half, callVars,
         SetStandby, SetTx, EnterMode, WriteBuffer, SetBufferBase, ClearIrq
<1>8. SentAsWritten'
  BY <1>1
     DEF TxStandby, TxBase, TxWrite, TxSet, TxAfter, TxClear, quiet, AtRest,
         ReadyToSend, SentAsWritten, SeparateHalves, SetStandby, SetTx, EnterMode,
         WriteBuffer, SetBufferBase, ClearIrq
<1> QED
  BY <1>6, <1>7, <1>8

ReceiveCommand ==
  WaitPoll \/ RxSet \/ RxPoll \/ RxClear \/ RxDrop \/ RxStatus \/ RxRead \/ RxGot

LEMMA ReceiveInd ==
  ASSUME IndInv, ReceiveCommand
  PROVE  IndInv'
<1> USE NodeAssumption
    DEF IndInv, Do, Command, Faulty, Query, radio, ReceiveCommand
<1>1. /\ UNCHANGED <<call, dev_nonce, joined, ours, onAir>>
      /\ UNCHANGED <<mem, base, last>>
  BY DEF WaitPoll, RxSet, RxPoll, RxClear, RxDrop, RxStatus, RxRead, RxGot, quiet,
         callVars, SetRx, EnterMode, ClearIrq
<1>2. timed' \in BOOLEAN /\ armed' \in BOOLEAN
  BY Zenon
     DEF WaitPoll, RxSet, RxPoll, RxClear, RxDrop, RxStatus, RxRead, RxGot, quiet,
         TypeOK
<1>3. /\ faults' \in 0..MaxFaults
      /\ pc' \in Calling \cup {"failed"} /\ pc' \notin Sending
      /\ expired' \in SUBSET Deadlines
      /\ irq' \in SUBSET IrqFlags /\ chip' \in {chip, "RX"}
      /\ chip' = "TX" => chip = "TX"
  BY DEF WaitPoll, RxSet, RxPoll, RxClear, RxDrop, RxStatus, RxRead, RxGot, quiet,
         TypeOK, RadioTypeOK, Calling, Receiving, Sending, RxBranch, SetRx,
         EnterMode, ClearIrq
<1>4. pkt' \in Frame \cup {None}
  <2>1. BufferReadings \subseteq Frame
    BY DEF BufferReadings, TypeOK, RadioTypeOK, Half, Frame
  <2> QED
    BY <2>1
       DEF WaitPoll, RxSet, RxPoll, RxClear, RxDrop, RxStatus, RxRead, RxGot,
           quiet, callVars, TypeOK
<1>5. TypeOK'
  BY <1>1, <1>2, <1>3, <1>4
     DEF TypeOK, RadioTypeOK, Pcs, Running, Calling, Sending, Receiving
<1>6. AtRest' /\ ReadyToSend' /\ InitClean'
  BY <1>3
     DEF AtRest, ReadyToSend, InitClean, Calling, Sending, Receiving
<1>7. SentAsWritten'
  BY <1>1, <1>3 DEF SentAsWritten
<1> QED
  BY <1>5, <1>6, <1>7

-----------------------------------------------------------------------------
(* The chip.                                                               *)

LEMMA ChipInd ==
  ASSUME IndInv, ChipHears \/ ChipTimeout \/ ChipSent
  PROVE  IndInv'
<1> USE NodeAssumption DEF IndInv
<1>1. UNCHANGED <<notChip, base>>
  BY DEF ChipHears, ChipReceives, ChipTimeout, ChipSent, FinishTx
<1>2. chip' \in {chip, "STDBY"} /\ chip # "STDBY"
  BY DEF ChipHears, ChipReceives, ChipTimeout, ChipSent, FinishTx
<1>3. RadioTypeOK'
  <2> USE DEF TypeOK, RadioTypeOK, Frame
  <2>1. CASE ChipHears
    <3>1. PICK f \in Frame, flag \in IrqFlags : ChipReceives(f, flag)
      BY <2>1 DEF ChipHears, IrqFlags
    <3>2. chip' \in {"STDBY", "RX"} /\ irq' \in SUBSET IrqFlags
      BY <3>1 DEF ChipReceives
    <3>3. /\ mem' \in [Half -> Frame] /\ last' \in [frame : Frame, start : Half]
          /\ base' = base
      BY <3>1 DEF ChipReceives
    <3> QED
      BY <3>2, <3>3
  <2>2. CASE ChipTimeout \/ ChipSent
    BY <2>2 DEF ChipTimeout, ChipSent, FinishTx, IrqFlags
  <2> QED
    BY <2>1, <2>2
<1>4. chip = "TX" => mem' = mem
  BY DEF ChipHears, ChipReceives, ChipTimeout, ChipSent, FinishTx
<1>5. TypeOK'
  BY <1>1, <1>3 DEF TypeOK, notChip, callVars
<1>6. pc = "settx" => mem' = mem
  BY <1>2, <1>4 DEF ReadyToSend, TypeOK, RadioTypeOK
<1>7. AtRest' /\ ReadyToSend' /\ InitClean'
  BY <1>1, <1>2, <1>6
     DEF AtRest, ReadyToSend, InitClean, notChip, callVars
<1>8. SentAsWritten'
  BY <1>1, <1>2, <1>4 DEF SentAsWritten, notChip
<1> QED
  BY <1>5, <1>7, <1>8

LEMMA NextInd == IndInv /\ [Next]_vars => IndInv'
<1> SUFFICES ASSUME IndInv, [Next]_vars PROVE IndInv'
  OBVIOUS
<1>1. CASE Silent
  BY <1>1, SilentInd
<1>2. CASE InitRadio
  BY <1>2, InitRadioInd
<1>3. CASE TxStandby \/ TxBase \/ TxWrite \/ TxSet \/ TxAfter \/ TxClear
  BY <1>3, TransmitInd
<1>4. CASE ReceiveCommand
  BY <1>4, ReceiveInd
<1>5. CASE ChipHears \/ ChipTimeout \/ ChipSent
  BY <1>5, ChipInd
<1>6. CASE UNCHANGED vars
  BY <1>6
     DEF vars, chipVars, callVars, IndInv, TypeOK, RadioTypeOK, AtRest,
         ReadyToSend, InitClean, SentAsWritten
<1> QED
  BY <1>1, <1>2, <1>3, <1>4, <1>5, <1>6
     DEF Next, Program, Transmit, Receive, Silent, ReceiveCommand

-----------------------------------------------------------------------------
(* The theorems.                                                           *)

LEMMA Inductive == Spec => []IndInv
BY InitInd, NextInd, PTL DEF Spec

\* The variables keep their types whatever fails and whoever is killed.
THEOREM TypeCorrect == Spec => []TypeOK
BY Inductive, PTL DEF IndInv

\* init() hands over a chip in standby with no flag set, for any number of
\* I2C faults and from any state the chip was left in.
THEOREM InitCleanHolds == Spec => []InitClean
BY Inductive, PTL DEF IndInv

\* What the node has on the air is the frame handed to SetTx, also across the
\* death of the process and the init() of its successor.
THEOREM SentAsWrittenHolds == Spec => []SentAsWritten
BY Inductive, PTL DEF IndInv

\* SetTx is executed in standby only, or, by a retry after an I2C fault, while
\* the chip transmits the frame that the same SetTx has put on the air.
THEOREM StandbyBeforeTxHolds == Spec => StandbyBeforeTx
<1>1. ASSUME IndInv, Next, chip' = "TX"
      PROVE  \/ pc # "settx" /\ chip = "TX"
             \/ chip = "STDBY"
             \/ chip = "TX" /\ onAir = Request(dev_nonce) /\ faults > 0
  <2>1. CASE TxSet
    BY <1>1, <2>1
       DEF IndInv, ReadyToSend, TypeOK, RadioTypeOK, TxSet, Do, Command
  <2>2. CASE ~TxSet
    <3>1. chip = "TX"
      BY <1>1, <2>2
         DEF Next, Program, InitRadio, Transmit, Receive, Process, InitSleep,
             InitStandby, InitConfig, InitSync, InitBases, InitClear, CallJoin,
             TxStandby, TxBase, TxWrite, TxWait, TxAfter, TxClear, CallListen,
             WaitDeadline, WaitPoll, RxSet, RxDeadline, RxPoll, RxClear, RxDrop,
             RxStatus, RxRead, RxGot, JoinReturn, ListenReturn, Kill, Start,
             Expire, ChipHears, ChipReceives, ChipTimeout, ChipSent, FinishTx, Do,
             Command, Faulty, Query, radio, chipVars, SetStandby, SetRx,
             EnterMode, WriteBuffer, SetBufferBase, ClearIrq
    <3> QED
      BY <1>1, <3>1 DEF IndInv, ReadyToSend
  <2> QED
    BY <2>1, <2>2
<1>2. IndInv /\ [Next]_vars =>
        [chip' = "TX" =>
           \/ pc # "settx" /\ chip = "TX"
           \/ chip = "STDBY"
           \/ chip = "TX" /\ onAir = Request(dev_nonce) /\ faults > 0]_vars
  BY <1>1 DEF vars, chipVars
<1> QED
  BY <1>2, Inductive, PTL DEF Spec, StandbyBeforeTx
=============================================================================
