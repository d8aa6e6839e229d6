--------------------------- MODULE ForwarderProofs ---------------------------
(***************************************************************************)
(* Theorems about Forwarder, for every set of frames and every bound:      *)
(* type correctness, the order of the downlink queue, NeverStranded,       *)
(* DoneIsOwn, that the threads implement DownlinkService, and that no      *)
(* frame is pushed more often than the radio received it.                  *)
(***************************************************************************)
EXTENDS Forwarder, TLAPS

-----------------------------------------------------------------------------
(* The inductive invariant of the data: types, the locals that a pc        *)
(* promises to be there, and the queue as the part of the log of           *)
(* deliveries that has not been taken.                                     *)

LocalsSet ==
  /\ rxpc = "read" => meta # None
  /\ rxpc = "push" => payload # <<>>
  /\ txcur = None <=> txpc \in {"idle", "exited"}
  /\ txcur = None => sends = 0

QueueIsSuffix ==
  /\ Len(queue) <= Len(delivered)
  /\ Len(delivered) <= MaxDown
  /\ \A i \in 1..Len(queue) : queue[i] = delivered[Taken + i]

\* SetTx has been executed for downlinks that were taken only, and not yet
\* for one that is still being prepared.
OnAirTaken ==
  /\ onAir <= Taken
  /\ txpc \in {"standby", "base", "write"} => onAir < Taken

IndInv == TypeOK /\ LocalsSet /\ QueueIsSuffix /\ OnAirTaken

(* The invariant behind DoneIsOwn: while readings are exact, transfers do  *)
(* not fail and the deadline is not missed, TX_DONE is set only between    *)
(* the end of a transmission and the clear_irq of its own downlink.        *)

Aired == \E f \in Frame : <<Taken, f>> \in air

Exact == Timely /\ ~Garbled /\ faults = 0

FlagIsOwn ==
  /\ "TIMEOUT" \notin irq
  /\ txpc # "txto"
  /\ txpc = "txdone" => Aired
  /\ busOpen => /\ txpc # "wait" => chip # "TX"
                /\ txpc \notin {"wait", "txdone"} => "TX_DONE" \notin irq
                /\ txpc = "wait" => /\ chip = "TX" => onAir = Taken /\ "TX_DONE" \notin irq
                                    /\ "TX_DONE" \in irq => Aired

DoneInv == Exact => FlagIsOwn

-----------------------------------------------------------------------------
(* What the actors leave alone, variable by variable.                      *)

LEMMA RxFrame ==
  ASSUME RxLoop \/ Cool
  PROVE  /\ txpc' = txpc /\ txcur' = txcur /\ queue' = queue
         /\ onAir' = onAir /\ sends' = sends /\ air' = air /\ mpc' = mpc
         /\ listening' = listening /\ delivered' = delivered
         /\ heard' = heard
BY DEF RxLoop, RxStart, RxTop, RxResume, RxPoll, RxClear, RxStatus,
       RxBadLength, RxRead, RxPush, RxRearm, RxTimeout, RxError, Cool,
       rxLocals, notRx, txVars, mainVars

\* The transfers of rx-loop that only move its pc.
RxPlain ==
  \/ RxStart \/ RxResume \/ RxPoll \/ RxClear
  \/ RxBadLength \/ RxRearm \/ RxTimeout \/ RxError

LEMMA RxPlainFrame ==
  ASSUME RxPlain
  PROVE  /\ meta' = meta /\ payload' = payload /\ rateOk' = rateOk
         /\ lastPayload' = lastPayload /\ pushed' = pushed /\ txDone' = txDone
BY DEF RxPlain, RxStart, RxResume, RxPoll, RxClear, RxBadLength, RxRearm,
       RxTimeout, RxError, rxLocals

LEMMA TxFrame ==
  ASSUME TxDrain
  PROVE  /\ rxpc' = rxpc /\ meta' = meta /\ payload' = payload
         /\ lastPayload' = lastPayload /\ rateOk' = rateOk
         /\ heard' = heard /\ pushed' = pushed /\ mpc' = mpc
         /\ listening' = listening /\ delivered' = delivered
BY DEF TxDrain, TxStop, TxPop, TxStandby, TxBase, TxWrite, TxSetTx, TxPoll,
       TxExpire, TxClear, TxFinally, txLocals, notTx, rxVars, mainVars

\* The transfers of tx-drain that only move its pc.
TxPlain == TxStandby \/ TxBase \/ TxWrite \/ TxPoll \/ TxClear

LEMMA TxPlainFrame ==
  ASSUME TxPlain
  PROVE  /\ txcur' = txcur /\ queue' = queue /\ onAir' = onAir
         /\ sends' = sends /\ air' = air /\ txDone' = txDone
BY DEF TxPlain, TxStandby, TxBase, TxWrite, TxPoll, TxClear, txLocals

LEMMA MainFrame ==
  ASSUME Main
  PROVE  /\ rxpc' = rxpc /\ meta' = meta /\ payload' = payload
         /\ lastPayload' = lastPayload /\ rateOk' = rateOk
         /\ heard' = heard /\ pushed' = pushed /\ txDone' = txDone
         /\ txpc' = txpc /\ txcur' = txcur /\ queue' = queue
         /\ onAir' = onAir /\ sends' = sends /\ air' = air
         /\ delivered' = delivered
BY DEF Main, MainInterrupt, MainShutdown, MainClose, MainExit, Terminate,
       notMain, rxVars, txVars

\* What is received reaches the threads through the chip only.
Reception == (\E f \in Uplinks : AirUplink(f)) \/ AirCorrupt \/ AirBadHeader

LEMMA ReceptionFrame ==
  ASSUME Reception
  PROVE  /\ rxpc' = rxpc /\ meta' = meta /\ payload' = payload
         /\ lastPayload' = lastPayload /\ rateOk' = rateOk
         /\ pushed' = pushed /\ txDone' = txDone /\ txpc' = txpc
         /\ txcur' = txcur /\ queue' = queue /\ onAir' = onAir
         /\ sends' = sends /\ air' = air /\ mpc' = mpc /\ listening' = listening
         /\ delivered' = delivered /\ faults' = faults
         /\ chip = "RX" /\ chip' = "RX" /\ base' = base
         /\ irq' \in {irq \cup {f} : f \in {"RX_DONE", "CRC_ERROR", "HEADER_ERROR"}}
         /\ \E f \in Uplinks \cup {Noise} : heard' = heard (+) SetToBag({f})
BY DEF Reception, AirUplink, AirCorrupt, AirBadHeader, ReceiveFrame,
       ReceiveCorrupt, ReceiveBadHeader, Store, Hear, txVars, mainVars

\* The steps that leave every variable alone.
LEMMA Stutter ==
  ASSUME UNCHANGED vars
  PROVE  /\ chip' = chip /\ irq' = irq /\ mem' = mem /\ base' = base
         /\ last' = last /\ rxpc' = rxpc /\ meta' = meta
         /\ payload' = payload /\ lastPayload' = lastPayload
         /\ rateOk' = rateOk /\ txpc' = txpc /\ txcur' = txcur
         /\ queue' = queue /\ txDone' = txDone /\ mpc' = mpc
         /\ listening' = listening /\ faults' = faults /\ heard' = heard
         /\ pushed' = pushed /\ delivered' = delivered /\ onAir' = onAir
         /\ sends' = sends /\ air' = air
BY DEF vars, radio, rxVars, txVars, mainVars

\* A step of Next is a step of one of these actors.
LEMMA Actors ==
  ASSUME [Next]_vars
  PROVE  \/ RxLoop \/ Cool \/ TxDrain
         \/ \E d \in Downlinks : UdpPullResp(d)
         \/ Main \/ Reception \/ AirTxEnd \/ UNCHANGED vars
BY DEF Next, Air, Reception

-----------------------------------------------------------------------------
(* Type correctness.                                                       *)

LEMMA BagAdd ==
  ASSUME NEW S, NEW B, NEW e \in S, IsABag(B), DOMAIN B \subseteq S
  PROVE  IsABag(B (+) SetToBag({e})) /\ DOMAIN (B (+) SetToBag({e})) \subseteq S
BY DEF IsABag, (+), SetToBag

LEMMA InitInd == Init => IndInv
<1> SUFFICES ASSUME Init PROVE IndInv
  OBVIOUS
<1> USE FrameAssumption, ForwarderAssumption DEF Init
<1>1. RadioTypeOK
  BY DEF RadioInit, RadioTypeOK, Half, Frame, IrqFlags
<1>2. TypeOK
  <2>1. /\ queue \in Seq(Downlinks) /\ delivered \in Seq(Downlinks)
        /\ IsABag(heard) /\ DOMAIN heard \subseteq Frame
        /\ IsABag(pushed) /\ DOMAIN pushed \subseteq Payload
    BY DEF EmptyBag, SetToBag, IsABag
  <2>2. rateOk \in BOOLEAN /\ txDone \in BOOLEAN /\ listening \in BOOLEAN
    BY Zenon
  <2>3. /\ payload \in Payload \cup {<<>>}
        /\ lastPayload \in Payload \cup {<<>>}
    OBVIOUS
  <2>4. /\ faults \in 0..MaxFaults /\ onAir \in 0..MaxDown /\ sends \in Nat
        /\ air \subseteq (0..MaxDown) \X Frame
        /\ meta \in Status \cup {None} /\ txcur \in Downlinks \cup {None}
    OBVIOUS
  <2>5. rxpc \in RxPcs /\ txpc \in TxPcs /\ mpc \in MainPcs
    BY DEF RxPcs, TxPcs, MainPcs
  <2> QED
    BY <1>1, <2>1, <2>2, <2>3, <2>4, <2>5 DEF TypeOK
<1>3. LocalsSet /\ QueueIsSuffix /\ OnAirTaken
  BY DEF LocalsSet, QueueIsSuffix, OnAirTaken, Taken
<1> QED
  BY <1>2, <1>3 DEF IndInv

LEMMA TypeRx ==
  ASSUME IndInv, RxLoop
  PROVE  TypeOK'
<1> USE FrameAssumption, ForwarderAssumption, RxFrame
<1> USE DEF IndInv, TypeOK, RadioTypeOK, RxPcs, RxCommand, Transfer, Returns,
            Faulty, Raises, Query, radio
<1>1. CASE RxStart \/ RxResume \/ RxBadLength \/ RxRearm
  BY <1>1, RxPlainFrame
     DEF RxPlain, RxStart, RxResume, RxBadLength, RxRearm, SetRx, EnterMode
<1>2. CASE RxTop
  BY <1>2 DEF RxTop, rxLocals
<1>3. CASE RxPoll
  BY <1>3, RxPlainFrame DEF RxPlain, RxPoll, RxBranch
<1>4. CASE RxClear \/ RxTimeout \/ RxError
  BY <1>4, RxPlainFrame DEF RxPlain, RxClear, RxTimeout, RxError, ClearIrq
<1>5. CASE RxStatus
  BY <1>5 DEF RxStatus, StatusReadings, Status, Frame
<1>6. CASE RxRead
  BY <1>6 DEF RxRead, BufferReadings, Status, Frame, Payload, LocalsSet
<1>7. CASE RxPush
  <2>1. payload \in Payload
    BY <1>7 DEF RxPush, LocalsSet
  <2>2. /\ lastPayload' \in Payload \cup {<<>>}
        /\ rateOk' \in BOOLEAN
        /\ IsABag(pushed') /\ DOMAIN pushed' \subseteq Payload
    <3>1. CASE RxSend
      <4>1. rateOk' \in BOOLEAN
        BY <3>1, Zenon DEF RxSend
      <4>2. lastPayload' \in Payload \cup {<<>>}
        BY <2>1, <3>1 DEF RxSend
      <4>3. IsABag(pushed') /\ DOMAIN pushed' \subseteq Payload
        BY <2>1, <3>1, BagAdd DEF RxSend
      <4> QED
        BY <4>1, <4>2, <4>3
    <3>2. CASE RxSkip \/ RxSendError
      BY <3>2 DEF RxSkip, RxSendError
    <3> QED
      BY <1>7, <3>1, <3>2 DEF RxPush
  <2>3. /\ payload' = <<>> /\ meta' = meta /\ txDone' = txDone
        /\ faults' = faults /\ rxpc' = "rearm"
        /\ UNCHANGED <<chip, irq, mem, base, last>>
    BY <1>7 DEF RxPush
  <2> QED
    BY <2>2, <2>3
<1> QED
  BY <1>1, <1>2, <1>3, <1>4, <1>5, <1>6, <1>7 DEF RxLoop

LEMMA TypeTx ==
  ASSUME IndInv, TxDrain
  PROVE  TypeOK'
<1> USE FrameAssumption, ForwarderAssumption, TxFrame
<1> USE DEF IndInv, TypeOK, RadioTypeOK, TxPcs, TxCommand, Transfer, Returns,
            Faulty, Raises, Query, radio
<1>1. CASE TxStop \/ TxExpire
  BY <1>1 DEF TxStop, TxExpire, txLocals
<1>2. CASE TxPop
  BY <1>2 DEF TxPop
<1>3. CASE TxStandby
  BY <1>3, TxPlainFrame DEF TxPlain, TxStandby, SetStandby, EnterMode
<1>4. CASE TxBase
  BY <1>4, TxPlainFrame DEF TxPlain, TxBase, SetBufferBase, Half
<1>5. CASE TxWrite
  BY <1>5, TxPlainFrame
     DEF TxPlain, TxWrite, WriteBuffer, LocalsSet, Half, Frame
<1>6. CASE TxSetTx
  BY <1>6 DEF TxSetTx, SetTx, EnterMode, Taken, QueueIsSuffix
<1>7. CASE TxPoll
  BY <1>7, TxPlainFrame DEF TxPlain, TxPoll, TxBranch
<1>8. CASE TxClear
  BY <1>8, TxPlainFrame DEF TxPlain, TxClear, ClearIrq
<1>9. CASE TxFinally
  BY <1>9 DEF TxFinally
<1> QED
  BY <1>1, <1>2, <1>3, <1>4, <1>5, <1>6, <1>7, <1>8, <1>9 DEF TxDrain

LEMMA TypeRest ==
  ASSUME IndInv, [Next]_vars, ~RxLoop, ~TxDrain
  PROVE  TypeOK'
<1> USE FrameAssumption, ForwarderAssumption
<1> USE DEF IndInv, TypeOK, RadioTypeOK
<1>1. CASE Cool
  BY <1>1, RxFrame DEF Cool, radio
<1>2. ASSUME NEW d \in Downlinks, UdpPullResp(d)
      PROVE  TypeOK'
  BY <1>2 DEF UdpPullResp, radio, rxVars
<1>3. CASE Main
  <2>1. /\ mpc' \in MainPcs /\ listening' \in BOOLEAN
        /\ delivered' = delivered
    BY <1>3, MainFrame
       DEF Main, MainInterrupt, MainShutdown, MainClose, MainExit, Terminate,
           notMain, MainPcs, Transfer
  <2>2. /\ chip' \in {chip, "STDBY"} /\ UNCHANGED <<irq, mem, base, last>>
        /\ faults' \in 0..MaxFaults
    <3>1. CASE MainShutdown
      BY <3>1 DEF MainShutdown, Transfer, Returns, Faulty, Raises, Query,
                  radio, SetStandby, EnterMode
    <3> QED
      BY <1>3, <3>1 DEF Main, MainInterrupt, MainClose, MainExit, Terminate,
                        radio
  <2> QED
    BY <1>3, <2>1, <2>2, MainFrame
<1>4. CASE Reception
  <2>1. RadioTypeOK'
    <3>1. PICK f \in Frame, flag \in {"RX_DONE", "CRC_ERROR"} :
            Store(f, flag) \/ ReceiveBadHeader
      BY <1>4 DEF Reception, AirUplink, AirCorrupt, AirBadHeader, ReceiveFrame,
                  ReceiveCorrupt, Frame
    <3>2. CASE Store(f, flag)
      BY <3>2 DEF Store, IrqFlags
    <3>3. CASE ReceiveBadHeader
      BY <3>3 DEF ReceiveBadHeader, IrqFlags
    <3> QED
      BY <3>1, <3>2, <3>3
  <2>2. IsABag(heard') /\ DOMAIN heard' \subseteq Frame
    <3>1. PICK f \in Uplinks \cup {Noise} : heard' = heard (+) SetToBag({f})
      BY <1>4, ReceptionFrame
    <3>2. f \in Frame
      BY <3>1 DEF Frame
    <3> QED
      BY <3>1, <3>2, BagAdd
  <2> QED
    BY <1>4, <2>1, <2>2, ReceptionFrame
<1>5. CASE AirTxEnd
  BY <1>5 DEF AirTxEnd, FinishTx, rxVars, mainVars, Frame, IrqFlags
<1>6. CASE UNCHANGED vars
  BY <1>6, Stutter
<1> QED
  BY <1>1, <1>2, <1>3, <1>4, <1>5, <1>6, Actors

LEMMA TypeStep == IndInv /\ [Next]_vars => TypeOK'
BY TypeRx, TypeTx, TypeRest


LEMMA LocalsStep == IndInv /\ [Next]_vars => LocalsSet'
<1> SUFFICES ASSUME IndInv, [Next]_vars
             PROVE  LocalsSet'
  OBVIOUS
<1> USE ForwarderAssumption DEF IndInv, LocalsSet
<1>1. CASE RxLoop
  <2>1. CASE RxPlain
    BY <1>1, <2>1, RxFrame, RxPlainFrame
       DEF RxPlain, RxStart, RxResume, RxPoll, RxBranch, RxClear, RxBadLength,
           RxRearm, RxTimeout, RxError, RxCommand, Transfer
  <2>2. CASE RxTop
    BY <1>1, <2>2, RxFrame DEF RxTop
  <2>3. CASE RxStatus
    BY <1>1, <2>3, RxFrame DEF RxStatus, RxCommand, Transfer
  <2>4. CASE RxRead
    BY <1>1, <2>4, RxFrame DEF RxRead, RxCommand, Transfer
  <2>5. CASE RxPush
    BY <1>1, <2>5, RxFrame DEF RxPush
  <2> QED
    BY <1>1, <2>1, <2>2, <2>3, <2>4, <2>5 DEF RxLoop, RxPlain
<1>2. CASE TxDrain
  <2>1. CASE TxPlain
    BY <1>2, <2>1, TxFrame, TxPlainFrame
       DEF TxPlain, TxStandby, TxBase, TxWrite, TxPoll, TxBranch, TxClear,
           TxCommand, Transfer
  <2>2. CASE TxPop
    <3>1. Head(queue) \in Downlinks
      BY <2>2 DEF TxPop, TypeOK
    <3>2. Head(queue) # None
      BY <3>1 DEF Frame
    <3> QED
      BY <1>2, <2>2, <3>2, TxFrame DEF TxPop
  <2>3. CASE TxSetTx
    BY <1>2, <2>3, TxFrame DEF TxSetTx, TxCommand, Transfer
  <2>4. CASE TxStop \/ TxExpire \/ TxFinally
    BY <1>2, <2>4, TxFrame DEF TxStop, TxExpire, TxFinally, txLocals
  <2> QED
    BY <1>2, <2>1, <2>2, <2>3, <2>4 DEF TxDrain, TxPlain
<1>3. CASE \E d \in Downlinks : UdpPullResp(d)
  BY <1>3 DEF UdpPullResp, rxVars
<1>4. CASE AirTxEnd
  BY <1>4 DEF AirTxEnd, rxVars
<1>5. CASE Cool
  BY <1>5, RxFrame DEF Cool
<1>6. CASE Main
  BY <1>6, MainFrame
<1>7. CASE Reception
  BY <1>7, ReceptionFrame
<1>8. CASE UNCHANGED vars
  BY <1>8, Stutter
<1> QED
  BY <1>1, <1>2, <1>3, <1>4, <1>5, <1>6, <1>7, <1>8, Actors

-----------------------------------------------------------------------------
(* The queue.                                                              *)

\* Taking the head of the queue.
LEMMA PopSuffix ==
  ASSUME TypeOK, QueueIsSuffix, queue # <<>>,
         queue' = Tail(queue), delivered' = delivered
  PROVE  /\ QueueIsSuffix'
         /\ Taken' = Taken + 1
         /\ Taken < Len(delivered)
         /\ Head(queue) = delivered[Taken + 1]
<1> USE DEF TypeOK, QueueIsSuffix, Taken
<1>1. /\ Len(queue) \in Nat \ {0} /\ Len(delivered) \in Nat
      /\ Head(queue) = queue[1]
      /\ Len(Tail(queue)) = Len(queue) - 1
      /\ \A i \in 1..Len(Tail(queue)) : Tail(queue)[i] = queue[i + 1]
  OBVIOUS
<1>2. ForwarderAssumption
  BY ForwarderAssumption
<1>3. Taken' = Taken + 1 /\ Taken < Len(delivered)
  BY <1>1
<1>4. \A i \in 1..Len(queue') : queue'[i] = delivered'[Taken' + i]
  <2> SUFFICES ASSUME NEW i \in 1..Len(queue')
               PROVE  queue'[i] = delivered'[Taken' + i]
    OBVIOUS
  <2>1. queue'[i] = queue[i + 1] /\ i + 1 \in 1..Len(queue)
    BY <1>1
  <2>2. queue[i + 1] = delivered[Taken + (i + 1)]
    BY <2>1
  <2>3. Taken' + i = Taken + (i + 1)
    BY <1>1, <1>3
  <2> QED
    BY <2>1, <2>2, <2>3
<1>5. QueueIsSuffix'
  BY <1>1, <1>2, <1>4 DEF ForwarderAssumption
<1> QED
  BY <1>1, <1>3, <1>5

\* A delivery at the end.
LEMMA AppendSuffix ==
  ASSUME TypeOK, QueueIsSuffix, NEW d \in Downlinks, UdpPullResp(d)
  PROVE  QueueIsSuffix' /\ Taken' = Taken
<1> USE ForwarderAssumption DEF TypeOK, QueueIsSuffix, Taken, UdpPullResp
<1>1. /\ Len(queue') = Len(queue) + 1 /\ Len(delivered') = Len(delivered) + 1
      /\ Len(queue) \in Nat /\ Len(delivered) \in Nat
  OBVIOUS
<1>2. Taken' = Taken
  BY <1>1
<1>3. \A i \in 1..Len(queue') : queue'[i] = delivered'[Taken + i]
  <2> SUFFICES ASSUME NEW i \in 1..Len(queue')
               PROVE  queue'[i] = delivered'[Taken + i]
    OBVIOUS
  <2>1. CASE i = Len(queue) + 1
    <3>1. Taken + i = Len(delivered) + 1
      BY <1>1, <2>1
    <3> QED
      BY <1>1, <2>1, <3>1
  <2>2. CASE i \in 1..Len(queue)
    <3>1. Taken + i \in 1..Len(delivered)
      BY <1>1, <2>2
    <3>2. queue'[i] = queue[i] /\ delivered'[Taken + i] = delivered[Taken + i]
      BY <2>2, <3>1
    <3> QED
      BY <2>2, <3>2
  <2>3. i = Len(queue) + 1 \/ i \in 1..Len(queue)
    BY <1>1
  <2> QED
    BY <2>1, <2>2, <2>3
<1>4. Len(delivered) < MaxDown /\ MaxDown \in Nat
  BY DEF ForwarderAssumption
<1>5. Len(queue') <= Len(delivered') /\ Len(delivered') <= MaxDown
  BY <1>1, <1>4
<1> QED
  BY <1>2, <1>3, <1>5

LEMMA QueueStep == IndInv /\ [Next]_vars => QueueIsSuffix' /\ OnAirTaken'
<1> SUFFICES ASSUME IndInv, [Next]_vars
             PROVE  QueueIsSuffix' /\ OnAirTaken'
  OBVIOUS
<1> USE DEF IndInv
<1>1. Taken \in Nat /\ onAir \in Nat
  BY DEF TypeOK, QueueIsSuffix, Taken
<1>2. ASSUME queue' = queue, delivered' = delivered
      PROVE  QueueIsSuffix' /\ Taken' = Taken
  BY <1>2 DEF QueueIsSuffix, Taken
<1>3. CASE TxDrain
  <2>1. CASE TxPlain
    BY <1>1, <1>2, <1>3, <2>1, TxFrame, TxPlainFrame
       DEF OnAirTaken, TxPlain, TxStandby, TxBase, TxWrite, TxPoll, TxBranch,
           TxClear, TxCommand, Transfer
  <2>2. CASE TxPop
    <3>1. QueueIsSuffix' /\ Taken' = Taken + 1 /\ onAir' = onAir
      BY <1>3, <2>2, PopSuffix, TxFrame DEF TxPop
    <3> QED
      BY <1>1, <2>2, <3>1 DEF OnAirTaken, TxPop
  <2>3. CASE TxSetTx
    BY <1>1, <1>2, <1>3, <2>3, TxFrame
       DEF OnAirTaken, TxSetTx, TxCommand, Transfer
  <2>4. CASE TxStop \/ TxExpire \/ TxFinally
    BY <1>1, <1>2, <1>3, <2>4, TxFrame
       DEF OnAirTaken, TxStop, TxExpire, TxFinally, txLocals
  <2> QED
    BY <1>3, <2>1, <2>2, <2>3, <2>4 DEF TxDrain, TxPlain
<1>4. ASSUME NEW d \in Downlinks, UdpPullResp(d)
      PROVE  QueueIsSuffix' /\ OnAirTaken'
  <2>1. QueueIsSuffix' /\ Taken' = Taken
    BY <1>4, AppendSuffix
  <2> QED
    BY <1>1, <1>4, <2>1 DEF OnAirTaken, UdpPullResp
<1>5. CASE RxLoop \/ Cool
  BY <1>1, <1>2, <1>5, RxFrame DEF OnAirTaken
<1>6. CASE AirTxEnd
  BY <1>1, <1>2, <1>6 DEF OnAirTaken, AirTxEnd, mainVars
<1>7. CASE Main
  BY <1>1, <1>2, <1>7, MainFrame DEF OnAirTaken
<1>8. CASE Reception
  BY <1>1, <1>2, <1>8, ReceptionFrame DEF OnAirTaken
<1>9. CASE UNCHANGED vars
  BY <1>1, <1>2, <1>9, Stutter DEF OnAirTaken
<1> QED
  BY <1>3, <1>4, <1>5, <1>6, <1>7, <1>8, <1>9, Actors

\* TypeCorrect: every variable has its type in every reachable state, and the
\* locals of a thread are set where it uses them: rx-loop never reads with no
\* status read, tx-drain never writes with no payload decoded.
THEOREM TypeCorrect == Spec => []TypeOK
<1>1. IndInv /\ [Next]_vars => IndInv'
  BY TypeStep, LocalsStep, QueueStep DEF IndInv
<1>2. IndInv => TypeOK
  BY DEF IndInv
<1> QED
  BY InitInd, <1>1, <1>2, PTL DEF Spec

LEMMA IndInvariant == Spec => []IndInv
<1>1. IndInv /\ [Next]_vars => IndInv'
  BY TypeStep, LocalsStep, QueueStep DEF IndInv
<1> QED
  BY InitInd, <1>1, PTL DEF Spec


-----------------------------------------------------------------------------
(* The handover of the reception between tx-drain and rx-loop.             *)

LEMMA FaultsGrow == IndInv /\ [Next]_vars => (faults' = 0 => faults = 0)
<1> SUFFICES ASSUME IndInv, [Next]_vars, faults' = 0
             PROVE  faults = 0
  OBVIOUS
<1>0. faults \in Nat
  BY ForwarderAssumption DEF IndInv, TypeOK
<1>1. CASE RxLoop
  BY <1>0, <1>1
     DEF RxLoop, RxStart, RxTop, RxResume, RxPoll, RxClear, RxStatus,
         RxBadLength, RxRead, RxPush, RxRearm, RxTimeout, RxError,
         RxCommand, Transfer, Returns, Raises, Faulty
<1>2. CASE TxDrain
  BY <1>0, <1>2
     DEF TxDrain, TxStop, TxPop, TxStandby, TxBase, TxWrite, TxSetTx, TxPoll,
         TxExpire, TxClear, TxFinally, TxCommand, Transfer, Returns, Raises,
         Faulty
<1>3. CASE Main
  BY <1>0, <1>3
     DEF Main, MainInterrupt, MainShutdown, MainClose, MainExit, Terminate,
         Transfer, Returns, Raises, Faulty
<1>4. CASE (\E d \in Downlinks : UdpPullResp(d)) \/ AirTxEnd \/ Cool
  BY <1>4 DEF UdpPullResp, AirTxEnd, Cool
<1>5. CASE Reception
  BY <1>5, ReceptionFrame
<1>6. CASE UNCHANGED vars
  BY <1>6, Stutter
<1> QED
  BY <1>1, <1>2, <1>3, <1>4, <1>5, <1>6, Actors

LEMMA StrandedStep == IndInv /\ NeverStranded /\ [Next]_vars => NeverStranded'
<1> SUFFICES ASSUME IndInv, NeverStranded, [Next]_vars,
                    faults' = 0, mpc' = "run", chip' # "RX"
             PROVE  ResumeDue'
  BY DEF NeverStranded
<1>0. faults = 0
  BY FaultsGrow
<1> USE DEF NeverStranded, ResumeDue
<1>1. CASE RxLoop
  <2>1. mpc = "run" /\ busOpen /\ ~stopSet
    BY <1>1, RxFrame DEF busOpen, stopSet
  <2>2. ASSUME NEW pc, NEW ok, NEW err, RxCommand(pc, SetRx, ok, err)
        PROVE  chip' = "RX"
    BY <1>0, <2>1, <2>2
       DEF RxCommand, Transfer, Returns, Raises, Faulty, SetRx, EnterMode,
           IndInv, TypeOK
  <2>3. CASE RxStart \/ RxResume \/ RxBadLength \/ RxRearm
    BY <2>2, <2>3 DEF RxStart, RxResume, RxBadLength, RxRearm
  <2>4. CASE RxTop
    BY <1>0, <1>1, <2>1, <2>4, RxFrame DEF RxTop, radio
  <2>5. CASE RxPoll \/ RxClear \/ RxTimeout \/ RxError
    BY <1>0, <1>1, <2>1, <2>5, RxFrame, RxPlainFrame
       DEF RxPlain, RxPoll, RxClear, RxTimeout, RxError, RxCommand, Transfer,
           Returns, Raises, Faulty, Query, ClearIrq, radio
  <2>6. CASE RxStatus \/ RxRead
    BY <1>0, <1>1, <2>1, <2>6, RxFrame
       DEF RxStatus, RxRead, RxCommand, Transfer, Returns, Raises, Faulty,
           Query, radio
  <2>7. CASE RxPush
    BY <1>0, <1>1, <2>1, <2>7, RxFrame DEF RxPush, radio
  <2> QED
    BY <1>1, <2>3, <2>4, <2>5, <2>6, <2>7 DEF RxLoop
<1>2. CASE TxDrain
  <2>1. mpc = "run" /\ busOpen /\ ~stopSet
    BY <1>2, TxFrame DEF busOpen, stopSet
  <2>2. CASE TxPop
    BY <1>0, <1>2, <2>1, <2>2, TxFrame DEF TxPop, radio
  <2>3. CASE TxFinally
    BY <2>3 DEF TxFinally
  <2>4. CASE TxStop
    BY <2>1, <2>4 DEF TxStop
  <2>5. CASE TxStandby
    BY <1>0, <1>2, <2>1, <2>5
       DEF TxStandby, TxCommand, Transfer, Returns, Raises, Faulty, IndInv, TypeOK
  <2>6. CASE TxBase \/ TxWrite \/ TxSetTx \/ TxPoll \/ TxExpire \/ TxClear
    BY <2>6
       DEF TxBase, TxWrite, TxSetTx, TxPoll, TxBranch, TxExpire, TxClear,
           TxCommand, Transfer
  <2> QED
    BY <1>2, <2>2, <2>3, <2>4, <2>5, <2>6 DEF TxDrain
<1>3. CASE \E d \in Downlinks : UdpPullResp(d)
  BY <1>0, <1>3 DEF UdpPullResp, radio, rxVars
<1>4. CASE Main
  BY <1>4 DEF Main, MainInterrupt, MainShutdown, MainClose, MainExit,
              Terminate, Transfer
<1>5. CASE AirTxEnd
  BY <1>0, <1>5 DEF AirTxEnd, FinishTx, rxVars, mainVars
<1>6. CASE Cool
  BY <1>0, <1>6, RxFrame DEF Cool, radio
<1>7. CASE Reception
  BY <1>0, <1>7, ReceptionFrame
<1>8. CASE UNCHANGED vars
  BY <1>0, <1>8, Stutter
<1> QED
  BY <1>1, <1>2, <1>3, <1>4, <1>5, <1>6, <1>7, <1>8, Actors

\* NeverStrandedHolds: for any number of frames, downlinks and receptions, and
\* also with garbled readings and missed deadlines, a chip that is out of
\* reception has a thread that is about to put it back.
THEOREM NeverStrandedHolds == Spec => []NeverStranded
<1>1. Init => NeverStranded
  BY DEF Init, NeverStranded, ResumeDue
<1> QED
  BY <1>1, IndInvariant, StrandedStep, PTL DEF Spec


-----------------------------------------------------------------------------
(* The TX_DONE flag.                                                       *)

LEMMA DoneStep == IndInv /\ DoneInv /\ [Next]_vars => DoneInv'
<1> SUFFICES ASSUME IndInv, DoneInv, [Next]_vars, Exact'
             PROVE  FlagIsOwn'
  BY DEF DoneInv
<1>0. Exact /\ FlagIsOwn /\ faults = 0 /\ faults' = 0
  BY FaultsGrow DEF DoneInv, Exact
<1> USE DEF FlagIsOwn, Aired
<1>1. ASSUME delivered' = delivered, queue' = queue
      PROVE  Taken' = Taken
  BY <1>1 DEF Taken
<1>2. CASE RxLoop
  <2>1. /\ Taken' = Taken /\ busOpen' = busOpen /\ onAir' = onAir
        /\ air' = air /\ txpc' = txpc
    BY <1>1, <1>2, RxFrame DEF busOpen
  <2>2. irq' \in SUBSET irq /\ chip' \in {chip, "RX"}
    BY <1>0, <1>2
       DEF RxLoop, RxStart, RxTop, RxResume, RxPoll, RxClear, RxStatus,
           RxBadLength, RxRead, RxPush, RxRearm, RxTimeout, RxError,
           RxCommand, Transfer, Returns, Raises, Faulty, Query, ClearIrq,
           SetRx, EnterMode, radio
  <2> QED
    BY <1>0, <2>1, <2>2
<1>3. CASE TxDrain
  <2>1. busOpen' = busOpen /\ delivered' = delivered
    BY <1>3, TxFrame DEF busOpen
  <2>2. CASE TxStandby \/ TxBase \/ TxWrite
    BY <1>0, <1>1, <2>1, <2>2, TxPlainFrame
       DEF TxPlain, TxStandby, TxBase, TxWrite, TxCommand, Transfer, Returns,
           Raises, Faulty, Query, SetStandby, SetBufferBase, WriteBuffer,
           EnterMode, radio
  <2>3. CASE TxSetTx
    BY <1>0, <1>1, <2>1, <2>3
       DEF TxSetTx, TxCommand, Transfer, Returns, Raises, Faulty, Query,
           SetTx, EnterMode, radio
  <2>4. CASE TxPoll
    <3>1. /\ txpc = "wait" /\ UNCHANGED <<chip, irq, onAir, air>>
          /\ Taken' = Taken
      BY <1>1, <2>1, <2>4, TxPlainFrame
         DEF TxPlain, TxPoll, TxCommand, Transfer, Returns, Raises, Faulty,
             Query, radio
    <3>2. busOpen => txpc' = TxBranch(irq)
      BY <1>0, <2>4
         DEF TxPoll, IrqReadings, Exact, TxCommand, Transfer, Returns,
             Raises, Faulty
    <3>3. ~busOpen => txpc' = "fin"
      BY <2>4 DEF TxPoll, TxCommand, Transfer, Returns, Raises, Faulty
    <3> QED
      BY <1>0, <2>1, <3>1, <3>2, <3>3 DEF TxBranch
  <2>5. CASE TxExpire
    BY <1>0, <1>1, <2>1, <2>5 DEF TxExpire, Exact, txLocals, radio
  <2>6. CASE TxClear
    BY <1>0, <1>1, <2>1, <2>6, TxPlainFrame
       DEF TxPlain, TxClear, TxCommand, Transfer, Returns, Raises, Faulty,
           Query, ClearIrq, IrqFlags, radio
  <2>7. CASE TxStop
    BY <1>0, <1>1, <2>1, <2>7 DEF TxStop, txLocals, radio
  <2>8. CASE TxPop
    BY <1>0, <2>1, <2>8 DEF TxPop, radio
  <2>9. CASE TxFinally
    BY <1>0, <1>1, <2>1, <2>9 DEF TxFinally, radio
  <2> QED
    BY <1>3, <2>2, <2>3, <2>4, <2>5, <2>6, <2>7, <2>8, <2>9 DEF TxDrain
<1>4. ASSUME NEW d \in Downlinks, UdpPullResp(d)
      PROVE  FlagIsOwn'
  <2>1. Taken' = Taken
    BY <1>4, AppendSuffix DEF IndInv
  <2> QED
    BY <1>0, <1>4, <2>1 DEF UdpPullResp, busOpen, radio
<1>5. CASE Main
  <2>1. Taken' = Taken /\ (busOpen' => busOpen)
    BY <1>1, <1>5, MainFrame
       DEF Main, MainInterrupt, MainShutdown, MainClose, MainExit, Terminate,
           Transfer, busOpen
  <2>2. irq' = irq /\ chip' \in {chip, "STDBY"}
    BY <1>0, <1>5
       DEF Main, MainInterrupt, MainShutdown, MainClose, MainExit, Terminate,
           Transfer, Returns, Raises, Faulty, Query, SetStandby, EnterMode,
           radio
  <2> QED
    BY <1>0, <1>5, <2>1, <2>2, MainFrame
<1>6. CASE AirTxEnd
  <2>1. /\ Taken' = Taken /\ busOpen' = busOpen /\ txpc' = txpc
        /\ onAir' = onAir
    BY <1>1, <1>6 DEF AirTxEnd, mainVars, busOpen
  <2>2. /\ chip = "TX" /\ chip' = "STDBY" /\ irq' = irq \cup {"TX_DONE"}
        /\ air' = air \cup {<<onAir, mem[base.tx]>>}
    BY <1>6 DEF AirTxEnd, FinishTx
  <2>3. mem[base.tx] \in Frame
    BY DEF IndInv, TypeOK, RadioTypeOK
  <2>4. busOpen => txpc = "wait" /\ Aired'
    BY <1>0, <2>1, <2>2, <2>3
  <2> QED
    BY <1>0, <2>1, <2>2, <2>4
<1>7. CASE Cool
  BY <1>0, <1>1, <1>7, RxFrame DEF Cool, radio, busOpen
<1>8. CASE Reception
  BY <1>0, <1>1, <1>8, ReceptionFrame DEF busOpen
<1>9. CASE UNCHANGED vars
  BY <1>0, <1>1, <1>9, Stutter DEF busOpen
<1> QED
  BY <1>2, <1>3, <1>4, <1>5, <1>6, <1>7, <1>8, <1>9, Actors

\* DoneIsOwnHolds: with exact readings, no faults and the deadline kept, a
\* TX_DONE that tx-drain acts on is that of the downlink it is serving.
THEOREM DoneIsOwnHolds == Spec => []DoneIsOwn
<1>1. Init => DoneInv
  BY DEF Init, RadioInit, DoneInv, FlagIsOwn
<1>2. DoneInv => DoneIsOwn
  BY DEF DoneInv, DoneIsOwn, FlagIsOwn, Aired, Exact
<1> QED
  BY <1>1, <1>2, IndInvariant, DoneStep, PTL DEF Spec

-----------------------------------------------------------------------------
(* The refinement.                                                         *)

LEMMA ServiceInit == Init => Service!Init
BY DEF Init, Service!Init, Taken

\* What a transfer counts as failed.
LEMMA FaultsCount ==
  ASSUME IndInv, [Next]_vars
  PROVE  faults \in Nat /\ faults' \in {faults, faults + 1}
<1>0. faults \in Nat
  BY ForwarderAssumption DEF IndInv, TypeOK
<1> USE <1>0 DEF Transfer, Returns, Faulty, Raises
<1>1. CASE RxLoop \/ Cool
  BY <1>1 DEF RxLoop, RxStart, RxTop, RxResume, RxPoll, RxClear, RxStatus,
              RxBadLength, RxRead, RxPush, RxRearm, RxTimeout, RxError, Cool,
              RxCommand
<1>2. CASE TxDrain
  BY <1>2 DEF TxDrain, TxStop, TxPop, TxStandby, TxBase, TxWrite, TxSetTx,
              TxPoll, TxExpire, TxClear, TxFinally, TxCommand
<1>3. CASE \E d \in Downlinks : UdpPullResp(d)
  BY <1>3 DEF UdpPullResp
<1>4. CASE Main
  BY <1>4 DEF Main, MainInterrupt, MainShutdown, MainClose, MainExit, Terminate
<1>5. CASE Reception \/ AirTxEnd \/ UNCHANGED vars
  BY <1>5, ReceptionFrame, Stutter DEF AirTxEnd
<1> QED
  BY <1>1, <1>2, <1>3, <1>4, <1>5, Actors

\* Whether a downlink may still go on the air changes where SetTx is done
\* with, or skipped, and where the service ends.
LEMMA UnsentStep ==
  ASSUME LocalsSet, TxPlain \/ TxSetTx \/ TxExpire
  PROVE  /\ txcur # None /\ txpc # "fin"
         /\ ~Unsent => ~Unsent' /\ ~TxSetTx
BY DEF Unsent, LocalsSet, TxPlain, TxStandby, TxBase, TxWrite, TxPoll, TxBranch,
       TxClear, TxSetTx, TxExpire, TxCommand, Transfer

LEMMA ServiceStep == IndInv /\ [Next]_vars => [Service!Next]_Service!vars
<1> SUFFICES ASSUME IndInv, [Next]_vars
             PROVE  Service!Next \/ UNCHANGED Service!vars
  BY DEF Service!vars
<1> USE DEF IndInv
<1>0. Taken \in Nat /\ faults \in Nat /\ faults' \in {faults, faults + 1}
  BY FaultsCount DEF TypeOK, QueueIsSuffix, Taken
<1>1. ASSUME UNCHANGED <<delivered, queue, txcur, sends>>, Unsent' = Unsent
      PROVE  Service!Next \/ UNCHANGED Service!vars
  <2>1. Taken' = Taken
    BY <1>1 DEF Taken
  <2>2. CASE faults' = faults
    BY <1>1, <2>1, <2>2 DEF Service!vars
  <2>3. CASE faults' = faults + 1
    BY <1>1, <2>1, <2>3 DEF Service!Next, Service!Fail
  <2> QED
    BY <1>0, <2>2, <2>3
<1>2. CASE RxLoop \/ Cool
  BY <1>1, <1>2, RxFrame DEF Unsent
<1>3. CASE TxDrain
  <2>1. CASE TxPlain \/ TxExpire
    <3>1. /\ UNCHANGED <<delivered, queue, txcur, sends>>
          /\ txcur # None /\ (~Unsent => ~Unsent')
      BY <1>3, <2>1, TxFrame, TxPlainFrame, UnsentStep DEF TxExpire, txLocals
    <3>2. CASE Unsent /\ ~Unsent'
      <4>1. Taken' = Taken
        BY <3>1 DEF Taken
      <4>2. Service!GiveUp
        BY <1>0, <3>1, <3>2, <4>1 DEF Service!GiveUp
      <4> QED
        BY <4>2 DEF Service!Next
    <3>3. CASE Unsent' = Unsent
      BY <1>1, <3>1, <3>3
    <3> QED
      BY <3>1, <3>2, <3>3 DEF Unsent
  <2>2. CASE TxStop
    BY <1>1, <1>3, <2>2, TxFrame DEF TxStop, txLocals, Unsent
  <2>3. CASE TxPop
    <3>1. /\ delivered' = delivered /\ Taken' = Taken + 1
          /\ Taken < Len(delivered) /\ Head(queue) = delivered[Taken + 1]
          /\ txcur = None /\ sends' = sends /\ faults' = faults
          /\ (txcur' # None => Unsent')
      BY <1>3, <2>3, PopSuffix, TxFrame DEF TxPop, LocalsSet, Unsent
    <3>2. Service!Take
      BY <3>1 DEF Service!Take
    <3>3. CASE Head(queue) \in Undecodable
      BY <2>3, <3>1, <3>2, <3>3 DEF TxPop, Service!Next, Service!Discard
    <3>4. CASE Head(queue) \notin Undecodable
      BY <2>3, <3>1, <3>2, <3>4 DEF TxPop, Service!Next, Service!Begin
    <3> QED
      BY <3>3, <3>4
  <2>4. CASE TxSetTx
    <3>1. /\ txcur' = txcur /\ delivered' = delivered /\ queue' = queue
          /\ txcur # None /\ Taken' = Taken
      BY <1>3, <2>4, TxFrame DEF TxSetTx, TxCommand, LocalsSet, Taken
    <3>2. Unsent /\ (Unsent' => txpc' = "settx" /\ faults' = faults + 1)
      BY <2>4
         DEF TxSetTx, TxCommand, Transfer, Returns, Faulty, Raises, Unsent
    <3>3. CASE sends' = sends + 1
      <4>1. Service!Transmit
        BY <1>0, <3>1, <3>2, <3>3 DEF Service!Transmit
      <4> QED
        BY <4>1 DEF Service!Next
    <3>4. CASE sends' = sends /\ txpc' = "fin"
      <4>1. Service!GiveUp
        BY <1>0, <3>1, <3>2, <3>4 DEF Service!GiveUp, Unsent
      <4> QED
        BY <4>1 DEF Service!Next
    <3> QED
      BY <2>4, <3>3, <3>4 DEF TxSetTx
  <2>5. CASE TxFinally
    BY <1>3, <2>5, TxFrame
       DEF TxFinally, LocalsSet, Taken, Unsent, Service!Next, Service!Finish
  <2> QED
    BY <1>3, <2>1, <2>2, <2>3, <2>4, <2>5 DEF TxDrain, TxPlain
<1>4. ASSUME NEW d \in Downlinks, UdpPullResp(d)
      PROVE  Service!Next
  <2>1. /\ Taken' = Taken /\ delivered' = Append(delivered, d)
        /\ UNCHANGED <<txcur, txpc, sends, faults>>
    BY <1>4, AppendSuffix DEF UdpPullResp
  <2> QED
    BY <2>1 DEF Service!Next, Service!Accept, Unsent
<1>5. CASE Main
  BY <1>1, <1>5, MainFrame DEF Unsent
<1>6. CASE Reception
  BY <1>1, <1>6, ReceptionFrame DEF Unsent
<1>7. CASE AirTxEnd
  BY <1>1, <1>7 DEF AirTxEnd, mainVars, Unsent
<1>8. CASE UNCHANGED vars
  BY <1>1, <1>8, Stutter DEF Unsent
<1> QED
  BY <1>2, <1>3, <1>4, <1>5, <1>6, <1>7, <1>8, Actors

\* ServedInOrderHolds: whatever transfers fail, whatever is read back and
\* whenever the process is stopped, tx-drain serves the downlinks in the order
\* of their PULL_RESPs, one at a time, and puts each on the air once, or again
\* only as the retry of a SetTx whose transfer has failed.
THEOREM ServedInOrderHolds == Spec => ServedInOrder
BY ServiceInit, ServiceStep, IndInvariant, PTL DEF Spec, ServedInOrder, Service!Spec

-----------------------------------------------------------------------------
(* The invariant, for one frame f: as many pushes as receptions at most,   *)
(* and when there are as many (Tight), no push of f is on its way.         *)

Whole(f) == <<f, f>>

Copies(x, B) == IF BagIn(x, B) THEN B[x] ELSE 0

Tight(f) == Copies(Whole(f), pushed) = Copies(f, heard)

\* Unless f was the last payload pushed, rx-loop does not hold f and is not
\* going to read it.
Spent(f) ==
  lastPayload # Whole(f) =>
    /\ payload # Whole(f)
    /\ ~(rxpc = "read" /\ meta.frame = f)
    /\ last.frame = f => "RX_DONE" \notin irq /\ rxpc \notin {"rxdone", "status"}

\* If it was, the reception of f that rx-loop may be reading a second time has
\* its flag cleared: no third reading follows another payload's push.
Settled(f) ==
  lastPayload = Whole(f) /\ last.frame = f /\ rxpc \in {"status", "read", "push"}
    => "RX_DONE" \notin irq

Matched(f) ==
  /\ Copies(Whole(f), pushed) <= Copies(f, heard)
  /\ Tight(f) => Spent(f) /\ Settled(f)

AllMatched == ~Garbled => \A f \in Uplinks : Matched(f)

-----------------------------------------------------------------------------
(* Counting copies.                                                        *)

LEMMA CopiesAdd ==
  ASSUME NEW S, NEW B, NEW e \in S, NEW x \in S, IsABag(B), DOMAIN B \subseteq S
  PROVE  /\ Copies(x, B) \in Nat
         /\ Copies(x, B (+) SetToBag({e}))
              = IF x = e THEN Copies(x, B) + 1 ELSE Copies(x, B)
BY DEF Copies, BagIn, BagToSet, IsABag, (+), SetToBag

LEMMA CopiesType ==
  ASSUME TypeOK, NEW f \in Uplinks
  PROVE  Copies(Whole(f), pushed) \in Nat /\ Copies(f, heard) \in Nat
BY DEF TypeOK, Copies, BagIn, BagToSet, IsABag, Frame

\* A reception adds one copy of what was received.
LEMMA HeardOnce ==
  ASSUME TypeOK, NEW f \in Uplinks, NEW g \in Frame,
         heard' = heard (+) SetToBag({g})
  PROVE  Copies(f, heard)' = IF f = g THEN Copies(f, heard) + 1
                                        ELSE Copies(f, heard)
<1>1. f \in Frame /\ IsABag(heard) /\ DOMAIN heard \subseteq Frame
  BY DEF TypeOK, Frame
<1>2. Copies(f, heard (+) SetToBag({g}))
        = IF f = g THEN Copies(f, heard) + 1 ELSE Copies(f, heard)
  BY <1>1, CopiesAdd
<1> QED
  BY <1>2

\* A push adds one copy of the payload.
LEMMA PushedOnce ==
  ASSUME TypeOK, NEW f \in Uplinks, payload \in Payload,
         pushed' = pushed (+) SetToBag({payload})
  PROVE  Copies(Whole(f), pushed)'
           = IF Whole(f) = payload THEN Copies(Whole(f), pushed) + 1
                                   ELSE Copies(Whole(f), pushed)
<1>1. Whole(f) \in Payload
  BY DEF Whole, Payload, Frame
<1> QED
  BY <1>1, CopiesAdd DEF TypeOK, Whole

-----------------------------------------------------------------------------
(* The invariant holds initially and is preserved.                         *)

LEMMA MatchedInit == Init => AllMatched
<1> SUFFICES ASSUME Init, NEW f \in Uplinks
             PROVE  Matched(f)
  BY DEF AllMatched
<1>1. Copies(Whole(f), pushed) = 0 /\ Copies(f, heard) = 0
  BY DEF Init, Copies, BagIn, BagToSet, EmptyBag, SetToBag
<1>2. last.frame # f /\ payload = <<>> /\ rxpc = "setrx"
  BY FrameAssumption DEF Init, RadioInit
<1>3. payload # Whole(f)
  BY <1>2 DEF Whole
<1> QED
  BY <1>1, <1>2, <1>3 DEF Matched, Tight, Spent, Settled

\* rx-loop outside the step that pushes.
LEMMA MatchedRx ==
  ASSUME TypeOK, ~Garbled, NEW f \in Uplinks, Matched(f), RxLoop, ~RxPush
  PROVE  Matched(f)'
<1> USE DEF RxCommand, Transfer, Returns, Faulty, Raises, Query, radio, SetRx,
            EnterMode, ClearIrq, rxLocals
<1>1. pushed' = pushed /\ heard' = heard /\ lastPayload' = lastPayload
  BY RxFrame
     DEF RxLoop, RxStart, RxTop, RxResume, RxPoll, RxClear, RxStatus,
         RxBadLength, RxRead, RxRearm, RxTimeout, RxError
<1>2. last' = last /\ irq' \subseteq irq
  BY DEF RxLoop, RxStart, RxTop, RxResume, RxPoll, RxClear, RxStatus,
         RxBadLength, RxRead, RxRearm, RxTimeout, RxError
<1>3. ASSUME Spent(f) PROVE Spent(f)'
  <2>1. CASE RxStart \/ RxTop \/ RxResume \/ RxBadLength \/ RxRearm \/ RxTimeout \/ RxError
    BY <1>1, <1>2, <1>3, <2>1
       DEF Spent, Whole, RxStart, RxTop, RxResume, RxBadLength, RxRearm, RxTimeout, RxError
  <2>2. CASE RxPoll
    BY <1>1, <1>2, <1>3, <2>2 DEF Spent, Whole, RxPoll, RxBranch, IrqReadings
  <2>3. CASE RxClear
    BY <1>1, <1>2, <1>3, <2>3 DEF Spent, Whole, RxClear
  <2>4. CASE RxStatus
    BY <1>1, <1>2, <1>3, <2>4 DEF Spent, Whole, RxStatus, StatusReadings
  <2>5. CASE RxRead
    BY <1>1, <1>2, <1>3, <2>5 DEF Spent, Whole, RxRead
  <2> QED
    BY <2>1, <2>2, <2>3, <2>4, <2>5 DEF RxLoop
<1>4. ASSUME Settled(f) PROVE Settled(f)'
  <2>1. CASE RxClear
    BY <1>1, <1>2, <1>4, <2>1 DEF Settled, RxClear, IrqFlags
  <2>2. CASE ~RxClear
    <3>1. rxpc' \in {"status", "read", "push"} => rxpc \in {"status", "read", "push"}
      BY <2>2 DEF RxLoop, RxStart, RxTop, RxResume, RxPoll, RxBranch, RxStatus,
         RxBadLength, RxRead, RxRearm, RxTimeout, RxError
    <3> QED
      BY <1>1, <1>2, <1>4, <3>1 DEF Settled, Whole
  <2> QED
    BY <2>1, <2>2
<1> QED
  BY <1>1, <1>3, <1>4 DEF Matched, Tight, Whole

\* The push: a payload that is not the last one pushed was not spent, so that
\* a copy of it that was received has not been pushed yet.
LEMMA MatchedPush ==
  ASSUME TypeOK, LocalsSet, NEW f \in Uplinks, Matched(f), RxPush
  PROVE  Matched(f)'
<1>1. /\ heard' = heard /\ last' = last /\ irq' = irq
      /\ rxpc = "push" /\ rxpc' = "rearm" /\ payload' = <<>>
  BY DEF RxPush, radio
<1>2. payload' # Whole(f)
  BY <1>1 DEF Whole
<1>3. Settled(f)'
  BY <1>1 DEF Settled
<1>4. CASE RxSend
  <2>1. payload \in Payload
    BY <1>1 DEF TypeOK, LocalsSet
  <2>2. CASE payload = Whole(f)
    <3>1. ~Tight(f)
      BY <1>4, <2>2 DEF Matched, Spent, RxSend, Fresh
    <3>2. Copies(Whole(f), pushed)' = Copies(Whole(f), pushed) + 1
      BY <1>4, <2>1, <2>2, PushedOnce DEF RxSend
    <3>3. Copies(f, heard)' = Copies(f, heard)
      BY <1>1
    <3>4. Copies(Whole(f), pushed)' <= Copies(f, heard)'
      BY <3>1, <3>2, <3>3, CopiesType DEF Matched, Tight
    <3>5. lastPayload' = Whole(f)
      BY <1>4, <2>2 DEF RxSend
    <3>6. Spent(f)'
      BY <3>5 DEF Spent, Whole
    <3> QED
      BY <1>3, <3>4, <3>6 DEF Matched
  <2>3. CASE payload # Whole(f)
    <3>1. Copies(Whole(f), pushed)' = Copies(Whole(f), pushed)
      BY <1>4, <2>1, <2>3, PushedOnce DEF RxSend
    <3>2. Copies(f, heard)' = Copies(f, heard)
      BY <1>1
    <3>3. Spent(f) /\ Settled(f) => Spent(f)'
      BY <1>1, <1>2 DEF Spent, Settled, Whole
    <3> QED
      BY <1>3, <3>1, <3>2, <3>3 DEF Matched, Tight
  <2> QED
    BY <2>2, <2>3
<1>5. CASE RxSkip \/ RxSendError
  <2>1. pushed' = pushed /\ lastPayload' = lastPayload
    BY <1>5 DEF RxSkip, RxSendError
  <2>2. Spent(f) => Spent(f)'
    BY <1>1, <1>2, <2>1 DEF Spent, Whole
  <2> QED
    BY <1>1, <1>3, <2>1, <2>2 DEF Matched, Tight, Whole
<1> QED
  BY <1>4, <1>5 DEF RxPush

\* A reception of f makes f one copy short of tight; one of another frame
\* replaces f in the status.
LEMMA MatchedReception ==
  ASSUME TypeOK, NEW f \in Uplinks, Matched(f), Reception
  PROVE  Matched(f)'
<1> DEFINE Received(g, flag) ==
      /\ heard' = heard (+) SetToBag({g})
      /\ irq' = irq \cup {flag}
      /\ \/ last'.frame = g
         \/ last' = last /\ flag = "HEADER_ERROR"
<1>1. PICK g \in Frame, flag \in {"RX_DONE", "CRC_ERROR", "HEADER_ERROR"} :
        Received(g, flag)
  <2>1. ASSUME NEW g \in Uplinks, AirUplink(g)
        PROVE  Received(g, "RX_DONE") /\ g \in Frame
    BY <2>1 DEF AirUplink, ReceiveFrame, Store, Hear, Frame
  <2>2. AirCorrupt => Received(Noise, "CRC_ERROR")
    BY DEF AirCorrupt, ReceiveCorrupt, Store, Hear
  <2>3. AirBadHeader => Received(Noise, "HEADER_ERROR")
    BY DEF AirBadHeader, ReceiveBadHeader, Hear
  <2>4. Noise \in Frame
    BY DEF Frame
  <2> HIDE DEF Received
  <2> QED
    BY <2>1, <2>2, <2>3, <2>4, Zenon DEF Reception
<1>2. /\ pushed' = pushed /\ lastPayload' = lastPayload /\ payload' = payload
      /\ rxpc' = rxpc /\ meta' = meta
  BY ReceptionFrame
<1>3. Copies(Whole(f), pushed)' = Copies(Whole(f), pushed)
  BY <1>2 DEF Whole
<1>4. CASE f = g
  BY <1>1, <1>3, <1>4, HeardOnce, CopiesType DEF Matched, Tight
<1>5. CASE f # g
  <2>1. Copies(f, heard)' = Copies(f, heard)
    BY <1>1, <1>5, HeardOnce
  <2>2. Spent(f) => Spent(f)'
    BY <1>1, <1>2, <1>5 DEF Spent, Whole
  <2>3. Settled(f) => Settled(f)'
    BY <1>1, <1>2, <1>5 DEF Settled, Whole
  <2> QED
    BY <1>3, <2>1, <2>2, <2>3 DEF Matched, Tight
<1> QED
  BY <1>4, <1>5

\* The others leave rx-loop and the last reception alone, and do not set
\* RX_DONE.
LEMMA MatchedRest ==
  ASSUME TypeOK, NEW f \in Uplinks, Matched(f), [Next]_vars, ~RxLoop, ~Reception
  PROVE  Matched(f)'
<1>1. /\ pushed' = pushed /\ heard' = heard /\ lastPayload' = lastPayload
      /\ payload' = payload /\ rxpc' = rxpc /\ meta' = meta
  <2>1. CASE Cool
    BY <2>1 DEF Cool
  <2>2. CASE TxDrain
    BY <2>2, TxFrame
  <2>3. ASSUME NEW d \in Downlinks, UdpPullResp(d) PROVE <1>1
    BY <2>3 DEF UdpPullResp, rxVars
  <2>4. CASE Main
    BY <2>4, MainFrame
  <2>5. CASE AirTxEnd
    BY <2>5 DEF AirTxEnd, rxVars
  <2>6. CASE UNCHANGED vars
    BY <2>6, Stutter
  <2> QED
    BY <2>1, <2>2, <2>3, <2>4, <2>5, <2>6, Actors
<1>2. last' = last /\ ("RX_DONE" \in irq' => "RX_DONE" \in irq)
  <2> USE DEF TxCommand, Transfer, Returns, Faulty, Raises, Query, radio,
              EnterMode, SetStandby, SetTx, SetBufferBase, WriteBuffer, ClearIrq
  <2>1. CASE Cool
    BY <2>1 DEF Cool
  <2>2. CASE TxDrain
    BY <2>2 DEF TxDrain, TxStop, TxPop, TxStandby, TxBase, TxWrite, TxSetTx,
                TxPoll, TxExpire, TxClear, TxFinally
  <2>3. ASSUME NEW d \in Downlinks, UdpPullResp(d) PROVE <1>2
    BY <2>3 DEF UdpPullResp
  <2>4. CASE Main
    BY <2>4 DEF Main, MainInterrupt, MainShutdown, MainClose, MainExit, Terminate
  <2>5. CASE AirTxEnd
    BY <2>5 DEF AirTxEnd, FinishTx
  <2>6. CASE UNCHANGED vars
    BY <2>6, Stutter
  <2> QED
    BY <2>1, <2>2, <2>3, <2>4, <2>5, <2>6, Actors
<1>3. Spent(f) => Spent(f)'
  BY <1>1, <1>2 DEF Spent, Whole
<1>4. Settled(f) => Settled(f)'
  BY <1>1, <1>2 DEF Settled, Whole
<1> QED
  BY <1>1, <1>3, <1>4 DEF Matched, Tight, Whole

LEMMA MatchedStep == IndInv /\ AllMatched /\ [Next]_vars => AllMatched'
<1> SUFFICES ASSUME IndInv, AllMatched, [Next]_vars, ~Garbled, NEW f \in Uplinks
             PROVE  Matched(f)'
  BY DEF AllMatched
<1>1. TypeOK /\ LocalsSet /\ Matched(f)
  BY DEF IndInv, AllMatched
<1> QED
  BY <1>1, MatchedRx, MatchedPush, MatchedReception, MatchedRest

\* NoDuplicatePushHolds: with exact readings no frame is pushed more often
\* than it was received, for any frames and bounds, whichever transfers fail
\* and whenever the process is stopped.
THEOREM NoDuplicatePushHolds == Spec => []NoDuplicatePush
<1>1. TypeOK /\ AllMatched => NoDuplicatePush
  <2> SUFFICES ASSUME TypeOK, AllMatched, ~Garbled, NEW f \in Uplinks,
                      BagIn(<<f, f>>, pushed)
               PROVE  BagIn(f, heard) /\ pushed[<<f, f>>] <= heard[f]
    BY DEF NoDuplicatePush
  <2>1. Copies(<<f, f>>, pushed) <= Copies(f, heard)
    BY DEF AllMatched, Matched, Whole
  <2> QED
    BY <2>1 DEF Copies, BagIn, BagToSet, TypeOK, IsABag
<1>2. IndInv => TypeOK
  BY DEF IndInv
<1> QED
  BY <1>1, <1>2, IndInvariant, MatchedInit, MatchedStep, PTL DEF Spec
=============================================================================
