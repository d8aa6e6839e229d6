--------------------------- MODULE LoraModeProofs ---------------------------
(***************************************************************************)
(* Theorems about LoraMode, for any number of calls at a time, for every   *)
(* set of users, and with failing commands, interrupted calls, reboots and *)
(* new installations allowed or not.                                       *)
(***************************************************************************)
EXTENDS LoraMode, TLAPS

-----------------------------------------------------------------------------
(* The inductive invariant.                                                *)

\* What a call knows on its way: the mode it read is the one to leave; while
\* it is sure, the service it has stopped stays stopped; and one that is alone
\* besides has the services as it wants them from its start on.
CallKnows(c) ==
  /\ pc[c] = "stop" => current[c] \in Mode
  /\ pc[c] # "idle" => current[c] # target[c]
  /\ pc[c] = "start" /\ Sure(c) => unit[current[c]] = "stopped"
  /\ pc[c] \in {"tee", "open", "write"} /\ Sure(c) /\ alone[c] =>
       unit[target[c]] # "stopped" /\ unit[Other(target[c])] = "stopped"

\* One that is alone has neither another call nor install.sh beside it.
Alone(c) ==
  alone[c] =>
    /\ pc[c] # "idle" /\ ipc = "done"
    /\ \A d \in Calls : d # c => pc[d] = "idle"

\* The mode in the file is the one that runs, and the only one.
Truth ==
  /\ file \in Mode
  /\ unit[file] # "stopped" /\ unit[Other(file)] = "stopped"

\* While nothing has gone wrong: calls are alone, and so is install.sh, which
\* finds the truth in the file, or neither a file nor a service that runs.
Undisturbed ==
  /\ \A c \in Calls : pc[c] # "idle" => alone[c] /\ (pc[c] \notin {"stop", "start"} => Sure(c))
  /\ Idle /\ ipc = "done" => Truth
  /\ ipc = "mode" => Truth \/ (file = "absent" /\ \A m \in Mode : unit[m] = "stopped")
  /\ ipc \in {"enable1", "enable2", "start"} =>
       file \in Mode /\ unit[Other(file)] = "stopped"

IndInv ==
  /\ TypeOK
  /\ \A c \in Calls : CallKnows(c) /\ Alone(c)
  /\ ~blind => OneRadioUser
  /\ ~doubt => Undisturbed

LEMMA OtherMode ==
  \A m \in Mode : /\ Other(m) \in Mode /\ Other(m) # m /\ Other(Other(m)) = m
                  /\ \A n \in Mode : n # m => n = Other(m)
BY DEF Mode, Other

LEMMA InitInd == Init => IndInv
<1> SUFFICES ASSUME Init PROVE IndInv
  OBVIOUS
<1>1. TypeOK
  <2>1. /\ blind \in BOOLEAN /\ doubt \in BOOLEAN
        /\ unsure \in [Calls -> BOOLEAN] /\ alone \in [Calls -> BOOLEAN]
    BY Zenon DEF Init
  <2> QED
    BY <2>1 DEF Init, TypeOK, Contents, Mode
<1>2. \A c \in Calls : CallKnows(c) /\ Alone(c)
  BY DEF Init, CallKnows, Alone
<1>3. OneRadioUser
  BY OtherMode DEF Init, OneRadioUser
<1>4. Undisturbed
  BY DEF Init, Undisturbed
<1> QED
  BY <1>1, <1>2, <1>3, <1>4 DEF IndInv

-----------------------------------------------------------------------------
(* The types.                                                              *)

LEMMA TypeInstall ==
  ASSUME TypeOK, Install \/ InstallAgain
  PROVE  TypeOK'
<1> USE DEF TypeOK, Contents
<1>1. CASE InstallMode \/ InstallEnableGateway \/ InstallEnableNode \/ InstallEnds
  <2>1. enabled' \in SUBSET Mode /\ file' \in Contents
    BY <1>1 DEF InstallMode, InstallEnableGateway, InstallEnableNode,
                InstallEnds, Mode
  <2>2. doubt' \in BOOLEAN
    BY <1>1, Zenon DEF InstallMode, InstallEnableGateway, InstallEnableNode,
                InstallEnds, TypeOK
  <2>3. /\ UNCHANGED <<unit, pc, current, target, unsure, alone, blind>>
        /\ ipc' \in {"enable1", "enable2", "start", "done"}
    BY <1>1 DEF InstallMode, InstallEnableGateway, InstallEnableNode,
                InstallEnds, cli, locals
  <2> QED
    BY <2>1, <2>2, <2>3
<1>2. CASE InstallStart
  <2>1. blind' \in BOOLEAN /\ doubt' \in BOOLEAN
    BY <1>2, Zenon DEF InstallStart, TypeOK
  <2>2. unsure' \in [Calls -> BOOLEAN]
    <3>1. UnsureAfter(file) \in [Calls -> BOOLEAN]
      BY Zenon DEF UnsureAfter
    <3> QED
      BY <1>2, <3>1 DEF InstallStart
  <2> QED
    BY <1>2, <2>1, <2>2 DEF InstallStart
<1>3. CASE InstallAgain
  <2>1. doubt' \in BOOLEAN
    BY <1>3, Zenon DEF InstallAgain, TypeOK
  <2> QED
    BY <1>3, <2>1 DEF InstallAgain
<1> QED
  BY <1>1, <1>2, <1>3 DEF Install

LEMMA TypeCall ==
  ASSUME TypeOK, NEW c \in Calls,
         SetStep(c) \/ \E m \in Mode : Set(c, m)
  PROVE  TypeOK'
<1> USE DEF TypeOK, Contents
<1>1. ASSUME NEW m \in Mode, Set(c, m)
      PROVE  TypeOK'
  <2>1. doubt' \in BOOLEAN
    BY <1>1, Zenon DEF Set, TypeOK
  <2> QED
    BY <1>1, <2>1 DEF Set
<1>2. CASE SetStop(c)
  <2>1. doubt' \in BOOLEAN
    BY <1>2, Zenon DEF SetStop, Unnoticed, TypeOK
  <2> QED
    BY <1>2, <2>1 DEF SetStop, At, Unnoticed
<1>3. CASE SetStart(c)
  <2>1. blind' \in BOOLEAN /\ doubt' \in BOOLEAN
    BY <1>3, Zenon DEF SetStart, Unnoticed, TypeOK
  <2>2. UnsureAfter(target[c]) \in [Calls -> BOOLEAN]
    BY Zenon DEF UnsureAfter
  <2> QED
    BY <1>3, <2>1, <2>2 DEF SetStart, At, Unnoticed
<1>4. CASE SetTee(c) \/ SetOpen(c)
  BY <1>4 DEF SetTee, SetOpen, At, locals
<1>5. CASE SetOpenRaises(c) \/ SetInterrupted(c)
  BY <1>5 DEF SetOpenRaises, SetInterrupted, Ends, Mode
<1>6. CASE SetWrite(c)
  <2>1. doubt' \in BOOLEAN
    BY <1>6, Zenon DEF SetWrite, Written
  <2> QED
    BY <1>6, <2>1 DEF SetWrite, Written, Ends, Mode
<1> QED
  BY <1>1, <1>2, <1>3, <1>4, <1>5, <1>6 DEF SetStep

LEMMA TypeSystem ==
  ASSUME TypeOK, Boot \/ UNCHANGED vars \/ \E m \in Mode : Fail(m) \/ Restart(m)
  PROVE  TypeOK'
<1> USE DEF TypeOK, Contents
<1>1. ASSUME NEW m \in Mode, Fail(m) \/ Restart(m)
      PROVE  TypeOK'
  BY <1>1 DEF Fail, Restart, cli, locals
<1>2. CASE Boot
  <2>1. blind' \in BOOLEAN
    BY <1>2, Zenon DEF Boot
  <2> QED
    BY <1>2, <2>1 DEF Boot, Mode
<1>3. CASE UNCHANGED vars
  BY <1>3 DEF vars, cli, locals
<1> QED
  BY <1>1, <1>2, <1>3

LEMMA TypeStep == TypeOK /\ [Next]_vars => TypeOK'
BY TypeInstall, TypeCall, TypeSystem DEF Next

-----------------------------------------------------------------------------
(* The invariant is preserved by install.sh ...                            *)

LEMMA KnowsInstall ==
  ASSUME IndInv, Install \/ InstallAgain, NEW c \in Calls
  PROVE  CallKnows(c)' /\ Alone(c)'
<1> USE DEF IndInv, TypeOK, CallKnows, Alone, Sure
<1>1. CASE InstallMode \/ InstallEnableGateway \/ InstallEnableNode \/ InstallEnds
  BY <1>1 DEF InstallMode, InstallEnableGateway, InstallEnableNode,
              InstallEnds, cli, locals
<1>2. CASE InstallStart
  <2>1. CASE file \in Mode
    <3>1. unsure'[c] = (unsure[c] \/ (pc[c] = "start" /\ current[c] = file))
      BY <1>2, <2>1 DEF InstallStart, UnsureAfter
    <3>2. ~alone[c]
      BY <1>2 DEF InstallStart
    <3> QED
      BY <1>2, <2>1, <3>1, <3>2 DEF InstallStart
  <2>2. CASE file \notin Mode
    BY <1>2, <2>2 DEF InstallStart
  <2> QED
    BY <2>1, <2>2
<1>3. CASE InstallAgain
  BY <1>3 DEF InstallAgain
<1> QED
  BY <1>1, <1>2, <1>3 DEF Install

LEMMA UnitsInstall ==
  ASSUME IndInv, Install \/ InstallAgain
  PROVE  /\ ~blind' => OneRadioUser'
         /\ ~doubt' => Undisturbed'
<1> USE OtherMode
<1> USE DEF IndInv, TypeOK, OneRadioUser
<1>1. CASE InstallMode
  BY <1>1 DEF InstallMode, Undisturbed, Truth, Idle, Sure, cli, locals, Mode
<1>2. CASE InstallEnableGateway \/ InstallEnableNode
  BY <1>2 DEF InstallEnableGateway, InstallEnableNode, Undisturbed, Truth,
              Idle, Sure, cli, locals
<1>3. CASE InstallStart
  <2>1. CASE file \in Mode
    <3>1. ~blind' => OneRadioUser'
      <4>1. ~blind' => unit[Other(file)] = "stopped"
        BY <1>3, <2>1, Zenon DEF InstallStart
      <4>2. unit' = [unit EXCEPT ![file] = "running"]
        BY <1>3, <2>1 DEF InstallStart
      <4> QED
        BY <2>1, <4>1, <4>2
    <3>2. ~doubt' => Undisturbed'
      BY <1>3, <2>1 DEF InstallStart, Undisturbed, Truth, Idle, Alone
    <3> QED
      BY <3>1, <3>2
  <2>2. CASE file \notin Mode
    BY <1>3, <2>2 DEF InstallStart, Undisturbed
  <2> QED
    BY <2>1, <2>2
<1>4. CASE InstallEnds
  BY <1>4 DEF InstallEnds
<1>5. CASE InstallAgain
  <2>1. /\ UNCHANGED <<file, unit, pc, blind>>
        /\ ipc = "done" /\ ipc' = "mode"
    BY <1>5 DEF InstallAgain
  <2>2. ~doubt' => ~doubt /\ Idle
    <3>1. doubt' \in {doubt, TRUE} /\ (doubt' \/ Idle)
      BY <1>5, Zenon DEF InstallAgain
    <3>2. doubt' = doubt \/ doubt' = TRUE
      BY <3>1, Zenon
    <3> QED
      BY <3>1, <3>2, Zenon
  <2>3. ~doubt' => Undisturbed'
    BY <2>1, <2>2 DEF Undisturbed, Truth, Idle
  <2> QED
    BY <2>1, <2>3
<1> QED
  BY <1>1, <1>2, <1>3, <1>4, <1>5 DEF Install

-----------------------------------------------------------------------------
(* ... by a step of a call ...                                             *)

LEMMA KnowsCall ==
  ASSUME IndInv, NEW c \in Calls, NEW d \in Calls,
         SetStep(c) \/ \E m \in Mode : Set(c, m)
  PROVE  CallKnows(d)' /\ Alone(d)'
<1> USE OtherMode
<1> USE DEF IndInv, TypeOK, CallKnows, Alone, Sure
<1>1. ASSUME NEW m \in Mode, Set(c, m)
      PROVE  CallKnows(d)' /\ Alone(d)'
  BY <1>1 DEF Set, Idle
<1>2. CASE SetStop(c)
  BY <1>2 DEF SetStop, At, Unnoticed
<1>3. CASE SetStart(c)
  <2>1. CASE Unnoticed(c)
    BY <1>3, <2>1 DEF SetStart, At, Unnoticed
  <2>2. CASE unit' = [unit EXCEPT ![target[c]] = "running"] /\ unsure' = UnsureAfter(target[c])
    <3>1. unsure'[d] = (unsure[d] \/ (pc[d] = "start" /\ current[d] = target[c]))
      BY <2>2 DEF UnsureAfter
    <3>2. ~unsure'[d] => ~unsure[d] /\ ~(pc[d] = "start" /\ current[d] = target[c])
      BY <3>1, Zenon
    <3>3. /\ pc[c] = "start" /\ pc' = [pc EXCEPT ![c] = "tee"]
          /\ UNCHANGED <<ipc, current, target, alone>>
      BY <1>3 DEF SetStart, At
    <3>4. CASE d = c
      BY <2>2, <3>2, <3>3, <3>4
    <3>5. CASE d # c
      BY <2>2, <3>2, <3>3, <3>5
    <3> QED
      BY <3>4, <3>5
  <2> QED
    BY <1>3, <2>1, <2>2 DEF SetStart
<1>4. CASE SetTee(c) \/ SetOpen(c)
  BY <1>4 DEF SetTee, SetOpen, At, locals
<1>5. CASE SetOpenRaises(c) \/ SetInterrupted(c) \/ SetWrite(c)
  BY <1>5 DEF SetOpenRaises, SetInterrupted, SetWrite, Written, Ends
<1> QED
  BY <1>1, <1>2, <1>3, <1>4, <1>5 DEF SetStep

LEMMA UnitsCall ==
  ASSUME IndInv, NEW c \in Calls,
         SetStep(c) \/ \E m \in Mode : Set(c, m)
  PROVE  /\ ~blind' => OneRadioUser'
         /\ ~doubt' => Undisturbed'
<1> USE OtherMode
<1> USE DEF IndInv, TypeOK, OneRadioUser
<1>0. CallKnows(c) /\ Alone(c)
  OBVIOUS
<1>1. ASSUME NEW m \in Mode, Set(c, m)
      PROVE  /\ ~blind' => OneRadioUser'
             /\ ~doubt' => Undisturbed'
  BY <1>1 DEF Set, Idle, Undisturbed, Sure
<1>2. CASE SetStop(c)
  BY <1>0, <1>2 DEF SetStop, At, Unnoticed, CallKnows, Alone, Undisturbed, Idle, Sure
<1>3. CASE SetStart(c)
  <2>1. CASE Unnoticed(c)
    BY <1>3, <2>1 DEF Unnoticed
  <2>2. CASE ~Unnoticed(c)
    <3>1. /\ pc[c] = "start" /\ pc' = [pc EXCEPT ![c] = "tee"]
          /\ unit' = [unit EXCEPT ![target[c]] = "running"]
          /\ unsure' = UnsureAfter(target[c])
          /\ UNCHANGED <<file, ipc, current, alone>>
          /\ ~blind' => Sure(c)
          /\ ~doubt' => ~doubt /\ Sure(c)
      BY <1>3, <2>2, Zenon DEF SetStart, At
    <3>2. Sure(c) => unit[current[c]] = "stopped" /\ current[c] = Other(target[c])
      BY <1>0, <3>1 DEF CallKnows, Sure
    <3>3. ~blind' => OneRadioUser'
      BY <3>1, <3>2
    <3>4. Sure(c) => Sure(c)'
      BY <1>0, <3>1 DEF Sure, UnsureAfter, CallKnows
    <3>5. ~doubt' => Undisturbed'
      BY <1>0, <3>1, <3>4 DEF Undisturbed, Idle, Alone
    <3> QED
      BY <3>3, <3>5
  <2> QED
    BY <2>1, <2>2
<1>4. CASE SetTee(c) \/ SetOpen(c)
  BY <1>0, <1>4 DEF SetTee, SetOpen, At, locals, Undisturbed, Idle, Alone, Sure
<1>5. CASE SetOpenRaises(c) \/ SetInterrupted(c)
  BY <1>5 DEF SetOpenRaises, SetInterrupted
<1>6. CASE SetWrite(c)
  <2>1. /\ pc[c] = "write" /\ pc'[c] = "idle" /\ file' = target[c]
        /\ UNCHANGED <<unit, ipc, blind>>
        /\ \A d \in Calls : d # c => pc'[d] = pc[d]
    BY <1>6 DEF SetWrite, Written, Ends
  <2>2. ~doubt' => alone[c] /\ Sure(c)
    BY <1>6, <2>1 DEF SetWrite, Written, Undisturbed
  <2>3. ~doubt' => Truth' /\ ipc' = "done" /\ Idle'
    BY <1>0, <2>1, <2>2 DEF CallKnows, Alone, Truth, Idle
  <2>4. ~doubt' => Undisturbed'
    BY <2>3 DEF Undisturbed, Idle
  <2> QED
    BY <2>1, <2>4
<1> QED
  BY <1>1, <1>2, <1>3, <1>4, <1>5, <1>6 DEF SetStep

-----------------------------------------------------------------------------
(* ... and by systemd.                                                     *)

LEMMA IndSystem ==
  ASSUME IndInv, Boot \/ UNCHANGED vars \/ \E m \in Mode : Fail(m) \/ Restart(m)
  PROVE  IndInv'
<1>0. TypeOK'
  BY TypeSystem DEF IndInv
<1> USE OtherMode
<1> USE DEF IndInv, TypeOK
<1>1. ASSUME NEW m \in Mode, Fail(m) \/ Restart(m)
      PROVE  IndInv'
  <2>1. /\ UNCHANGED <<file, ipc, pc, current, target, unsure, alone, blind, doubt>>
        /\ \A n \in Mode : unit'[n] = "stopped" <=> unit[n] = "stopped"
    BY <1>1 DEF Fail, Restart, cli, locals
  <2>2. \A c \in Calls : CallKnows(c)' /\ Alone(c)'
    BY <2>1 DEF CallKnows, Alone, Sure
  <2>3. ~blind' => OneRadioUser'
    BY <2>1 DEF OneRadioUser
  <2>4. Truth => Truth'
    BY <2>1 DEF Truth
  <2>5. ~doubt' => Undisturbed'
    BY <2>1, <2>4 DEF Undisturbed, Idle, Sure
  <2> QED
    BY <1>0, <2>2, <2>3, <2>5
<1>2. CASE Boot
  <2>1. \A c \in Calls : CallKnows(c)' /\ Alone(c)'
    BY <1>2 DEF Boot, CallKnows, Alone
  <2>2. ~blind' => OneRadioUser'
    BY <1>2 DEF Boot, OneRadioUser, Mode
  <2>3. doubt'
    BY <1>2 DEF Boot
  <2> QED
    BY <1>0, <2>1, <2>2, <2>3
<1>3. CASE UNCHANGED vars
  BY <1>0, <1>3 DEF vars, cli, locals, CallKnows, Alone, Sure, OneRadioUser,
                    Undisturbed, Truth, Idle
<1> QED
  BY <1>1, <1>2, <1>3

LEMMA IndStep == IndInv /\ [Next]_vars => IndInv'
<1> SUFFICES ASSUME IndInv, [Next]_vars PROVE IndInv'
  OBVIOUS
<1>0. TypeOK'
  BY TypeStep DEF IndInv
<1>1. CASE Install \/ InstallAgain
  BY <1>0, <1>1, KnowsInstall, UnitsInstall DEF IndInv
<1>2. ASSUME NEW c \in Calls, SetStep(c) \/ \E m \in Mode : Set(c, m)
      PROVE  IndInv'
  BY <1>0, <1>2, KnowsCall, UnitsCall DEF IndInv
<1>3. CASE Boot \/ UNCHANGED vars \/ \E m \in Mode : Fail(m) \/ Restart(m)
  BY <1>3, IndSystem
<1> QED
  BY <1>1, <1>2, <1>3 DEF Next

\* TypeCorrect: whatever fails, is interrupted or overlaps, the mode file holds
\* a mode, nothing or what write_mode's tee left in it, and the units are in
\* states systemd has.
THEOREM TypeCorrect == Spec => []TypeOK
<1>1. IndInv => TypeOK
  BY DEF IndInv
<1> QED
  BY InitInd, IndStep, <1>1, PTL DEF Spec

\* StopBeforeStartHolds: however many calls overlap, whichever of their
\* commands fail, wherever they are cut short and however often services fail
\* or the phone is rebooted, the two services share the radio only while the
\* last start was one that was not sure of its stop.
THEOREM StopBeforeStartHolds == Spec => []StopBeforeStart
<1>1. IndInv => StopBeforeStart
  BY DEF IndInv, StopBeforeStart
<1> QED
  BY InitInd, IndStep, <1>1, PTL DEF Spec

\* FileIsTruthHolds: between the calls the file names the service that runs,
\* unless something went wrong since the last call that was alone, sure of its
\* stop and start, and complete: such a call repairs whatever was wrong before.
THEOREM FileIsTruthHolds == Spec => []FileIsTruth
<1>1. IndInv => FileIsTruth
  BY DEF IndInv, FileIsTruth, Undisturbed, Truth
<1> QED
  BY InitInd, IndStep, <1>1, PTL DEF Spec
=============================================================================
