-------------------------- MODULE UdpSessionProofs --------------------------
(***************************************************************************)
(* Theorems about UdpSession, for every set of responses and every bound:  *)
(* type correctness, that each statistic reports what was counted before   *)
(* it was sent, and that the queue holds the good responses in the order   *)
(* in which they arrived.                                                  *)
(***************************************************************************)
EXTENDS UdpSession, TLAPS, SequenceTheorems, FiniteSetTheorems

\* How far rx-loop and tx-drain are with counting what they have done.
CountersKept ==
  /\ stat["rxnb"] = Len(pushed) - (IF pushpc = "rxnb" THEN 1 ELSE 0)
  /\ stat["rxok"] = Len(pushed) - (IF pushpc \in {"rxnb", "rxok"} THEN 1 ELSE 0)
  /\ stat["rxfw"] =
       Len(pushed) - (IF pushpc \in {"rxnb", "rxok", "rxfw"} THEN 1 ELSE 0)
  /\ stat["dwnb"] = stat["txnb"] + (IF drainpc = "txnb" THEN 1 ELSE 0)

\* Counters that may be reported next.
Reportable(s) ==
  /\ s \in Stat
  /\ \A c \in {"rxnb", "rxok", "rxfw"} : s[c] = Len(pushed)
  /\ s["dwnb"] - s["txnb"] \in {0, 1}
  /\ \A c \in Counters : s[c] <= stat[c]
  /\ \A n \in DOMAIN pushed : \A c \in Counters : pushed[n][c] <= s[c]

\* Counting only adds to what was reported.
Grown == \A n \in DOMAIN pushed : \A c \in Counters : pushed[n][c] <= stat[c]

IndInv ==
  /\ TypeOK
  /\ CountersKept
  /\ pushpc = "send" => Reportable(snapshot)
  /\ Grown
  /\ ReportsCount

-----------------------------------------------------------------------------
(* Type correctness *)

\* The steps of each thread leave the others' variables alone.
LEMMA SendType ==
  ASSUME TypeOK, Sends("PULL_DATA") \/ Sends("PUSH_DATA") \/ SendRaises
  PROVE  toServer' \subseteq {"PUSH_DATA", "PULL_DATA"} /\ faults' \in 0..MaxFaults
<1>1. toServer' \subseteq {"PUSH_DATA", "PULL_DATA"}
  BY DEF TypeOK, Sends, SendRaises
<1>2. faults' \in 0..MaxFaults
  <2>1. faults' = faults \/ (faults < MaxFaults /\ faults' = faults + 1)
    BY DEF Sends, SendRaises
  <2> QED
    BY <2>1, SessionAssumption DEF TypeOK
<1> QED
  BY <1>1, <1>2

LEMMA PullType == TypeOK /\ Pull => TypeOK'
<1> SUFFICES ASSUME TypeOK, Pull PROVE TypeOK'
  OBVIOUS
<1>1. /\ pullpc' \in {"top", "send", "wait", "ended"}
      /\ toServer' \subseteq {"PUSH_DATA", "PULL_DATA"} /\ faults' \in 0..MaxFaults
  BY SendType DEF Pull, PullTop, PullSend, PullWait, TypeOK
<1>2. UNCHANGED <<listenVars, pushVars, drainpc, mpc, stat, queue, arrivals>>
  BY DEF Pull, PullTop, PullSend, PullWait
<1> QED
  BY <1>1, <1>2 DEF TypeOK, listenVars, pushVars

LEMMA ListenType == TypeOK /\ Listen => TypeOK'
<1> SUFFICES ASSUME TypeOK, Listen PROVE TypeOK'
  OBVIOUS
<1>1. UNCHANGED <<pullpc, pushVars, drainpc, mpc, stat, toServer, arrivals, faults>>
  BY DEF Listen, ListenTop, Receive
<1>2. CASE ListenTop
  BY <1>1, <1>2 DEF ListenTop, TypeOK, pushVars
<1>3. CASE Receive
  <2>1. nread' \in 0..Len(arrivals')
    BY <1>3 DEF Receive, TypeOK
  <2>2. /\ listener' \in {"top", "recv", "ended"}
        /\ queue' \in Seq(Good) /\ queued' \in Seq(Good)
    <3> DEFINE d == arrivals[nread + 1]
    <3>1. \/ d \in Good /\ queue' = Append(queue, d)
            /\ queued' = Append(queued, d) /\ listener' = "top"
          \/ listener' \in {"top", "ended"} /\ UNCHANGED <<queue, queued>>
      BY <1>3 DEF Receive, Dispatch
    <3> HIDE DEF d
    <3>2. queue \in Seq(Good) /\ queued \in Seq(Good)
      BY DEF TypeOK
    <3>3. CASE d \in Good /\ queue' = Append(queue, d)
               /\ queued' = Append(queued, d) /\ listener' = "top"
      BY <3>2, <3>3, AppendProperties
    <3> QED
      BY <3>1, <3>2, <3>3
  <2> QED
    BY <1>1, <2>1, <2>2 DEF TypeOK, pushVars
<1> QED
  BY <1>2, <1>3 DEF Listen

LEMMA CountType ==
  ASSUME NEW s \in Stat, NEW c \in Counters
  PROVE  /\ [s EXCEPT ![c] = @ + 1] \in Stat
         /\ [s EXCEPT ![c] = @ + 1][c] = s[c] + 1
         /\ \A e \in Counters \ {c} : [s EXCEPT ![c] = @ + 1][e] = s[e]
BY DEF Stat

LEMMA PushType ==
  ASSUME TypeOK, pushpc = "send" => snapshot \in Stat,
         Heard \/ MakeStat \/ PushSend \/ CountPush
  PROVE  TypeOK'
<1>1. UNCHANGED <<listenVars, pullpc, drainpc, mpc, queue, arrivals>>
  BY DEF Heard, MakeStat, PushSend, CountPush, Count
<1>2. pushpc' \in {"radio", "stat", "send", "rxnb", "rxok", "rxfw"}
  BY DEF Heard, MakeStat, PushSend, CountPush, Count, TypeOK
<1>3. toServer' \subseteq {"PUSH_DATA", "PULL_DATA"} /\ faults' \in 0..MaxFaults
  <2>1. CASE PushSend
    BY <2>1, SendType DEF PushSend
  <2> QED
    BY <2>1 DEF Heard, MakeStat, CountPush, Count, TypeOK
<1>4. snapshot' \in Stat \cup {None}
  BY DEF Heard, MakeStat, PushSend, CountPush, Count, TypeOK
<1>5. stat' \in Stat
  <2>1. CASE CountPush
    <3>1. PICK c \in Counters : stat' = [stat EXCEPT ![c] = @ + 1]
      BY <2>1 DEF CountPush, Count, Counters
    <3> QED
      BY <3>1, CountType DEF TypeOK
  <2> QED
    BY <2>1 DEF Heard, MakeStat, PushSend, TypeOK
<1>6. pushed' \in Seq(Stat)
  <2>1. CASE PushSend
    <3>1. snapshot \in Stat /\ pushed \in Seq(Stat)
      BY <2>1 DEF PushSend, TypeOK
    <3>2. pushed' = pushed \/ pushed' = Append(pushed, snapshot)
      BY <2>1 DEF PushSend
    <3> QED
      BY <3>1, <3>2, AppendProperties
  <2> QED
    BY <2>1 DEF Heard, MakeStat, CountPush, Count, TypeOK
<1> QED
  BY <1>1, <1>2, <1>3, <1>4, <1>5, <1>6 DEF TypeOK, listenVars

LEMMA DrainType ==
  TypeOK /\ (DrainTop \/ DrainDone \/ DrainCount \/ DrainFails) => TypeOK'
<1> SUFFICES ASSUME TypeOK, DrainTop \/ DrainDone \/ DrainCount \/ DrainFails
             PROVE  TypeOK'
  OBVIOUS
<1>1. UNCHANGED <<listenVars, pullpc, pushVars, mpc, toServer, arrivals, faults>>
  BY DEF DrainTop, DrainDone, DrainCount, DrainFails
<1>2. drainpc' \in {"idle", "serving", "txnb", "ended"}
  BY DEF DrainTop, DrainDone, DrainCount, DrainFails, TypeOK
<1>3. stat' \in Stat
  <2>1. stat' = stat \/ \E c \in Counters : stat' = [stat EXCEPT ![c] = @ + 1]
    BY DEF DrainTop, DrainDone, DrainCount, DrainFails, Counters
  <2> QED
    BY <2>1, CountType DEF TypeOK
<1>4. queue' \in Seq(Good)
  <2>1. queue' = queue \/ (queue # <<>> /\ queue' = Tail(queue))
    BY DEF DrainTop, DrainDone, DrainCount, DrainFails
  <2> QED
    BY <2>1, HeadTailProperties DEF TypeOK
<1> QED
  BY <1>1, <1>2, <1>3, <1>4 DEF TypeOK, listenVars, pushVars

\* main, and what comes from outside.
Around == Stop \/ Close \/ Exit \/ Arrive

LEMMA AroundType == TypeOK /\ Around => TypeOK'
<1> SUFFICES ASSUME TypeOK, Around PROVE TypeOK'
  OBVIOUS
<1>1. UNCHANGED <<listenVars, pullpc, pushVars, drainpc, stat, queue, toServer,
                  faults>>
  BY DEF Around, Stop, Close, Exit, Arrive
<1>2. mpc' \in {"run", "stopping", "closed", "exited"}
  BY DEF Around, Stop, Close, Exit, Arrive, TypeOK
<1>3. Answers \subseteq Datagrams
  BY DEF Answers, Datagrams
<1>4. arrivals' \in Seq(Datagrams) /\ nread \in 0..Len(arrivals')
  <2>1. CASE Arrive
    <3>1. PICK d \in Datagrams : arrivals' = Append(arrivals, d)
      BY <2>1, <1>3 DEF Arrive
    <3> QED
      BY <3>1 DEF TypeOK
  <2> QED
    BY <2>1 DEF Around, Stop, Close, Exit, TypeOK
<1> QED
  BY <1>1, <1>2, <1>4 DEF TypeOK, listenVars, pushVars

-----------------------------------------------------------------------------
(* The counters *)

LEMMA InitInd == Init => IndInv
<1> SUFFICES ASSUME Init PROVE IndInv
  OBVIOUS
<1>1. TypeOK
  BY SessionAssumption DEF Init, TypeOK, Stat, Counters
<1> QED
  BY <1>1 DEF Init, IndInv, CountersKept, Grown, ReportsCount, Counters

\* What rx-loop and tx-drain do not touch keeps the counters as they are.
LEMMA CountersElsewhere ==
  ASSUME IndInv, Pull \/ Listen \/ Around \/ UNCHANGED vars
  PROVE  IndInv'
<1>1. TypeOK'
  <2>1. CASE UNCHANGED vars
    BY <2>1 DEF IndInv, TypeOK, vars, listenVars, pushVars
  <2> QED
    BY <2>1, PullType, ListenType, AroundType DEF IndInv
<1>2. UNCHANGED <<pushVars, drainpc, stat>>
  BY DEF Pull, PullTop, PullSend, PullWait, Listen, ListenTop, Receive, Around, Stop, Close, Exit, Arrive, vars
<1> QED
  BY <1>1, <1>2 DEF IndInv, CountersKept, Reportable, Grown, ReportsCount,
                    pushVars

\* Heard: only where rx-loop is changes.
LEMMA HeardInd == IndInv /\ Heard => IndInv'
<1> SUFFICES ASSUME IndInv, Heard PROVE IndInv'
  OBVIOUS
<1>1. TypeOK'
  BY PushType DEF IndInv, Heard
<1>2. UNCHANGED <<pushed, snapshot, drainpc, stat>> /\ pushpc' = "stat" /\ pushpc = "radio"
  BY DEF Heard
<1> QED
  BY <1>1, <1>2 DEF IndInv, CountersKept, Grown, ReportsCount

\* MakeStat: nothing of this push is counted yet, so that the copy shows the
\* pushes before it; tx-drain is between its two counters at most.
LEMMA MakeStatInd == IndInv /\ MakeStat => IndInv'
<1> SUFFICES ASSUME IndInv, MakeStat PROVE IndInv'
  OBVIOUS
<1>1. TypeOK'
  BY PushType DEF IndInv, MakeStat
<1>2. /\ UNCHANGED <<pushed, drainpc, stat>>
      /\ snapshot' = stat /\ pushpc' = "send" /\ pushpc = "stat"
  BY DEF MakeStat
<1>3. stat \in Stat /\ Len(pushed) \in Nat
  BY DEF IndInv, TypeOK
<1>4. stat["dwnb"] \in Nat /\ stat["txnb"] \in Nat /\ \A c \in Counters : stat[c] \in Nat
  BY <1>3 DEF Stat, Counters
<1>5. Reportable(snapshot)'
  BY <1>2, <1>3, <1>4 DEF IndInv, CountersKept, Grown, Reportable
<1>6. CountersKept' /\ Grown' /\ ReportsCount'
  BY <1>2 DEF IndInv, CountersKept, Grown, ReportsCount
<1> QED
  BY <1>1, <1>5, <1>6 DEF IndInv

\* PushSend: the copy becomes the next report, and the frame is still to be
\* counted; if sendto raises there is neither.
LEMMA PushSendInd == IndInv /\ PushSend => IndInv'
<1> SUFFICES ASSUME IndInv, PushSend PROVE IndInv'
  OBVIOUS
<1>1. TypeOK'
  BY PushType DEF IndInv, PushSend, Reportable
<1>2. UNCHANGED <<drainpc, stat>> /\ pushpc = "send" /\ pushpc' # "send"
  BY DEF PushSend
<1>3. Reportable(snapshot)
  BY <1>2 DEF IndInv
<1>4. CASE UNCHANGED pushed /\ pushpc' = "radio"
  BY <1>1, <1>2, <1>4 DEF IndInv, CountersKept, Grown, ReportsCount
<1>5. CASE pushed' = Append(pushed, snapshot) /\ pushpc' = "rxnb"
  <2>1. pushed \in Seq(Stat) /\ snapshot \in Stat
    BY <1>3 DEF IndInv, TypeOK, Reportable
  <2>2. /\ Len(pushed) \in Nat /\ Len(pushed') = Len(pushed) + 1
        /\ DOMAIN pushed = 1..Len(pushed) /\ DOMAIN pushed' = 1..(Len(pushed) + 1)
        /\ \A n \in DOMAIN pushed : pushed'[n] = pushed[n]
        /\ pushed'[Len(pushed) + 1] = snapshot
    BY <2>1, <1>5, AppendProperties
  <2>3. CountersKept'
    BY <1>2, <1>5, <2>2 DEF IndInv, CountersKept
  <2>4. Grown'
    BY <1>2, <1>3, <2>2 DEF IndInv, Grown, Reportable
  <2>5. ReportsCount'
    <3> SUFFICES ASSUME NEW n \in DOMAIN pushed'
                 PROVE  /\ \A c \in {"rxnb", "rxok", "rxfw"} : pushed'[n][c] = n - 1
                        /\ pushed'[n]["dwnb"] - pushed'[n]["txnb"] \in {0, 1}
                        /\ \A m \in 1..n : \A c \in Counters :
                             pushed'[m][c] <= pushed'[n][c]
      BY DEF ReportsCount
    <3>1. CASE n \in DOMAIN pushed
      BY <2>2, <3>1 DEF IndInv, ReportsCount
    <3>2. CASE n = Len(pushed) + 1
      <4>1. \A c \in Counters : snapshot[c] <= snapshot[c]
        BY <2>1 DEF Stat
      <4> QED
        BY <1>3, <2>2, <3>2, <4>1 DEF Reportable
    <3> QED
      BY <2>2, <3>1, <3>2
  <2> QED
    BY <1>1, <1>5, <2>3, <2>4, <2>5 DEF IndInv
<1> QED
  BY <1>4, <1>5 DEF PushSend

\* One counter goes up: what was reported stays below the counters.
LEMMA GrowMore ==
  ASSUME TypeOK, Grown, NEW c \in Counters, UNCHANGED pushed,
         stat' = [stat EXCEPT ![c] = @ + 1]
  PROVE  /\ Grown'
         /\ stat' \in Stat
         /\ stat'[c] = stat[c] + 1
         /\ \A e \in Counters \ {c} : stat'[e] = stat[e]
         /\ \A e \in Counters : stat[e] \in Nat /\ stat[e] <= stat'[e]
<1>1. stat \in Stat /\ pushed \in Seq(Stat)
  BY DEF TypeOK
<1>2. /\ stat' \in Stat /\ stat'[c] = stat[c] + 1
      /\ \A e \in Counters \ {c} : stat'[e] = stat[e]
  BY <1>1 DEF Stat
<1>3. \A e \in Counters : stat[e] \in Nat /\ stat'[e] \in Nat
  BY <1>1, <1>2 DEF Stat
<1>4. \A e \in Counters : stat[e] <= stat'[e]
  <2> TAKE e \in Counters
  <2>1. CASE e = c
    BY <1>2, <1>3, <2>1
  <2>2. CASE e # c
    BY <1>2, <1>3, <2>2
  <2> QED
    BY <2>1, <2>2
<1>5. Grown'
  <2> SUFFICES ASSUME NEW n \in DOMAIN pushed, NEW e \in Counters
               PROVE  pushed[n][e] <= stat'[e]
    BY DEF Grown
  <2>1. pushed[n] \in Stat
    BY <1>1, ElementOfSeq
  <2>2. pushed[n][e] \in Nat /\ pushed[n][e] <= stat[e]
    BY <2>1 DEF Stat, Grown
  <2> QED
    BY <1>3, <1>4, <2>2
<1> QED
  BY <1>2, <1>3, <1>4, <1>5

LEMMA CountPushInd == IndInv /\ CountPush => IndInv'
<1> SUFFICES ASSUME IndInv, CountPush PROVE IndInv'
  OBVIOUS
<1>1. TypeOK'
  BY PushType DEF IndInv, CountPush, Count
<1>2. PICK c \in {"rxnb", "rxok", "rxfw"} :
        /\ stat' = [stat EXCEPT ![c] = @ + 1]
        /\ pushpc = c
        /\ \/ c = "rxnb" /\ pushpc' = "rxok"
           \/ c = "rxok" /\ pushpc' = "rxfw"
           \/ c = "rxfw" /\ pushpc' = "radio"
  BY DEF CountPush, Count
<1>3. UNCHANGED <<pushed, drainpc>>
  BY DEF CountPush, Count
<1>4. c \in Counters
  BY DEF Counters
<1>5. /\ Grown'
      /\ stat'[c] = stat[c] + 1
      /\ \A e \in Counters \ {c} : stat'[e] = stat[e]
  BY <1>2, <1>3, <1>4, GrowMore DEF IndInv
<1>6. CountersKept'
  <2>1. Len(pushed) \in Nat
    BY DEF IndInv, TypeOK
  <2> QED
    BY <1>2, <1>3, <1>5, <2>1 DEF IndInv, CountersKept, Counters
<1>7. ReportsCount' /\ pushpc' # "send"
  BY <1>2, <1>3 DEF IndInv, ReportsCount
<1> QED
  BY <1>1, <1>5, <1>6, <1>7 DEF IndInv

\* tx-drain: a copy made between its two counters stays valid when it counts
\* the second.
LEMMA DrainInd ==
  IndInv /\ (DrainTop \/ DrainDone \/ DrainCount \/ DrainFails) => IndInv'
<1> SUFFICES ASSUME IndInv, DrainTop \/ DrainDone \/ DrainCount \/ DrainFails
             PROVE  IndInv'
  OBVIOUS
<1>1. TypeOK'
  BY DrainType DEF IndInv
<1>2. UNCHANGED <<pushed, pushpc, snapshot>>
  BY DEF DrainTop, DrainDone, DrainCount, DrainFails, pushVars
<1>3. CASE DrainTop \/ DrainFails
  <2>1. UNCHANGED stat /\ drainpc # "txnb" /\ drainpc' # "txnb"
    BY <1>3 DEF DrainTop, DrainFails
  <2> QED
    BY <1>1, <1>2, <2>1 DEF IndInv, CountersKept, Reportable, Grown, ReportsCount
<1>4. CASE DrainDone \/ DrainCount
  <2>1. PICK c \in {"dwnb", "txnb"} :
          /\ stat' = [stat EXCEPT ![c] = @ + 1]
          /\ \/ c = "dwnb" /\ drainpc = "serving" /\ drainpc' = "txnb"
             \/ c = "txnb" /\ drainpc = "txnb" /\ drainpc' = "idle"
    BY <1>4 DEF DrainDone, DrainCount
  <2>2. c \in Counters
    BY DEF Counters
  <2>3. /\ Grown'
        /\ stat'[c] = stat[c] + 1
        /\ \A e \in Counters \ {c} : stat'[e] = stat[e]
        /\ \A e \in Counters : stat[e] \in Nat /\ stat[e] <= stat'[e]
        /\ stat' \in Stat
    BY <1>2, <2>1, <2>2, GrowMore DEF IndInv
  <2>4. CountersKept'
    BY <1>2, <2>1, <2>3 DEF IndInv, CountersKept, Counters
  <2>5. ASSUME pushpc' = "send" PROVE Reportable(snapshot)'
    <3>1. Reportable(snapshot)
      BY <1>2, <2>5 DEF IndInv
    <3>2. \A e \in Counters : snapshot[e] <= stat'[e]
      <4> TAKE e \in Counters
      <4>1. snapshot[e] \in Nat /\ stat[e] \in Nat /\ stat'[e] \in Nat
        BY <2>3, <3>1 DEF Reportable, Stat
      <4> QED
        BY <2>3, <3>1, <4>1 DEF Reportable
    <3> QED
      BY <1>2, <3>1, <3>2 DEF Reportable
  <2> QED
    BY <1>1, <1>2, <2>3, <2>4, <2>5 DEF IndInv, ReportsCount
<1> QED
  BY <1>3, <1>4

LEMMA IndStep == IndInv /\ [Next]_vars => IndInv'
BY CountersElsewhere, HeardInd, MakeStatInd, PushSendInd, CountPushInd, DrainInd
   DEF Next, Around

-----------------------------------------------------------------------------

\* TypeCorrect: every thread's variables keep their types, whatever responses
\* the server sends and however many.
THEOREM TypeCorrect == Spec => []TypeOK
<1>1. IndInv => TypeOK
  BY DEF IndInv
<1> QED
  BY InitInd, IndStep, <1>1, PTL DEF Spec

\* ReportsCountHolds: whatever tx-drain counts in between and however often
\* sendto raises, each statistic sent counts the frames pushed before it.
THEOREM ReportsCountHolds == Spec => []ReportsCount
<1>1. IndInv => ReportsCount
  BY DEF IndInv
<1> QED
  BY InitInd, IndStep, <1>1, PTL DEF Spec

-----------------------------------------------------------------------------
(* The queue *)

\* tx-drain shortens at one end what udp-rx lengthens at the other.
Waiting ==
  /\ Len(queue) <= Len(queued)
  /\ \A n \in 1..Len(queue) : queue[n] = queued[Len(queued) - Len(queue) + n]

LEMMA WaitingIsFirstOut ==
  ASSUME TypeOK, Waiting
  PROVE  FirstOut
<1> DEFINE k == Len(queued) - Len(queue)
           rest == SubSeq(queued, k + 1, Len(queued))
<1>1. /\ queue \in Seq(Good) /\ queued \in Seq(Good)
      /\ Len(queue) \in Nat /\ Len(queued) \in Nat /\ k \in 0..Len(queued)
  BY DEF TypeOK, Waiting
<1>2. /\ rest \in Seq(Good) /\ Len(rest) = Len(queue)
      /\ \A n \in 1..Len(rest) : rest[n] = queued[k + n]
  <2>1. k + 1 \in 1..(Len(queued) + 1)
    BY <1>1
  <2>2. \A i \in (k + 1)..Len(queued) : queued[i] \in Good
    BY <1>1, ElementOfSeq
  <2> HIDE DEF k
  <2>3. k \in Int /\ Len(queued) \in Int
    BY <1>1
  <2>4. /\ rest \in Seq(Good)
        /\ Len(rest) = IF k + 1 <= Len(queued) THEN Len(queued) - (k + 1) + 1 ELSE 0
        /\ \A i \in 1..(Len(queued) - (k + 1) + 1) : rest[i] = queued[k + 1 + i - 1]
    BY <2>2, <2>3, SubSeqProperties
  <2>5. Len(rest) = Len(queued) - k
    BY <1>1, <2>3, <2>4
  <2> QED
    BY <1>1, <2>3, <2>4, <2>5 DEF k
<1> HIDE DEF rest
<1>3. queue = rest
  BY <1>1, <1>2, SeqEqual DEF Waiting
<1> QED
  BY <1>3 DEF FirstOut, rest

LEMMA WaitingStep == TypeOK /\ Waiting /\ [Next]_vars => Waiting'
<1> SUFFICES ASSUME TypeOK, Waiting, [Next]_vars PROVE Waiting'
  OBVIOUS
<1>1. /\ queue \in Seq(Good) /\ queued \in Seq(Good)
      /\ Len(queue) \in Nat /\ Len(queued) \in Nat
  BY DEF TypeOK
<1>2. CASE Receive
  <2>1. \/ UNCHANGED <<queue, queued>>
        \/ \E d \in Good : queue' = Append(queue, d) /\ queued' = Append(queued, d)
    BY <1>2 DEF Receive, Dispatch
  <2>2. CASE UNCHANGED <<queue, queued>>
    BY <2>2 DEF Waiting
  <2>3. ASSUME NEW d \in Good,
               queue' = Append(queue, d), queued' = Append(queued, d)
        PROVE  Waiting'
    <3>1. /\ Len(queue') = Len(queue) + 1 /\ Len(queued') = Len(queued) + 1
          /\ \A i \in 1..Len(queue) : queue'[i] = queue[i]
          /\ \A i \in 1..Len(queued) : queued'[i] = queued[i]
          /\ queue'[Len(queue) + 1] = d /\ queued'[Len(queued) + 1] = d
      BY <1>1, <2>3, AppendProperties
    <3>2. ASSUME NEW n \in 1..(Len(queue) + 1)
          PROVE  queue'[n] = queued'[Len(queued) - Len(queue) + n]
      <4>1. CASE n \in 1..Len(queue)
        <5>1. Len(queued) - Len(queue) + n \in 1..Len(queued)
          BY <1>1, <4>1 DEF Waiting
        <5> QED
          BY <3>1, <4>1, <5>1 DEF Waiting
      <4>2. CASE n = Len(queue) + 1
        BY <1>1, <3>1, <4>2
      <4> QED
        BY <1>1, <4>1, <4>2
    <3> QED
      BY <1>1, <3>1, <3>2 DEF Waiting
  <2> QED
    BY <2>1, <2>2, <2>3
<1>3. CASE DrainTop
  <2>1. UNCHANGED queued
    BY <1>3 DEF DrainTop, listenVars
  <2>2. CASE UNCHANGED queue
    BY <2>1, <2>2 DEF Waiting
  <2>3. CASE queue # <<>> /\ queue' = Tail(queue)
    <3>1. /\ Len(queue') = Len(queue) - 1
          /\ \A i \in 1..Len(queue') : queue'[i] = queue[i + 1]
      BY <1>1, <2>3, HeadTailProperties
    <3>2. Len(queue) >= 1
      BY <1>1, <2>3, EmptySeq
    <3>3. ASSUME NEW n \in 1..(Len(queue) - 1)
          PROVE  queue'[n] = queued[Len(queued) - (Len(queue) - 1) + n]
      <4>1. n + 1 \in 1..Len(queue) /\ n \in 1..Len(queue')
        BY <1>1, <3>1
      <4>2. queue[n + 1] = queued[Len(queued) - Len(queue) + (n + 1)]
        BY <4>1 DEF Waiting
      <4>3. Len(queued) - Len(queue) + (n + 1) = Len(queued) - (Len(queue) - 1) + n
        BY <1>1, <4>1
      <4> QED
        BY <3>1, <4>1, <4>2, <4>3
    <3> QED
      BY <1>1, <2>1, <3>1, <3>2, <3>3 DEF Waiting
  <2> QED
    BY <1>3, <2>2, <2>3 DEF DrainTop
<1>4. CASE UNCHANGED <<queue, queued>>
  BY <1>4 DEF Waiting
<1>5. \/ Receive \/ DrainTop \/ UNCHANGED <<queue, queued>>
  BY DEF Next, Pull, PullTop, PullSend, PullWait, Listen, ListenTop,
         Heard, MakeStat, PushSend, CountPush, Count, DrainDone, DrainCount,
         DrainFails, Stop, Close, Exit, Arrive, vars, listenVars
<1> QED
  BY <1>2, <1>3, <1>4, <1>5

-----------------------------------------------------------------------------
(* What is queued                                                          *)

\* The first two conjuncts of QueuedInOrder.
Picked ==
  /\ Len(queued) = Cardinality(GoodAmong(nread))
  /\ \A k \in GoodAmong(nread) : queued[Cardinality(GoodAmong(k))] = arrivals[k]

LEMMA GoodAmongFinite ==
  ASSUME NEW n \in Nat
  PROVE  IsFiniteSet(GoodAmong(n)) /\ Cardinality(GoodAmong(n)) \in Nat
<1>1. IsFiniteSet(1..n) /\ GoodAmong(n) \subseteq 1..n
  BY FS_Interval DEF GoodAmong
<1> QED
  BY <1>1, FS_Subset, FS_CardinalityType

\* One arrival more.
LEMMA GoodAmongNext ==
  ASSUME NEW n \in Nat
  PROVE  /\ arrivals[n + 1] \notin Good => GoodAmong(n + 1) = GoodAmong(n)
         /\ arrivals[n + 1] \in Good =>
              Cardinality(GoodAmong(n + 1)) = Cardinality(GoodAmong(n)) + 1
<1>1. CASE arrivals[n + 1] \notin Good
  BY <1>1 DEF GoodAmong
<1>2. CASE arrivals[n + 1] \in Good
  <2>1. GoodAmong(n + 1) = GoodAmong(n) \cup {n + 1} /\ n + 1 \notin GoodAmong(n)
    BY <1>2 DEF GoodAmong
  <2> QED
    BY <1>2, <2>1, GoodAmongFinite, FS_AddElement
<1> QED
  BY <1>1, <1>2

\* The place of an arrival among the responses queued.
LEMMA PlaceInQueued ==
  ASSUME NEW n \in Nat, NEW k \in GoodAmong(n)
  PROVE  Cardinality(GoodAmong(k)) \in 1..Cardinality(GoodAmong(n))
<1>1. k \in Nat /\ k \in GoodAmong(k) /\ GoodAmong(k) \subseteq GoodAmong(n)
  BY DEF GoodAmong
<1>2. Cardinality(GoodAmong(k)) <= Cardinality(GoodAmong(n))
  BY <1>1, GoodAmongFinite, FS_Subset
<1>3. Cardinality(GoodAmong(k)) # 0
  BY <1>1, GoodAmongFinite, FS_EmptySet
<1> QED
  BY <1>1, <1>2, <1>3, GoodAmongFinite

\* What arrives later changes nothing of what arrived before.
LEMMA ArrivalsKept ==
  ASSUME TypeOK, UNCHANGED arrivals \/ Arrive
  PROVE  \A k \in 1..Len(arrivals) : arrivals'[k] = arrivals[k]
<1>1. CASE Arrive
  <2>1. PICK d : arrivals' = Append(arrivals, d)
    BY <1>1 DEF Arrive
  <2> QED
    BY <2>1 DEF TypeOK
<1> QED
  BY <1>1

LEMMA PickedStep == TypeOK /\ Picked /\ [Next]_vars => Picked'
<1> SUFFICES ASSUME TypeOK, Picked, [Next]_vars PROVE Picked'
  OBVIOUS
<1>1. nread \in Nat /\ queued \in Seq(Good) /\ nread \in 0..Len(arrivals)
  BY DEF TypeOK
<1>2. CASE Receive
  <2>1. nread' = nread + 1 /\ UNCHANGED arrivals
    BY <1>2 DEF Receive
  <2>2. \A n \in Nat : GoodAmong(n)' = GoodAmong(n)
    BY <2>1 DEF GoodAmong
  <2>3. CASE arrivals[nread + 1] \notin Good
    <3>1. UNCHANGED queued
      BY <1>2, <2>3 DEF Receive, Dispatch
    <3>2. GoodAmong(nread + 1) = GoodAmong(nread)
      BY <1>1, <2>3, GoodAmongNext
    <3>3. \A k \in GoodAmong(nread) : GoodAmong(k)' = GoodAmong(k)
      BY <2>2 DEF GoodAmong
    <3> QED
      BY <1>1, <2>1, <2>2, <3>1, <3>2, <3>3 DEF Picked
  <2>4. CASE arrivals[nread + 1] \in Good
    <3>1. queued' = Append(queued, arrivals[nread + 1])
      BY <1>2, <2>4 DEF Receive, Dispatch, Good
    <3>2. /\ Len(queued') = Len(queued) + 1
          /\ queued'[Len(queued) + 1] = arrivals[nread + 1]
          /\ \A i \in 1..Len(queued) : queued'[i] = queued[i]
      BY <1>1, <2>4, <3>1, AppendProperties
    <3>3. Cardinality(GoodAmong(nread + 1)) = Len(queued) + 1
      BY <1>1, <2>4, GoodAmongNext DEF Picked
    <3>4. ASSUME NEW k \in GoodAmong(nread + 1)
          PROVE  queued'[Cardinality(GoodAmong(k))] = arrivals[k]
      <4>1. CASE k = nread + 1
        BY <3>2, <3>3, <4>1
      <4>2. CASE k \in GoodAmong(nread)
        BY <1>1, <3>2, <4>2, PlaceInQueued DEF Picked
      <4> QED
        BY <1>1, <4>1, <4>2 DEF GoodAmong
    <3>5. \A k \in GoodAmong(nread + 1) : GoodAmong(k)' = GoodAmong(k)
      BY <2>2 DEF GoodAmong
    <3>6. GoodAmong(nread)' = GoodAmong(nread + 1)
      BY <2>1 DEF GoodAmong
    <3> QED
      BY <2>1, <3>2, <3>3, <3>4, <3>5, <3>6 DEF Picked
  <2> QED
    BY <2>3, <2>4
<1>3. CASE UNCHANGED <<nread, queued>> /\ (UNCHANGED arrivals \/ Arrive)
  <2>1. \A k \in 1..nread : arrivals'[k] = arrivals[k]
    BY <1>1, <1>3, ArrivalsKept
  <2>2. GoodAmong(nread)' = GoodAmong(nread)
    BY <1>3, <2>1 DEF GoodAmong
  <2>3. \A k \in GoodAmong(nread) : GoodAmong(k)' = GoodAmong(k)
    BY <1>1, <2>1 DEF GoodAmong
  <2> QED
    BY <1>3, <2>1, <2>2, <2>3 DEF Picked, GoodAmong
<1>4. \/ Receive
      \/ UNCHANGED <<nread, queued>> /\ (UNCHANGED arrivals \/ Arrive)
  BY DEF Next, Pull, PullTop, PullSend, PullWait, Listen, ListenTop,
         Heard, MakeStat, PushSend, CountPush, Count, DrainTop, DrainDone,
         DrainCount, DrainFails, Stop, Close, Exit, Arrive, vars, listenVars
<1> QED
  BY <1>2, <1>3, <1>4

LEMMA PickedInit == Init => Picked
<1> SUFFICES ASSUME Init PROVE Picked
  OBVIOUS
<1>1. GoodAmong(nread) = {}
  BY DEF Init, GoodAmong
<1> QED
  BY <1>1, FS_EmptySet DEF Init, Picked

\* QueuedInOrderHolds: whatever the network duplicates, delays or reorders,
\* every response with a txpk that udp-rx has read is in the queue's history
\* once, at its place in the order of arrival; and although two threads work on
\* the list without a lock, none leaves it before those queued before it.
THEOREM QueuedInOrderHolds == Spec => []QueuedInOrder
<1>1. Init => Waiting
  BY DEF Init, Waiting
<1>2. TypeOK /\ Waiting /\ Picked => QueuedInOrder
  BY WaitingIsFirstOut DEF QueuedInOrder, Picked
<1> QED
  BY <1>1, <1>2, WaitingStep, PickedInit, PickedStep, TypeCorrect, PTL DEF Spec
=============================================================================
