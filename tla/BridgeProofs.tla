---------------------------- MODULE BridgeProofs ----------------------------
(***************************************************************************)
(* Theorems about Bridge, for every set of threads, lengths of commands,   *)
(* number of retries and bounds: type correctness, with which a call never *)
(* reads more bytes than it asked for and never outlives its retries; and  *)
(* whose bytes a call gets: no attempt ever waits for bytes that do not    *)
(* come, and a call that shared the buffer with no other gets its own.     *)
(***************************************************************************)
EXTENDS Bridge, TLAPS, SequenceTheorems, FiniteSetTheorems

\* What each place of spi_transfer has of in_buf: nothing before the write,
\* and at least one byte to go while it reads.
Progress ==
  \A c \in Clients :
    /\ pc[c] = "write" => buf[c] = <<>>
    /\ pc[c] = "read" => Len(buf[c]) < n[c]

\* The calls of sync_buffer and shutdown come on top of the threads'.
CallsMade ==
  /\ mpc = "open" => calls = 0
  /\ mpc \notin {"standby", "flush", "closed"} => calls <= MaxCalls + 1

IndInv == TypeOK /\ Progress /\ CallsMade

\* What TypeOK says of the client variables alone.
ClientOK ==
  /\ pc \in [Clients -> {"idle", "write", "read", "done", "raised"}]
  /\ call \in [Clients -> 0..MaxCalls + 2]
  /\ n \in [Clients -> Lengths \cup {2}]
  /\ attempt \in [Clients -> 0..Retries]
  /\ buf \in [Clients -> Seq(Nat \X Nat)]
  /\ \A c \in Clients : Len(buf[c]) <= n[c]
  /\ \A c \in Clients : pc[c] \in {"write", "read"} => attempt[c] < Retries
  /\ alone \in [Clients -> BOOLEAN]
  /\ Progress

-----------------------------------------------------------------------------

LEMMA LengthType == \A l \in Lengths \cup {2} : l \in Nat \ {0}
BY BridgeAssumption

LEMMA InitInd == Init => IndInv
<1> SUFFICES ASSUME Init PROVE IndInv
  OBVIOUS
<1>1. fifo \in Seq(Nat \X Nat)
  <2>1. PICK len \in 0..MaxStale : fifo = [k \in 1..len |-> Junk]
    BY DEF Init
  <2>2. len \in Nat /\ Junk \in Nat \X Nat
    BY BridgeAssumption DEF Junk, Byte
  <2> QED
    BY <2>1, <2>2
<1>2. ClientOK
  <2>1. <<>> \in Seq(Nat \X Nat) /\ Len(<<>>) = 0
    OBVIOUS
  <2>2. alone \in [Clients -> BOOLEAN]
    BY Zenon DEF Init
  <2> QED
    BY <2>1, <2>2, BridgeAssumption DEF Init, ClientOK, Progress
<1> QED
  BY <1>1, <1>2, BridgeAssumption DEF Init, IndInv, TypeOK, ClientOK, CallsMade

LEMMA StartOK ==
  ASSUME ClientOK, NEW c \in Clients, NEW len \in Lengths \cup {2}, Start(c, len),
         calls \in 0..MaxCalls + 1
  PROVE  ClientOK' /\ calls' = calls + 1
<1>1. /\ pc' = [pc EXCEPT ![c] = "write"]
      /\ call' = [call EXCEPT ![c] = calls + 1]
      /\ n' = [n EXCEPT ![c] = len]
      /\ attempt' = [attempt EXCEPT ![c] = 0]
      /\ buf' = [buf EXCEPT ![c] = <<>>]
      /\ alone' = [alone EXCEPT ![c] = TRUE]
      /\ calls' = calls + 1
  BY DEF Start
<1>2. calls + 1 \in 0..MaxCalls + 2 /\ Retries \in Nat \ {0}
  BY BridgeAssumption
<1>3. <<>> \in Seq(Nat \X Nat) /\ Len(<<>>) = 0 /\ len \in Nat \ {0}
  BY LengthType
<1>4. alone' \in [Clients -> BOOLEAN]
  BY <1>1, Zenon DEF ClientOK
<1>5. /\ pc' \in [Clients -> {"idle", "write", "read", "done", "raised"}]
      /\ call' \in [Clients -> 0..MaxCalls + 2]
      /\ n' \in [Clients -> Lengths \cup {2}]
      /\ attempt' \in [Clients -> 0..Retries]
      /\ buf' \in [Clients -> Seq(Nat \X Nat)]
  BY <1>1, <1>2, <1>3 DEF ClientOK
<1>6. ASSUME NEW d \in Clients
      PROVE  /\ Len(buf'[d]) <= n'[d]
             /\ pc'[d] \in {"write", "read"} => attempt'[d] < Retries
             /\ pc'[d] = "write" => buf'[d] = <<>>
             /\ pc'[d] = "read" => Len(buf'[d]) < n'[d]
  <2>1. CASE d = c
    BY <1>1, <1>2, <1>3, <2>1 DEF ClientOK
  <2>2. CASE d # c
    BY <1>1, <2>2 DEF ClientOK, Progress
  <2> QED
    BY <2>1, <2>2
<1> QED
  BY <1>1, <1>4, <1>5, <1>6 DEF ClientOK, Progress

LEMMA AbandonOK ==
  ASSUME ClientOK, NEW c \in Clients, pc[c] \in {"write", "read"}, Abandon(c)
  PROVE  ClientOK' /\ UNCHANGED calls
<1>1. /\ attempt' = [attempt EXCEPT ![c] = attempt[c] + 1]
      /\ buf' = [buf EXCEPT ![c] = <<>>]
      /\ pc' = [pc EXCEPT ![c] =
                  IF attempt[c] + 1 = Retries THEN "raised" ELSE "write"]
      /\ UNCHANGED <<call, n, calls, alone>>
  BY DEF Abandon
<1>2. /\ attempt[c] \in Nat /\ attempt[c] < Retries /\ Retries \in Nat
      /\ attempt[c] + 1 \in 0..Retries
  BY BridgeAssumption DEF ClientOK
<1>3. <<>> \in Seq(Nat \X Nat) /\ Len(<<>>) = 0 /\ n[c] \in Nat \ {0}
  BY LengthType DEF ClientOK
<1>4. /\ pc' \in [Clients -> {"idle", "write", "read", "done", "raised"}]
      /\ attempt' \in [Clients -> 0..Retries]
      /\ buf' \in [Clients -> Seq(Nat \X Nat)]
  BY <1>1, <1>2, <1>3 DEF ClientOK
<1>5. ASSUME NEW d \in Clients
      PROVE  /\ Len(buf'[d]) <= n[d]
             /\ pc'[d] \in {"write", "read"} => attempt'[d] < Retries
             /\ pc'[d] = "write" => buf'[d] = <<>>
             /\ pc'[d] = "read" => Len(buf'[d]) < n[d]
  <2>1. CASE d = c
    BY <1>1, <1>2, <1>3, <2>1 DEF ClientOK
  <2>2. CASE d # c
    BY <1>1, <2>2 DEF ClientOK, Progress
  <2> QED
    BY <2>1, <2>2
<1> QED
  BY <1>1, <1>4, <1>5 DEF ClientOK, Progress

LEMMA PopOK ==
  ASSUME fifo \in Seq(Nat \X Nat)
  PROVE  /\ Pop => fifo' \in Seq(Nat \X Nat)
         /\ Next1 \in Nat \X Nat
<1>1. Junk \in Nat \X Nat /\ <<>> \in Seq(Nat \X Nat)
  BY DEF Junk, Byte
<1> QED
  BY <1>1, HeadTailProperties DEF Pop, Next1

LEMMA AnswerType ==
  ASSUME NEW id \in Nat, NEW len \in Nat
  PROVE  Answer(id, len) \in Seq(Nat \X Nat)
BY DEF Answer, Byte

-----------------------------------------------------------------------------
(* spi_transfer                                                            *)

LEMMA FaultType == faults \in 0..MaxFaults /\ Fault => faults' \in 0..MaxFaults
BY BridgeAssumption DEF Fault

LEMMA ConcatType ==
  ASSUME NEW s \in Seq(Nat \X Nat), NEW t \in Seq(Nat \X Nat)
  PROVE  s \o t \in Seq(Nat \X Nat)
OBVIOUS

LEMMA WriteOK ==
  ASSUME ClientOK, fifo \in Seq(Nat \X Nat), NEW c \in Clients, Write(c)
  PROVE  ClientOK' /\ fifo' \in Seq(Nat \X Nat)
<1>1. call[c] \in Nat /\ n[c] \in Nat \ {0}
  <2>1. call[c] \in 0..MaxCalls + 2 /\ n[c] \in Lengths \cup {2}
    BY DEF ClientOK
  <2>2. n[c] \in Nat \ {0}
    BY <2>1, LengthType
  <2>3. call[c] \in Nat
    BY <2>1, BridgeAssumption
  <2> QED
    BY <2>2, <2>3
<1>2. fifo' \in Seq(Nat \X Nat)
  BY <1>1, AnswerType, ConcatType DEF Write
<1>3. /\ pc[c] = "write" /\ pc' = [pc EXCEPT ![c] = "read"]
      /\ UNCHANGED <<call, n, attempt, buf>>
  BY DEF Write
<1>4. alone' \in [Clients -> BOOLEAN]
  <2>1. alone' = [d \in Clients |->
                   IF d = c THEN Others(c) = {} ELSE alone[d] /\ d \notin Others(c)]
    BY DEF Write
  <2> QED
    BY <2>1, Zenon DEF ClientOK
<1>5. pc' \in [Clients -> {"idle", "write", "read", "done", "raised"}]
  BY <1>3 DEF ClientOK
<1>6. Len(buf[c]) < n[c]
  <2>1. buf[c] = <<>>
    BY <1>3 DEF ClientOK, Progress
  <2> QED
    BY <1>1, <2>1
<1>7. ASSUME NEW d \in Clients
      PROVE  /\ pc'[d] \in {"write", "read"} => attempt[d] < Retries
             /\ pc'[d] = "write" => buf[d] = <<>>
             /\ pc'[d] = "read" => Len(buf[d]) < n[d]
  <2>1. CASE d = c
    BY <1>3, <1>6, <2>1 DEF ClientOK
  <2>2. CASE d # c
    BY <1>3, <2>2 DEF ClientOK, Progress
  <2> QED
    BY <2>1, <2>2
<1> QED
  BY <1>2, <1>3, <1>4, <1>5, <1>7 DEF ClientOK, Progress

LEMMA ReadOK ==
  ASSUME ClientOK, fifo \in Seq(Nat \X Nat), NEW c \in Clients, Read(c)
  PROVE  ClientOK' /\ fifo' \in Seq(Nat \X Nat)
<1>1. fifo' \in Seq(Nat \X Nat) /\ Next1 \in Nat \X Nat
  BY PopOK DEF Read
<1>2. /\ pc[c] = "read"
      /\ buf' = [buf EXCEPT ![c] = Append(buf[c], Next1)]
      /\ pc' = [pc EXCEPT ![c] = IF Len(buf[c]) + 1 = n[c] THEN "done" ELSE "read"]
      /\ UNCHANGED <<call, n, attempt, alone>>
  BY DEF Read
<1>3. /\ buf[c] \in Seq(Nat \X Nat) /\ Len(buf[c]) \in Nat /\ n[c] \in Nat
      /\ Len(buf[c]) < n[c] /\ attempt[c] < Retries
  BY <1>2, LengthType DEF ClientOK, Progress
<1>4. /\ Append(buf[c], Next1) \in Seq(Nat \X Nat)
      /\ Len(Append(buf[c], Next1)) = Len(buf[c]) + 1
  BY <1>1, <1>3, AppendProperties
<1>5. /\ pc' \in [Clients -> {"idle", "write", "read", "done", "raised"}]
      /\ buf' \in [Clients -> Seq(Nat \X Nat)]
  BY <1>2, <1>4 DEF ClientOK
<1>6. ASSUME NEW d \in Clients
      PROVE  /\ Len(buf'[d]) <= n[d]
             /\ pc'[d] \in {"write", "read"} => attempt[d] < Retries
             /\ pc'[d] = "write" => buf'[d] = <<>>
             /\ pc'[d] = "read" => Len(buf'[d]) < n[d]
  <2>1. CASE d = c
    BY <1>2, <1>3, <1>4, <2>1 DEF ClientOK
  <2>2. CASE d # c
    BY <1>2, <2>2 DEF ClientOK, Progress
  <2> QED
    BY <2>1, <2>2
<1> QED
  BY <1>1, <1>2, <1>5, <1>6 DEF ClientOK, Progress

\* os.write raises: the call ends, with what it had.
LEMMA RaiseOK ==
  ASSUME ClientOK, NEW c \in Clients, WriteError(c)
  PROVE  ClientOK'
<1>1. /\ pc' = [pc EXCEPT ![c] = "raised"]
      /\ UNCHANGED <<call, n, attempt, buf, alone>>
  BY DEF WriteError
<1>2. pc' \in [Clients -> {"idle", "write", "read", "done", "raised"}]
  BY <1>1 DEF ClientOK
<1>3. ASSUME NEW d \in Clients
      PROVE  pc'[d] = pc[d] \/ pc'[d] = "raised"
  BY <1>1 DEF ClientOK
<1> QED
  BY <1>1, <1>2, <1>3 DEF ClientOK, Progress

LEMMA TransferOK ==
  ASSUME ClientOK, fifo \in Seq(Nat \X Nat), faults \in 0..MaxFaults,
         NEW c \in Clients, Transfer(c)
  PROVE  /\ ClientOK' /\ fifo' \in Seq(Nat \X Nat) /\ faults' \in 0..MaxFaults
         /\ UNCHANGED <<calls, mpc, rounds>>
<1>1. CASE Write(c)
  BY <1>1, WriteOK DEF Write
<1>2. CASE Read(c)
  BY <1>2, ReadOK DEF Read
<1>3. CASE WriteError(c)
  BY <1>3, RaiseOK, FaultType DEF WriteError
<1>4. CASE WriteShort(c)
  <2>1. fifo' \in Seq(Nat \X Nat)
    <3>1. PICK k \in 0..(n[c] - 1) : fifo' = fifo \o Answer(call[c], k)
      BY <1>4 DEF WriteShort
    <3>2. call[c] \in Nat /\ k \in Nat
      BY LengthType, BridgeAssumption DEF ClientOK
    <3> QED
      BY <3>1, <3>2, AnswerType, ConcatType
  <2> QED
    BY <1>4, <2>1, AbandonOK, FaultType DEF WriteShort
<1>5. CASE ReadFail(c)
  BY <1>5, AbandonOK, PopOK, FaultType DEF ReadFail
<1> QED
  BY <1>1, <1>2, <1>3, <1>4, <1>5 DEF Transfer

-----------------------------------------------------------------------------
(* The whole                                                               *)

MainPcs == {"open", "sync", "drain", "ready", "shutdown", "standby", "flush",
            "closed", "failed"}

\* The steps of main that start no command.
MainReads ==
  \/ SyncTransferred \/ DrainRead \/ DrainEmpty \/ DrainError \/ DrainMax
  \/ Shutdown \/ ShutRound \/ ShutTransferred \/ Flush \/ Close

LEMMA MainReadsOK ==
  ASSUME IndInv, MainReads
  PROVE  IndInv'
<1> USE BridgeAssumption
<1>1. UNCHANGED client
  BY DEF MainReads, SyncTransferred, DrainRead, DrainEmpty, DrainError, DrainMax,
         Shutdown, ShutRound, ShutTransferred, Flush, Close
<1>2. fifo' \in Seq(Nat \X Nat)
  <2>1. fifo \in Seq(Nat \X Nat)
    BY DEF IndInv, TypeOK
  <2>2. CASE ShutRound
    <3>1. CASE Pop
      BY <2>1, <3>1, PopOK
    <3>2. CASE fifo' = IF Len(fifo) < 2 THEN <<>> ELSE SubSeq(fifo, 3, Len(fifo))
      <4>1. <<>> \in Seq(Nat \X Nat) /\ Len(fifo) \in Int
        BY <2>1
      <4>2. \A i \in 3..Len(fifo) : fifo[i] \in Nat \X Nat
        BY <2>1, ElementOfSeq
      <4>3. SubSeq(fifo, 3, Len(fifo)) \in Seq(Nat \X Nat)
        BY <4>1, <4>2, SubSeqProperties
      <4> QED
        BY <3>2, <4>1, <4>3
    <3> QED
      BY <2>2, <3>1, <3>2 DEF ShutRound
  <2>3. CASE DrainRead \/ Flush
    BY <2>1, <2>3, PopOK DEF DrainRead, Flush
  <2> QED
    BY <2>1, <2>2, <2>3
       DEF MainReads, SyncTransferred, DrainEmpty, DrainError, DrainMax, Shutdown,
           ShutTransferred, Close
<1>3. faults' \in 0..MaxFaults
  BY FaultType
     DEF MainReads, SyncTransferred, DrainRead, DrainEmpty, DrainError, DrainMax,
         Shutdown, ShutRound, ShutTransferred, Flush, Close, IndInv, TypeOK
<1>4. rounds' \in 0..SyncMax + ShutReads + 4
  <2>1. \/ rounds' = rounds \/ rounds' = 0
        \/ rounds' = rounds + 1 /\ (rounds < SyncMax \/ rounds < ShutReads \/ rounds < 4)
    BY DEF MainReads, SyncTransferred, DrainRead, DrainEmpty, DrainError, DrainMax,
           Shutdown, ShutRound, ShutTransferred, Flush, Close
  <2> QED
    BY <2>1 DEF IndInv, TypeOK
<1>5. mpc' \in MainPcs /\ CallsMade'
  BY <1>1
     DEF MainReads, SyncTransferred, DrainRead, DrainEmpty, DrainError, DrainMax,
         Shutdown, ShutRound, ShutTransferred, Flush, Close, IndInv, TypeOK,
         CallsMade, client, MainPcs
<1> QED
  BY <1>1, <1>2, <1>3, <1>4, <1>5 DEF IndInv, TypeOK, Progress, client, MainPcs

\* The steps that start a command.
LEMMA StartsOK ==
  ASSUME IndInv,
         \/ Sync \/ ShutStandby
         \/ \E c \in Threads, len \in Lengths : Command(c, len)
  PROVE  IndInv'
<1> USE BridgeAssumption
<1>1. ClientOK /\ calls \in Nat /\ MaxCalls \in Nat
  BY DEF IndInv, TypeOK, ClientOK
<1>2. \/ calls <= MaxCalls /\ mpc \notin {"open"} /\ UNCHANGED <<mpc, faults>>
      \/ calls = 0 /\ mpc' = "sync" /\ UNCHANGED faults
      \/ /\ calls <= MaxCalls + 1 /\ mpc' = "standby"
         /\ UNCHANGED faults \/ Fault
  BY DEF Sync, ShutStandby, Command, IndInv, CallsMade
<1>3. PICK c \in Clients, len \in Lengths \cup {2} : Start(c, len)
  BY DEF Sync, ShutStandby, Command, Clients
<1>4. UNCHANGED <<fifo, rounds>>
  BY DEF Sync, ShutStandby, Command
<1>5. ClientOK' /\ calls' = calls + 1
  BY <1>1, <1>2, <1>3, StartOK
<1>6. CallsMade' /\ calls' \in 0..MaxCalls + 2
  BY <1>1, <1>2, <1>5 DEF CallsMade
<1>7. faults' \in 0..MaxFaults /\ mpc' \in MainPcs
  BY <1>2, FaultType DEF IndInv, TypeOK, MainPcs
<1> QED
  BY <1>4, <1>5, <1>6, <1>7 DEF IndInv, TypeOK, ClientOK, MainPcs

LEMMA IndStep == IndInv /\ [Next]_vars => IndInv'
<1> SUFFICES ASSUME IndInv, [Next]_vars PROVE IndInv'
  OBVIOUS
<1>1. ASSUME NEW c \in Clients, Transfer(c)
      PROVE  IndInv'
  <2>1. ClientOK /\ fifo \in Seq(Nat \X Nat) /\ faults \in 0..MaxFaults
    BY DEF IndInv, TypeOK, ClientOK
  <2>2. /\ ClientOK' /\ fifo' \in Seq(Nat \X Nat) /\ faults' \in 0..MaxFaults
        /\ UNCHANGED <<calls, mpc, rounds>>
    BY <1>1, <2>1, TransferOK
  <2> QED
    BY <2>2 DEF IndInv, TypeOK, ClientOK, CallsMade
<1>2. CASE UNCHANGED vars
  BY <1>2 DEF IndInv, TypeOK, Progress, CallsMade, vars, client
<1> QED
  BY <1>1, <1>2, MainReadsOK, StartsOK DEF Next, MainThread, MainReads

\* TypeCorrect: whoever's bytes it gets, a call fills in_buf with no more than
\* it asked for and makes no more than RETRY_COUNT attempts; one that is still
\* writing or reading has not used them up.
THEOREM TypeCorrect == Spec => []TypeOK
<1>1. IndInv => TypeOK
  BY DEF IndInv
<1> QED
  BY InitInd, IndStep, <1>1, PTL DEF Spec

-----------------------------------------------------------------------------
(* Whose bytes a call gets.                                                *)

\* The threads start only after the sync, and the main thread does not
\* transfer while they run.
Places ==
  /\ mpc \in {"open", "sync", "drain"} => \A c \in Threads : pc[c] = "idle"
  /\ mpc \in {"open", "drain", "ready"} => pc[Main] \in {"idle", "done"}

\* What an earlier user left is all that the buffer has in excess, as long as
\* nothing has failed, and the drain takes it away.
Excess ==
  faults = 0 =>
    /\ mpc = "open" => Len(fifo) <= MaxStale
    /\ mpc = "sync" => Len(fifo) <= MaxStale + Cardinality(Outstanding)
    /\ mpc = "drain" => Len(fifo) + rounds <= SyncMax
    /\ mpc = "ready" => Len(fifo) <= Cardinality(Outstanding)

Sizes == IsFiniteSet(Outstanding) /\ Places /\ NeverStarve /\ Excess

-----------------------------------------------------------------------------
(* How many bytes are outstanding                                          *)

\* A step of one client changes what is due to that client.
LEMMA OutstandingOf ==
  ASSUME NEW c \in Clients, \A d \in Clients \ {c} : Due(d)' = Due(d)
  PROVE  Outstanding' = (Outstanding \ Due(c)) \cup Due(c)'
<1>1. ASSUME NEW d \in Clients \ {c}
      PROVE  Due(d) \cap Due(c) = {}
  BY DEF Due
<1>2. \A x : x \in Outstanding <=> \E d \in Clients : x \in Due(d)
  BY DEF Outstanding
<1>3. \A x : x \in Outstanding' <=> \E d \in Clients : x \in Due(d)'
  BY DEF Outstanding
<1>4. ASSUME NEW x
      PROVE  x \in Outstanding' <=> x \in Outstanding \ Due(c) \/ x \in Due(c)'
  <2>1. CASE x \in Due(c)'
    BY <1>3, <2>1
  <2>2. CASE x \notin Due(c)'
    <3>1. x \in Outstanding' <=> \E d \in Clients \ {c} : x \in Due(d)
      BY <1>3, <2>2
    <3>2. x \in Outstanding \ Due(c) <=> \E d \in Clients \ {c} : x \in Due(d)
      BY <1>1, <1>2
    <3> QED
      BY <2>2, <3>1, <3>2
  <2> QED
    BY <2>1, <2>2
<1> QED
  BY <1>4

LEMMA OutstandingSame ==
  ASSUME \A c \in Clients : Due(c)' = Due(c)
  PROVE  Outstanding' = Outstanding
BY DEF Outstanding

LEMMA DueOthers ==
  ASSUME NEW c, NEW d, d # c,
         pc'[d] = pc[d] /\ buf'[d] = buf[d] /\ n'[d] = n[d]
  PROVE  Due(d)' = Due(d)
BY DEF Due

\* A client that has something due and one that has not.
LEMMA DueReading ==
  ASSUME NEW c \in Clients, ClientOK
  PROVE  /\ pc[c] # "read" => Due(c) = {}
         /\ pc[c] = "read" => <<c, Len(buf[c]) + 1>> \in Due(c)
         /\ Due(c) \subseteq Outstanding
<1>1. Len(buf[c]) \in Nat /\ n[c] \in Nat
  BY LengthType DEF ClientOK
<1>2. pc[c] = "read" => Len(buf[c]) + 1 \in Len(buf[c]) + 1 .. n[c]
  BY <1>1 DEF ClientOK, Progress
<1> QED
  BY <1>2 DEF Due, Outstanding

LEMMA ConcatLength ==
  ASSUME NEW s \in Seq(Nat \X Nat), NEW t \in Seq(Nat \X Nat)
  PROVE  Len(s \o t) = Len(s) + Len(t)
OBVIOUS

LEMMA AnswerLength ==
  ASSUME NEW id \in Nat, NEW len \in Nat
  PROVE  Answer(id, len) \in Seq(Nat \X Nat) /\ Len(Answer(id, len)) = len
<1>1. Len(Answer(id, len)) = len
  BY DEF Answer
<1> QED
  BY <1>1, AnswerType

\* An attempt begins: all its bytes are due.
LEMMA WriteSizes ==
  ASSUME ClientOK, fifo \in Seq(Nat \X Nat), IsFiniteSet(Outstanding),
         NEW c \in Clients, Write(c)
  PROVE  /\ IsFiniteSet(Outstanding')
         /\ Cardinality(Outstanding') = Cardinality(Outstanding) + n[c]
         /\ Len(fifo') = Len(fifo) + n[c]
<1>1. /\ pc[c] = "write" /\ pc' = [pc EXCEPT ![c] = "read"]
      /\ buf' = buf /\ n' = n /\ buf[c] = <<>>
  BY DEF Write, ClientOK, Progress
<1>2. n[c] \in Nat /\ call[c] \in Nat
  <2>1. n[c] \in Lengths \cup {2} /\ call[c] \in 0..MaxCalls + 2
    BY DEF ClientOK
  <2>2. n[c] \in Nat
    BY <2>1, LengthType
  <2>3. call[c] \in Nat
    BY <2>1, BridgeAssumption
  <2> QED
    BY <2>2, <2>3
<1>3. Due(c) = {} /\ Due(c)' = {c} \X (1..n[c])
  BY <1>1 DEF Due, ClientOK
<1>4. \A d \in Clients \ {c} : Due(d)' = Due(d)
  BY <1>1, DueOthers DEF ClientOK
<1>5. Outstanding' = Outstanding \cup ({c} \X (1..n[c]))
  BY <1>3, <1>4, OutstandingOf
<1>6. Outstanding \cap ({c} \X (1..n[c])) = {}
  BY <1>1 DEF Outstanding, Due
<1>7. /\ IsFiniteSet({c} \X (1..n[c]))
      /\ Cardinality({c} \X (1..n[c])) = n[c]
  <2>1. IsFiniteSet(1..n[c]) /\ Cardinality(1..n[c]) = n[c]
    <3>1. 1 \in Int /\ n[c] \in Int
      BY <1>2
    <3>2. /\ IsFiniteSet(1..n[c])
          /\ Cardinality(1..n[c]) = IF 1 > n[c] THEN 0 ELSE n[c] - 1 + 1
      BY <3>1, FS_Interval, Zenon
    <3> QED
      BY <1>2, <3>2
  <2>2. IsFiniteSet({c}) /\ Cardinality({c}) = 1
    BY FS_Singleton
  <2>3. /\ IsFiniteSet({c} \X (1..n[c]))
        /\ Cardinality({c} \X (1..n[c])) = Cardinality({c}) * Cardinality(1..n[c])
    BY <2>1, <2>2, FS_Product, Zenon
  <2> QED
    BY <1>2, <2>1, <2>2, <2>3
<1>8. /\ IsFiniteSet(Outstanding')
      /\ Cardinality(Outstanding') = Cardinality(Outstanding) + n[c] - 0
  <2>1. /\ IsFiniteSet(Outstanding \cup ({c} \X (1..n[c])))
        /\ Cardinality(Outstanding \cup ({c} \X (1..n[c]))) =
             Cardinality(Outstanding) + Cardinality({c} \X (1..n[c]))
               - Cardinality(Outstanding \cap ({c} \X (1..n[c])))
    BY <1>7, FS_Union, Zenon
  <2>2. Cardinality({}) = 0
    BY FS_EmptySet
  <2> QED
    BY <1>5, <1>6, <1>7, <2>1, <2>2
<1>9. Len(fifo') = Len(fifo) + n[c]
  <2>1. Answer(call[c], n[c]) \in Seq(Nat \X Nat) /\ Len(Answer(call[c], n[c])) = n[c]
    BY <1>2, AnswerLength
  <2>2. fifo' = fifo \o Answer(call[c], n[c])
    BY DEF Write
  <2> QED
    BY <2>1, <2>2, ConcatLength
<1> QED
  BY <1>2, <1>8, <1>9, FS_CardinalityType

\* A byte is taken.
LEMMA ReadSizes ==
  ASSUME ClientOK, fifo \in Seq(Nat \X Nat), IsFiniteSet(Outstanding),
         NEW c \in Clients, Read(c)
  PROVE  /\ IsFiniteSet(Outstanding')
         /\ Cardinality(Outstanding') + 1 = Cardinality(Outstanding)
<1>1. /\ pc[c] = "read" /\ n' = n
      /\ pc' = [pc EXCEPT ![c] = IF Len(buf[c]) + 1 = n[c] THEN "done" ELSE "read"]
      /\ buf' = [buf EXCEPT ![c] = Append(buf[c], Next1)]
  BY DEF Read
<1>2. Len(buf[c]) \in Nat /\ n[c] \in Nat /\ buf[c] \in Seq(Nat \X Nat)
  BY LengthType DEF ClientOK
<1>3. Len(buf'[c]) = Len(buf[c]) + 1 /\ Len(buf[c]) < n[c]
  BY <1>1, <1>2, PopOK, AppendProperties DEF ClientOK, Progress
<1>4. Due(c)' = Due(c) \ {<<c, Len(buf[c]) + 1>>}
  <2>1. Due(c) = {c} \X (Len(buf[c]) + 1 .. n[c])
    BY <1>1 DEF Due
  <2>2. CASE Len(buf[c]) + 1 = n[c]
    <3>1. Due(c)' = {}
      BY <1>1, <2>2 DEF Due, ClientOK
    <3>2. Due(c) = {<<c, Len(buf[c]) + 1>>}
      BY <1>2, <2>1, <2>2
    <3> QED
      BY <3>1, <3>2
  <2>3. CASE Len(buf[c]) + 1 # n[c]
    <3>1. Due(c)' = {c} \X (Len(buf[c]) + 2 .. n[c])
      BY <1>1, <1>2, <1>3, <2>3 DEF Due, ClientOK
    <3> QED
      BY <1>2, <2>1, <3>1
  <2> QED
    BY <2>2, <2>3
<1>5. \A d \in Clients \ {c} : Due(d)' = Due(d)
  BY <1>1, DueOthers DEF ClientOK
<1>6. <<c, Len(buf[c]) + 1>> \in Due(c) /\ Due(c) \subseteq Outstanding
  BY <1>1, DueReading
<1>7. Outstanding' = Outstanding \ {<<c, Len(buf[c]) + 1>>}
  BY <1>4, <1>5, <1>6, OutstandingOf
<1>8. /\ IsFiniteSet(Outstanding')
      /\ Cardinality(Outstanding') = Cardinality(Outstanding) - 1
  BY <1>6, <1>7, FS_RemoveElement
<1> QED
  BY <1>8, FS_CardinalityType

\* An attempt is given up, from the write or from the read phase.
LEMMA AbandonSizes ==
  ASSUME ClientOK, IsFiniteSet(Outstanding), NEW c \in Clients, Abandon(c)
  PROVE  /\ IsFiniteSet(Outstanding')
         /\ Cardinality(Outstanding') <= Cardinality(Outstanding)
         /\ pc[c] = "read" =>
              Cardinality(Outstanding') + 1 <= Cardinality(Outstanding)
<1>1. /\ pc' = [pc EXCEPT ![c] =
                  IF attempt[c] + 1 = Retries THEN "raised" ELSE "write"]
      /\ buf' = [buf EXCEPT ![c] = <<>>] /\ n' = n
  BY DEF Abandon
<1>2. Due(c)' = {}
  BY <1>1 DEF Due, ClientOK
<1>3. \A d \in Clients \ {c} : Due(d)' = Due(d)
  BY <1>1, DueOthers DEF ClientOK
<1>4. Outstanding' = Outstanding \ Due(c)
  BY <1>2, <1>3, OutstandingOf
<1>5. /\ IsFiniteSet(Outstanding')
      /\ Cardinality(Outstanding') <= Cardinality(Outstanding)
  BY <1>4, FS_Subset
<1>6. ASSUME pc[c] = "read"
      PROVE  Cardinality(Outstanding') + 1 <= Cardinality(Outstanding)
  <2> DEFINE some == Outstanding \ {<<c, Len(buf[c]) + 1>>}
  <2>1. <<c, Len(buf[c]) + 1>> \in Due(c) /\ Due(c) \subseteq Outstanding
    BY <1>6, DueReading
  <2>2. IsFiniteSet(some) /\ Cardinality(some) = Cardinality(Outstanding) - 1
    BY <2>1, FS_RemoveElement
  <2>3. Outstanding' \in SUBSET some
    BY <1>4, <2>1
  <2> HIDE DEF some
  <2>4. Cardinality(Outstanding') <= Cardinality(some)
    BY <2>2, <2>3, FS_Subset
  <2> QED
    BY <1>5, <2>2, <2>4, FS_CardinalityType
<1> QED
  BY <1>5, <1>6

\* Whose turn it is: only a client that writes or reads transfers, and the
\* others keep their places.
LEMMA TransferOf ==
  ASSUME ClientOK, NEW c \in Clients, Transfer(c)
  PROVE  /\ pc[c] \in {"write", "read"}
         /\ \A d \in Clients \ {c} : pc'[d] = pc[d]
         /\ UNCHANGED <<mpc, rounds>>
BY DEF Transfer, Write, WriteShort, WriteError, Read, ReadFail, Abandon, ClientOK

\* The buffer keeps up with what is outstanding; while nothing fails it gains
\* nothing on it either.
LEMMA TransferSizes ==
  ASSUME IndInv, IsFiniteSet(Outstanding), NEW c \in Clients, Transfer(c)
  PROVE  /\ IsFiniteSet(Outstanding')
         /\ Cardinality(Outstanding) <= Len(fifo) =>
              /\ Len(fifo') + Cardinality(Outstanding) >=
                   Len(fifo) + Cardinality(Outstanding')
              /\ faults' = faults =>
                   Len(fifo') + Cardinality(Outstanding) =
                     Len(fifo) + Cardinality(Outstanding')
<1>1. /\ ClientOK /\ fifo \in Seq(Nat \X Nat) /\ Len(fifo) \in Nat
      /\ faults \in Nat /\ Cardinality(Outstanding) \in Nat
  BY FS_CardinalityType, BridgeAssumption DEF IndInv, TypeOK, ClientOK
<1>2. fifo # <<>> => Len(Tail(fifo)) = Len(fifo) - 1
  BY <1>1, HeadTailProperties
<1>3. CASE Write(c)
  <2>1. n[c] \in Nat
    BY <1>1, LengthType DEF ClientOK
  <2>2. /\ IsFiniteSet(Outstanding')
        /\ Cardinality(Outstanding') = Cardinality(Outstanding) + n[c]
        /\ Len(fifo') = Len(fifo) + n[c]
    BY <1>1, <1>3, WriteSizes
  <2> QED
    BY <1>1, <2>1, <2>2
<1>4. CASE Read(c)
  <2>1. /\ IsFiniteSet(Outstanding')
        /\ Cardinality(Outstanding') + 1 = Cardinality(Outstanding)
    BY <1>1, <1>4, ReadSizes
  <2>2. Cardinality(Outstanding') \in Nat
    BY <2>1, FS_CardinalityType
  <2>3. Cardinality(Outstanding) <= Len(fifo) => Len(fifo') = Len(fifo) - 1
    <3>1. Cardinality(Outstanding) <= Len(fifo) => fifo # <<>>
      BY <1>1, <2>1, <2>2
    <3> QED
      BY <1>2, <1>4, <3>1 DEF Read, Pop
  <2>4. ASSUME Cardinality(Outstanding) <= Len(fifo)
        PROVE  Len(fifo') + Cardinality(Outstanding) =
                 Len(fifo) + Cardinality(Outstanding')
    <3> DEFINE m == Len(fifo)
               k == Cardinality(Outstanding')
    <3>1. m \in Nat /\ k \in Nat
      BY <1>1, <2>2
    <3>2. Len(fifo') = m - 1 /\ Cardinality(Outstanding) = k + 1
      BY <1>1, <2>1, <2>2, <2>3, <2>4
    <3> HIDE DEF m, k
    <3>3. Len(fifo') + Cardinality(Outstanding) = m + k
      BY <3>1, <3>2
    <3> QED
      BY <3>3 DEF m, k
  <2>5. Len(fifo) + Cardinality(Outstanding') \in Nat
    BY <1>1, <2>2
  <2> QED
    BY <2>1, <2>4, <2>5
<1>5. CASE WriteError(c)
  <2>1. \A d \in Clients : Due(d)' = Due(d)
    BY <1>1, <1>5 DEF WriteError, Due, ClientOK
  <2>2. Outstanding' = Outstanding
    BY <2>1, OutstandingSame
  <2> QED
    BY <1>1, <1>5, <2>2 DEF WriteError
<1>6. CASE WriteShort(c)
  <2>1. Len(fifo') >= Len(fifo) /\ Len(fifo') \in Nat
    <3>1. PICK k \in 0..(n[c] - 1) : fifo' = fifo \o Answer(call[c], k)
      BY <1>6 DEF WriteShort
    <3>2. call[c] \in 0..MaxCalls + 2 /\ n[c] \in Nat
      BY <1>1, LengthType DEF ClientOK
    <3>3. call[c] \in Nat /\ k \in Nat
      BY <3>1, <3>2, BridgeAssumption
    <3>4. Answer(call[c], k) \in Seq(Nat \X Nat) /\ Len(Answer(call[c], k)) = k
      BY <3>3, AnswerLength
    <3> QED
      BY <1>1, <3>1, <3>3, <3>4, ConcatLength
  <2>2. /\ IsFiniteSet(Outstanding')
        /\ Cardinality(Outstanding') <= Cardinality(Outstanding)
    BY <1>1, <1>6, AbandonSizes DEF WriteShort
  <2>3. faults' # faults
    BY <1>1, <1>6 DEF WriteShort, Fault
  <2> QED
    BY <1>1, <2>1, <2>2, <2>3, FS_CardinalityType
<1>7. CASE ReadFail(c)
  <2>1. /\ IsFiniteSet(Outstanding')
        /\ Cardinality(Outstanding') + 1 <= Cardinality(Outstanding)
    BY <1>1, <1>7, AbandonSizes DEF ReadFail
  <2>2. Cardinality(Outstanding') \in Nat
    BY <2>1, FS_CardinalityType
  <2>3. faults' # faults
    BY <1>1, <1>7 DEF ReadFail, Fault
  <2>4. Cardinality(Outstanding) <= Len(fifo) => Len(fifo') + 1 >= Len(fifo)
    <3>1. Cardinality(Outstanding) <= Len(fifo) => fifo # <<>>
      BY <1>1, <2>1, <2>2
    <3>2. fifo' = fifo \/ (fifo # <<>> => fifo' = Tail(fifo))
      BY <1>7 DEF ReadFail, Pop
    <3> QED
      BY <1>1, <1>2, <3>1, <3>2
  <2>5. Len(fifo') \in Nat
    BY <1>1, TransferOK DEF IndInv, TypeOK
  <2> QED
    BY <1>1, <2>1, <2>2, <2>3, <2>4, <2>5
<1> QED
  BY <1>3, <1>4, <1>5, <1>6, <1>7 DEF Transfer

-----------------------------------------------------------------------------
(* The invariant                                                           *)

LEMMA SizesInit == Init => Sizes
<1> SUFFICES ASSUME Init PROVE Sizes
  OBVIOUS
<1>1. \A c \in Clients : pc[c] = "idle"
  BY DEF Init
<1>2. Outstanding = {}
  BY <1>1 DEF Outstanding, Due
<1>3. Len(fifo) <= MaxStale
  <2>1. PICK len \in 0..MaxStale : fifo = [k \in 1..len |-> Junk]
    BY DEF Init
  <2>2. len \in Nat /\ len <= MaxStale
    BY BridgeAssumption
  <2> QED
    BY <2>1, <2>2
<1> QED
  BY <1>1, <1>2, <1>3, FS_EmptySet
     DEF Sizes, Places, NeverStarve, Excess, Clients, Init

LEMMA SizesTransfer ==
  ASSUME IndInv, Sizes, NEW c \in Clients, Transfer(c)
  PROVE  Sizes'
<1>1. /\ ClientOK /\ fifo \in Seq(Nat \X Nat) /\ Len(fifo) \in Nat
      /\ faults \in Nat /\ faults' \in Nat
      /\ fifo' \in Seq(Nat \X Nat) /\ Len(fifo') \in Nat
  <2>1. ClientOK /\ fifo \in Seq(Nat \X Nat) /\ faults \in 0..MaxFaults
    BY DEF IndInv, TypeOK, ClientOK
  <2>2. fifo' \in Seq(Nat \X Nat) /\ faults' \in 0..MaxFaults
    BY <2>1, TransferOK
  <2> QED
    BY <2>1, <2>2, BridgeAssumption
<1>2. /\ pc[c] \in {"write", "read"}
      /\ \A d \in Clients \ {c} : pc'[d] = pc[d]
      /\ UNCHANGED <<mpc, rounds>>
  BY <1>1, TransferOf
<1>3. Main \in Clients /\ Threads \subseteq Clients /\ Main \notin Threads
  BY BridgeAssumption DEF Clients
<1>4. c \in Threads \/ c = Main
  BY DEF Clients
<1>5. mpc \notin {"open", "drain"}
  BY <1>2, <1>3, <1>4 DEF Sizes, Places
<1>6. Places'
  <2>1. mpc = "sync" => c = Main
    BY <1>2, <1>4 DEF Sizes, Places
  <2>2. mpc = "ready" => c # Main
    BY <1>2 DEF Sizes, Places
  <2> QED
    BY <1>2, <1>3, <1>5, <2>1, <2>2 DEF Sizes, Places
<1>7. IsFiniteSet(Outstanding) /\ IsFiniteSet(Outstanding')
  BY TransferSizes DEF Sizes
<1>8. Cardinality(Outstanding) \in Nat /\ Cardinality(Outstanding') \in Nat
  BY <1>7, FS_CardinalityType
<1>9. ASSUME mpc \in {"sync", "ready"}
      PROVE  /\ Len(fifo) >= Cardinality(Outstanding)
             /\ Len(fifo') + Cardinality(Outstanding) >=
                  Len(fifo) + Cardinality(Outstanding')
             /\ faults' = faults =>
                  Len(fifo') + Cardinality(Outstanding) =
                    Len(fifo) + Cardinality(Outstanding')
  BY <1>1, <1>7, <1>8, <1>9, TransferSizes DEF Sizes, NeverStarve
<1>10. faults' = faults \/ faults' # 0
  BY <1>1 DEF Transfer, Write, WriteShort, WriteError, Read, ReadFail, Fault
<1>11. NeverStarve'
  BY <1>1, <1>2, <1>8, <1>9 DEF NeverStarve
<1>12. Excess'
  <2>1. MaxStale \in Nat
    BY BridgeAssumption
  <2> QED
    BY <1>1, <1>2, <1>5, <1>8, <1>9, <1>10, <2>1 DEF Sizes, Excess
<1> QED
  BY <1>6, <1>7, <1>11, <1>12 DEF Sizes

LEMMA SizesMain ==
  ASSUME IndInv, Sizes, MainReads
  PROVE  Sizes'
<1>1. UNCHANGED client
  BY DEF MainReads, SyncTransferred, DrainRead, DrainEmpty, DrainError, DrainMax,
         Shutdown, ShutRound, ShutTransferred, Flush, Close
<1>2. Outstanding' = Outstanding
  BY <1>1 DEF Outstanding, Due, client
<1>3. /\ fifo \in Seq(Nat \X Nat) /\ Len(fifo) \in Nat /\ faults \in Nat
      /\ rounds \in Nat /\ MaxStale \in Nat /\ SyncMax \in Nat /\ MaxStale <= SyncMax
      /\ mpc \in MainPcs
  BY BridgeAssumption DEF IndInv, TypeOK, MainPcs
<1>4. IsFiniteSet(Outstanding) /\ Cardinality(Outstanding) \in Nat
  BY FS_CardinalityType DEF Sizes
<1>5. mpc \in {"open", "drain"} => Outstanding = {}
  <2>1. mpc \in {"open", "drain"} => \A c \in Clients : pc[c] # "read"
    BY DEF Sizes, Places, Clients
  <2> QED
    BY <2>1 DEF Outstanding, Due
<1>6. mpc = "sync" /\ pc[Main] = "done" => Outstanding = {}
  <2>1. mpc = "sync" /\ pc[Main] = "done" => \A c \in Clients : pc[c] # "read"
    BY DEF Sizes, Places, Clients
  <2> QED
    BY <2>1 DEF Outstanding, Due
<1>7. Cardinality({}) = 0
  BY FS_EmptySet
<1>8. CASE SyncTransferred
  <2>1. /\ UNCHANGED <<fifo, faults>> /\ rounds' = 0 /\ mpc = "sync"
        /\ (mpc' = "drain" /\ pc[Main] = "done") \/ mpc' = "failed"
    BY <1>8 DEF SyncTransferred
  <2>2. Places' /\ NeverStarve'
    BY <1>1, <2>1 DEF Sizes, Places, NeverStarve, client
  <2>3. faults = 0 /\ mpc' = "drain" => Len(fifo) <= SyncMax
    <3>1. mpc' = "drain" => Cardinality(Outstanding) = 0
      BY <1>6, <1>7, <2>1
    <3>2. faults = 0 => Len(fifo) <= MaxStale + Cardinality(Outstanding)
      BY <2>1 DEF Sizes, Excess
    <3> QED
      BY <1>3, <3>1, <3>2
  <2>4. faults' = 0 /\ mpc' = "drain" => Len(fifo') + rounds' <= SyncMax
    BY <1>3, <2>1, <2>3
  <2>5. Excess'
    BY <2>1, <2>4 DEF Excess
  <2> QED
    BY <1>2, <1>4, <2>2, <2>5 DEF Sizes
<1>9. CASE DrainRead
  <2>1. UNCHANGED <<mpc, faults>> /\ mpc = "drain" /\ rounds' = rounds + 1
        /\ rounds < SyncMax /\ Pop
    BY <1>9 DEF DrainRead
  <2>2. Places' /\ NeverStarve'
    BY <1>1, <2>1 DEF Sizes, Places, NeverStarve, client
  <2>3. Len(fifo') = IF fifo = <<>> THEN 0 ELSE Len(fifo) - 1
    BY <1>3, <2>1, HeadTailProperties DEF Pop
  <2>4. faults = 0 => Len(fifo) + rounds <= SyncMax
    BY <2>1 DEF Sizes, Excess
  <2>5. faults' = 0 => Len(fifo') + rounds' <= SyncMax
    <3>1. CASE fifo = <<>>
      BY <1>3, <2>1, <2>3, <3>1
    <3>2. CASE fifo # <<>>
      <4>1. Len(fifo') = Len(fifo) - 1
        BY <2>3, <3>2
      <4>2. faults' = 0 => Len(fifo) - 1 + rounds + 1 <= SyncMax
        BY <1>3, <2>1, <2>4
      <4> QED
        BY <1>3, <2>1, <4>1, <4>2
    <3> QED
      BY <3>1, <3>2
  <2>6. Excess'
    BY <2>1, <2>5 DEF Excess
  <2> QED
    BY <1>2, <1>4, <2>2, <2>6 DEF Sizes
<1>10. CASE DrainEmpty \/ DrainMax \/ DrainError
  <2>1. UNCHANGED <<fifo, rounds>> /\ mpc = "drain" /\ mpc' = "ready"
    BY <1>10 DEF DrainEmpty, DrainError, DrainMax
  <2>2. faults' = 0 => faults = 0 /\ (fifo = <<>> \/ rounds = SyncMax)
    BY <1>3, <1>10 DEF DrainEmpty, DrainError, DrainMax, Fault
  <2>3. Places'
    BY <1>1, <2>1 DEF Sizes, Places, client
  <2>4. Cardinality(Outstanding') = 0
    BY <1>2, <1>5, <1>7, <2>1
  <2>5. NeverStarve'
    BY <1>3, <2>1, <2>4 DEF NeverStarve
  <2>6. faults' = 0 => Len(fifo) <= 0
    <3>1. faults = 0 => Len(fifo) + rounds <= SyncMax
      BY <2>1 DEF Sizes, Excess
    <3>2. fifo = <<>> => Len(fifo) = 0
      OBVIOUS
    <3> QED
      BY <1>3, <2>2, <3>1, <3>2
  <2>7. Excess'
    BY <2>1, <2>4, <2>6 DEF Excess
  <2> QED
    BY <1>2, <1>4, <2>3, <2>5, <2>7 DEF Sizes
<1>11. CASE Shutdown \/ ShutRound \/ ShutTransferred \/ Flush \/ Close
  <2>1. mpc' \notin {"open", "sync", "drain", "ready"}
    BY <1>11 DEF Shutdown, ShutRound, ShutTransferred, Flush, Close
  <2> QED
    BY <1>2, <1>4, <2>1 DEF Sizes, Places, NeverStarve, Excess
<1> QED
  BY <1>8, <1>9, <1>10, <1>11 DEF MainReads

LEMMA SizesStart ==
  ASSUME IndInv, Sizes, NEW c \in Clients, NEW len, Start(c, len),
         UNCHANGED fifo,
         \/ UNCHANGED <<mpc, faults>> /\ c \in Threads
              /\ mpc \in {"ready", "shutdown", "standby", "flush"}
         \/ UNCHANGED faults /\ c = Main /\ mpc = "open" /\ mpc' = "sync"
         \/ mpc' = "standby"
  PROVE  Sizes'
<1>1. /\ pc[c] # "read" /\ pc' = [pc EXCEPT ![c] = "write"]
      /\ n' = [n EXCEPT ![c] = len] /\ buf' = [buf EXCEPT ![c] = <<>>]
  BY DEF Start
<1>2. ClientOK
  BY DEF IndInv, TypeOK, ClientOK
<1>3. \A d \in Clients \ {c} : pc'[d] = pc[d]
  BY <1>1, <1>2 DEF ClientOK
<1>4. Outstanding' = Outstanding
  <2>1. ASSUME NEW d \in Clients
        PROVE  Due(d)' = Due(d)
    <3>1. CASE d = c
      BY <1>1, <1>2, <3>1 DEF Due, ClientOK
    <3>2. CASE d # c
      BY <1>1, <1>2, <3>2, DueOthers DEF ClientOK
    <3> QED
      BY <3>1, <3>2
  <2> QED
    BY <2>1, OutstandingSame
<1>5. IsFiniteSet(Outstanding')
  BY <1>4 DEF Sizes
<1>6. Main \in Clients /\ Threads \subseteq Clients /\ Main \notin Threads
  BY BridgeAssumption DEF Clients
<1>7. Places'
  BY <1>3, <1>6 DEF Sizes, Places
<1>8. /\ fifo \in Seq(Nat \X Nat) /\ Len(fifo) \in Nat /\ MaxStale \in Nat
      /\ Cardinality(Outstanding) \in Nat
  BY FS_CardinalityType, BridgeAssumption DEF Sizes, IndInv, TypeOK
<1>9. mpc = "open" => Cardinality(Outstanding) = 0
  <2>1. mpc = "open" => \A d \in Clients : pc[d] # "read"
    BY DEF Sizes, Places, Clients
  <2>2. mpc = "open" => Outstanding = {}
    BY <2>1 DEF Outstanding, Due
  <2> QED
    BY <2>2, FS_EmptySet
<1>10. NeverStarve'
  BY <1>4, <1>8, <1>9 DEF Sizes, NeverStarve
<1>11. Excess'
  BY <1>4, <1>8, <1>9 DEF Sizes, Excess
<1> QED
  BY <1>5, <1>7, <1>10, <1>11 DEF Sizes

LEMMA StartsAre ==
  ASSUME \/ Sync \/ ShutStandby
         \/ \E c \in Threads, len \in Lengths : Command(c, len)
  PROVE  \E c \in Clients, len \in Lengths \cup {2} :
           /\ Start(c, len) /\ UNCHANGED fifo
           /\ \/ UNCHANGED <<mpc, faults>> /\ c \in Threads
                   /\ mpc \in {"ready", "shutdown", "standby", "flush"}
              \/ UNCHANGED faults /\ c = Main /\ mpc = "open" /\ mpc' = "sync"
              \/ mpc' = "standby" /\ mpc = "shutdown"
BY DEF Sync, ShutStandby, Command, Clients

LEMMA SizesStep == IndInv /\ Sizes /\ [Next]_vars => Sizes'
<1> SUFFICES ASSUME IndInv, Sizes, [Next]_vars PROVE Sizes'
  OBVIOUS
<1>1. CASE \/ Sync \/ ShutStandby
           \/ \E c \in Threads, len \in Lengths : Command(c, len)
  <2>1. PICK c \in Clients, len \in Lengths \cup {2} :
           /\ Start(c, len) /\ UNCHANGED fifo
           /\ \/ UNCHANGED <<mpc, faults>> /\ c \in Threads
                   /\ mpc \in {"ready", "shutdown", "standby", "flush"}
              \/ UNCHANGED faults /\ c = Main /\ mpc = "open" /\ mpc' = "sync"
              \/ mpc' = "standby" /\ mpc = "shutdown"
    BY <1>1, StartsAre
  <2> QED
    BY <2>1, SizesStart
<1>2. CASE UNCHANGED vars
  BY <1>2
     DEF vars, client, Sizes, Places, NeverStarve, Excess, Outstanding, Due
<1> QED
  BY <1>1, <1>2, SizesTransfer, SizesMain DEF Next, MainThread, MainReads

\* NeverStarve: abandoned attempts and short writes leave bytes behind and
\* never take any, so that every attempt finds as many bytes as it reads.
THEOREM NeverStarveHolds == Spec => []NeverStarve
<1>1. Init => IndInv /\ Sizes
  BY InitInd, SizesInit
<1>2. (IndInv /\ Sizes) /\ [Next]_vars => (IndInv /\ Sizes)'
  BY IndStep, SizesStep
<1>3. IndInv /\ Sizes => NeverStarve
  BY DEF Sizes
<1> QED
  BY <1>1, <1>2, <1>3, PTL DEF Spec

-----------------------------------------------------------------------------
(* Whose bytes                                                             *)

\* A call that is alone reads while nobody else does, and what it has together
\* with what the buffer has is its answer.
Own ==
  mpc = "ready" /\ faults = 0 =>
    \A c \in Threads : alone[c] =>
      /\ pc[c] = "read" =>
           /\ Others(c) = {}
           /\ buf[c] \o fifo = Answer(call[c], n[c])
      /\ pc[c] = "done" => buf[c] = Answer(call[c], n[c])

\* The byte at the head of the buffer moves to the end of in_buf.
LEMMA ByteMoved ==
  ASSUME NEW S, NEW p \in Seq(S), NEW q \in Seq(S), q # <<>>
  PROVE  Append(p, Head(q)) \o Tail(q) = p \o q
<1>1. Head(q) \in S /\ Tail(q) \in Seq(S)
  BY HeadTailProperties
<1>2. Append(p, Head(q)) = p \o <<Head(q)>> /\ <<Head(q)>> \in Seq(S)
  BY <1>1, AppendIsConcat
<1>3. (p \o <<Head(q)>>) \o Tail(q) = p \o (<<Head(q)>> \o Tail(q))
  BY <1>1, <1>2, ConcatAssociative
<1>4. <<Head(q)>> \o Tail(q) = q
  <2>1. <<Head(q)>> \o Tail(q) \in Seq(S)
    BY <1>1, <1>2
  <2>2. /\ Len(<<Head(q)>> \o Tail(q)) = Len(q)
        /\ \A i \in 1..Len(q) : (<<Head(q)>> \o Tail(q))[i] = q[i]
    BY <1>1, <1>2, HeadTailProperties, ConcatProperties
  <2> QED
    BY <2>1, <2>2, SeqEqual
<1> QED
  BY <1>2, <1>3, <1>4

\* in_buf is full when it is the whole answer.
LEMMA AllRead ==
  ASSUME NEW S, NEW p \in Seq(S), NEW q \in Seq(S), Len(p \o q) = Len(p)
  PROVE  p = p \o q
<1>1. Len(p \o q) = Len(p) + Len(q)
  BY ConcatProperties
<1>2. Len(p) \in Nat /\ Len(q) \in Nat
  OBVIOUS
<1>3. q = <<>>
  BY <1>1, <1>2, EmptySeq
<1> QED
  BY <1>3, ConcatEmptySeq

LEMMA OwnInit == Init => Own
BY DEF Init, Own

LEMMA OwnTransfer ==
  ASSUME IndInv, Sizes, Own, NEW c \in Clients, Transfer(c)
  PROVE  Own'
<1>1. ClientOK /\ fifo \in Seq(Nat \X Nat) /\ faults \in Nat
  BY BridgeAssumption DEF IndInv, TypeOK, ClientOK
<1>2. pc[c] \in {"write", "read"} /\ mpc' = mpc
  BY <1>1, TransferOf
<1>3. CASE WriteShort(c) \/ WriteError(c) \/ ReadFail(c)
  <2>1. faults' # 0
    BY <1>1, <1>3 DEF WriteShort, WriteError, ReadFail, Fault
  <2> QED
    BY <2>1 DEF Own
<1>4. SUFFICES ASSUME mpc = "ready", faults = 0, Write(c) \/ Read(c),
                      NEW d \in Threads, alone'[d]
               PROVE  /\ pc'[d] = "read" =>
                           /\ Others(d)' = {}
                           /\ buf'[d] \o fifo' = Answer(call'[d], n'[d])
                      /\ pc'[d] = "done" => buf'[d] = Answer(call'[d], n'[d])
  BY <1>2, <1>3 DEF Own, Transfer, Write, Read
<1>5. /\ Main \in Clients /\ Threads \subseteq Clients /\ Main \notin Threads
      /\ pc[Main] \notin {"write", "read"} /\ c \in Threads
  BY <1>2, <1>4, BridgeAssumption DEF Clients, Sizes, Places
<1>6. /\ Len(fifo) \in Nat /\ Cardinality(Outstanding) \in Nat
      /\ Len(fifo) = Cardinality(Outstanding)
  BY <1>1, <1>4, FS_CardinalityType DEF Sizes, NeverStarve, Excess
<1>7. n[c] \in Nat /\ call[c] \in Nat /\ buf[c] \in Seq(Nat \X Nat)
  <2>1. n[c] \in Lengths \cup {2} /\ call[c] \in 0..MaxCalls + 2
        /\ buf[c] \in Seq(Nat \X Nat)
    BY <1>1 DEF ClientOK
  <2>2. n[c] \in Nat
    BY <2>1, LengthType
  <2>3. call[c] \in Nat
    BY <2>1, BridgeAssumption
  <2> QED
    BY <2>1, <2>2, <2>3
<1>8. CASE Write(c)
  <2>1. /\ pc[c] = "write" /\ pc' = [pc EXCEPT ![c] = "read"]
        /\ fifo' = fifo \o Answer(call[c], n[c])
        /\ UNCHANGED <<call, n, buf>> /\ buf[c] = <<>>
    BY <1>1, <1>8 DEF Write, ClientOK, Progress
  <2>2. alone' = [e \in Clients |->
                   IF e = c THEN Others(c) = {} ELSE alone[e] /\ e \notin Others(c)]
    BY <1>8 DEF Write
  <2>3. CASE d = c
    <3>1. Others(c) = {}
      BY <1>4, <1>5, <2>2, <2>3, Zenon
    <3>2. \A e \in Clients : pc[e] # "read"
      BY <2>1, <3>1 DEF Others
    <3>3. Outstanding = {}
      BY <3>2 DEF Outstanding, Due
    <3>4. fifo = <<>>
      BY <1>1, <1>6, <3>3, FS_EmptySet, EmptySeq
    <3>5. Others(c)' = {}
      BY <1>1, <2>1, <3>2 DEF Others, ClientOK
    <3>6. buf'[c] \o fifo' = Answer(call[c], n[c])
      <4>1. Answer(call[c], n[c]) \in Seq(Nat \X Nat)
        BY <1>7, AnswerType
      <4>2. fifo' = Answer(call[c], n[c])
        BY <2>1, <3>4, <4>1, ConcatEmptySeq
      <4> QED
        BY <2>1, <4>1, <4>2, ConcatEmptySeq
    <3> QED
      BY <1>1, <2>1, <2>3, <3>5, <3>6 DEF ClientOK
  <2>4. CASE d # c
    <3>1. alone[d] /\ d \notin Others(c)
      BY <1>4, <1>5, <2>2, <2>4, Zenon
    <3>2. pc[d] # "read" /\ pc'[d] = pc[d]
      BY <1>1, <1>5, <2>1, <2>4, <3>1 DEF Others, ClientOK
    <3> QED
      BY <1>4, <2>1, <3>1, <3>2 DEF Own
  <2> QED
    BY <2>3, <2>4
<1>9. CASE Read(c)
  <2>1. /\ pc[c] = "read" /\ Pop /\ UNCHANGED <<call, n, alone>>
        /\ buf' = [buf EXCEPT ![c] = Append(buf[c], Next1)]
        /\ pc' = [pc EXCEPT ![c] = IF Len(buf[c]) + 1 = n[c] THEN "done" ELSE "read"]
    BY <1>9 DEF Read
  <2>2. CASE d = c
    <3>1. Others(c) = {} /\ buf[c] \o fifo = Answer(call[c], n[c])
      BY <1>4, <2>1, <2>2 DEF Own
    <3>2. fifo # <<>>
      <4>1. Cardinality(Outstanding) # 0
        <5>1. Outstanding # {}
          BY <1>1, <2>1, DueReading
        <5> QED
          BY <5>1, FS_EmptySet DEF Sizes
      <4> QED
        BY <1>6, <4>1
    <3>3. /\ Next1 = Head(fifo) /\ fifo' = Tail(fifo)
          /\ Head(fifo) \in Nat \X Nat /\ Tail(fifo) \in Seq(Nat \X Nat)
      BY <1>1, <2>1, <3>2, HeadTailProperties DEF Next1, Pop
    <3>4. /\ buf'[c] = Append(buf[c], Head(fifo))
          /\ buf'[c] \in Seq(Nat \X Nat) /\ Len(buf'[c]) = Len(buf[c]) + 1
      BY <1>1, <1>7, <2>1, <3>3, AppendProperties DEF ClientOK
    <3>5. buf'[c] \o fifo' = Answer(call[c], n[c])
      BY <1>1, <1>7, <3>1, <3>2, <3>3, <3>4, ByteMoved
    <3>6. Others(c)' = {}
      BY <1>1, <2>1, <3>1 DEF Others, ClientOK
    <3>7. pc'[c] = "done" => buf'[c] = Answer(call'[c], n'[c])
      <4>1. pc'[c] = "done" => Len(buf'[c]) = n[c]
        BY <1>1, <2>1, <3>4 DEF ClientOK
      <4>2. Len(Answer(call[c], n[c])) = n[c]
        BY <1>7, AnswerLength
      <4>3. pc'[c] = "done" => buf'[c] = buf'[c] \o fifo'
        BY <3>3, <3>4, <3>5, <4>1, <4>2, AllRead
      <4> QED
        BY <2>1, <3>5, <4>3
    <3> QED
      BY <2>1, <2>2, <3>5, <3>6, <3>7
  <2>3. CASE d # c
    <3>1. alone[d] /\ pc'[d] = pc[d] /\ buf'[d] = buf[d]
      BY <1>1, <1>4, <1>5, <2>1, <2>3 DEF ClientOK
    <3>2. pc[d] # "read"
      <4>1. pc[d] = "read" => Others(d) = {}
        BY <1>4, <3>1 DEF Own
      <4>2. c \in Others(d)
        BY <2>1, <2>3 DEF Others
      <4> QED
        BY <4>1, <4>2
    <3> QED
      BY <1>4, <2>1, <3>1, <3>2 DEF Own
  <2> QED
    BY <2>2, <2>3
<1> QED
  BY <1>4, <1>8, <1>9

\* Between the calls the threads have read their answers, or are yet to start.
LEMMA OwnMain ==
  ASSUME IndInv, Sizes, Own, MainReads
  PROVE  Own'
<1>1. UNCHANGED client
  BY DEF MainReads, SyncTransferred, DrainRead, DrainEmpty, DrainError, DrainMax,
         Shutdown, ShutRound, ShutTransferred, Flush, Close
<1>2. mpc' = "ready" => mpc = "drain"
  BY DEF MainReads, SyncTransferred, DrainRead, DrainEmpty, DrainError, DrainMax,
         Shutdown, ShutRound, ShutTransferred, Flush, Close
<1>3. mpc = "drain" => \A c \in Threads : pc[c] = "idle"
  BY DEF Sizes, Places
<1> QED
  BY <1>1, <1>2, <1>3 DEF Own, client

LEMMA OwnStart ==
  ASSUME IndInv, Own, NEW c \in Clients, NEW len, Start(c, len), UNCHANGED fifo,
         UNCHANGED <<mpc, faults>> \/ mpc' \in {"sync", "standby"}
  PROVE  Own'
<1>1. /\ pc' = [pc EXCEPT ![c] = "write"] /\ buf' = [buf EXCEPT ![c] = <<>>]
      /\ n' = [n EXCEPT ![c] = len] /\ call' = [call EXCEPT ![c] = calls + 1]
      /\ alone' = [alone EXCEPT ![c] = TRUE]
  BY DEF Start
<1>2. ClientOK
  BY DEF IndInv, TypeOK, ClientOK
<1> SUFFICES ASSUME mpc = "ready", faults = 0, NEW d \in Threads, alone'[d]
             PROVE  /\ pc'[d] = "read" =>
                         /\ Others(d)' = {}
                         /\ buf'[d] \o fifo' = Answer(call'[d], n'[d])
                    /\ pc'[d] = "done" => buf'[d] = Answer(call'[d], n'[d])
  BY DEF Own
<1>3. d \in Clients
  BY DEF Clients
<1>4. CASE d = c
  BY <1>1, <1>2, <1>3, <1>4 DEF ClientOK
<1>5. CASE d # c
  <2>1. /\ pc'[d] = pc[d] /\ buf'[d] = buf[d] /\ n'[d] = n[d]
        /\ call'[d] = call[d]
    BY <1>1, <1>2, <1>3, <1>5 DEF ClientOK
  <2>2. alone[d]
    BY <1>1, <1>2, <1>3, <1>5, Zenon DEF ClientOK
  <2>3. Others(d)' \subseteq Others(d)
    BY <1>1, <1>2 DEF Others, ClientOK
  <2> QED
    BY <2>1, <2>2, <2>3 DEF Own
<1> QED
  BY <1>4, <1>5

LEMMA OwnStep == IndInv /\ Sizes /\ Own /\ [Next]_vars => Own'
<1> SUFFICES ASSUME IndInv, Sizes, Own, [Next]_vars PROVE Own'
  OBVIOUS
<1>1. CASE \/ Sync \/ ShutStandby
           \/ \E c \in Threads, len \in Lengths : Command(c, len)
  <2>1. \E c \in Clients, len \in Lengths \cup {2} :
           /\ Start(c, len) /\ UNCHANGED fifo
           /\ UNCHANGED <<mpc, faults>> \/ mpc' \in {"sync", "standby"}
    BY <1>1, StartsAre, Zenon
  <2> QED
    BY <2>1, OwnStart
<1>2. CASE UNCHANGED vars
  BY <1>2 DEF vars, client, Own, Others
<1> QED
  BY <1>1, <1>2, OwnTransfer, OwnMain DEF Next, MainThread, MainReads

\* OwnIfAlone: whatever an earlier user left in the buffer, and whoever shared
\* it in between, a call that shares it with no other returns the bytes that
\* answer it.
THEOREM OwnIfAloneHolds == Spec => []OwnIfAlone
<1>1. Init => IndInv /\ Sizes /\ Own
  BY InitInd, SizesInit, OwnInit
<1>2. (IndInv /\ Sizes /\ Own) /\ [Next]_vars => (IndInv /\ Sizes /\ Own)'
  BY IndStep, SizesStep, OwnStep
<1>3. IndInv /\ Sizes /\ Own => OwnIfAlone
  BY DEF Own, OwnIfAlone
<1> QED
  BY <1>1, <1>2, <1>3, PTL DEF Spec
=============================================================================
