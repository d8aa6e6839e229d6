------------------------------- MODULE Bridge -------------------------------
(***************************************************************************)
(* bridge.py: I2CBridge.spi_transfer, sync_buffer and shutdown, one action *)
(* per I2C transaction, on top of the ATtiny84's circular buffer, which    *)
(* gets one MISO byte for each SPI byte and from which every os.read takes *)
(* the oldest.  Nothing in the buffer says whose answer a byte is; here    *)
(* each byte carries the number of the call and the position in it that it *)
(* answers, so that the properties can tell.                               *)
(*                                                                         *)
(* How many bytes the circular buffer holds is said nowhere, and the       *)
(* ATtiny's firmware is not in the repository: here it never overflows, so *)
(* that nothing is overwritten.  The bytes that abandoned attempts do not  *)
(* read stay until the next sync or shutdown, so that a real one might be  *)
(* full after many failures, of which the properties then say nothing.     *)
(***************************************************************************)
EXTENDS Naturals, Sequences, FiniteSets

CONSTANTS
  Threads,      \* the threads that call spi_transfer once the bridge is synced
  Main,         \* the thread that opens, syncs and shuts down
  Lengths,      \* numbers of bytes of a transfer
  Retries,      \* RETRY_COUNT
  MaxStale,     \* bound: bytes left in the buffer by an earlier user
  SyncMax,      \* SYNC_MAX_BYTES
  ShutReads,    \* the 16 rounds of shutdown's first drain
  MaxCalls,     \* bound: calls of spi_transfer by the threads
  MaxFaults     \* bound: I2C transactions that fail

ASSUME BridgeAssumption ==
  /\ Main \notin Threads
  /\ IsFiniteSet(Threads)
  /\ Lengths \subseteq Nat \ {0}
  /\ Retries \in Nat \ {0} /\ SyncMax \in Nat /\ ShutReads \in Nat
  /\ MaxStale \in 0..SyncMax
  /\ MaxCalls \in Nat /\ MaxFaults \in Nat

Clients == Threads \cup {Main}

VARIABLES
  fifo,      \* the bytes in the ATtiny's buffer, oldest first
  pc,        \* pc[c]: "idle", "write", "read", "done" or "raised"
  call,      \* call[c]: the number of c's current or last call
  n,         \* n[c]: how many bytes it transfers
  attempt,   \* attempt[c]: how many attempts have been abandoned
  buf,       \* buf[c]: in_buf, as far as it is filled
  calls,     \* calls made so far
  mpc,       \* where the main thread is
  rounds,    \* reads of the current drain so far
  alone,     \* history: alone[c]: c's call has shared the buffer with no other
  faults     \* I2C transactions that have failed

client == <<pc, call, n, attempt, buf, calls, alone>>
vars == <<fifo, client, mpc, rounds, faults>>

\* The byte that answers position k of call number id; junk answers nothing.
Byte(id, k) == <<id, k>>
Junk == Byte(0, 0)
Answer(id, len) == [k \in 1..len |-> Byte(id, k)]

\* The bytes that the attempts in progress have yet to read.
Due(c) == IF pc[c] = "read" THEN {c} \X (Len(buf[c]) + 1 .. n[c]) ELSE {}
Outstanding == UNION {Due(c) : c \in Clients}

TypeOK ==
  /\ fifo \in Seq(Nat \X Nat)
  /\ pc \in [Clients -> {"idle", "write", "read", "done", "raised"}]
  /\ call \in [Clients -> 0..MaxCalls + 2]
  /\ n \in [Clients -> Lengths \cup {2}]
  /\ attempt \in [Clients -> 0..Retries]
  /\ buf \in [Clients -> Seq(Nat \X Nat)]
  /\ \A c \in Clients : Len(buf[c]) <= n[c]
  /\ \A c \in Clients : pc[c] \in {"write", "read"} => attempt[c] < Retries
  /\ calls \in 0..MaxCalls + 2
  /\ mpc \in {"open", "sync", "drain", "ready", "shutdown", "standby",
              "flush", "closed", "failed"}
  /\ rounds \in 0..SyncMax + ShutReads + 4
  /\ alone \in [Clients -> BOOLEAN]
  /\ faults \in 0..MaxFaults

Init ==
  /\ \E len \in 0..MaxStale : fifo = [k \in 1..len |-> Junk]
  /\ pc = [c \in Clients |-> "idle"]
  /\ call = [c \in Clients |-> 0]
  /\ n = [c \in Clients |-> 2]
  /\ attempt = [c \in Clients |-> 0]
  /\ buf = [c \in Clients |-> <<>>]
  /\ calls = 0
  /\ alone = [c \in Clients |-> TRUE]
  /\ mpc = "open" /\ rounds = 0 /\ faults = 0

-----------------------------------------------------------------------------
(* spi_transfer.                                                           *)

Start(c, len) ==
  /\ pc[c] # "read" /\ pc[c] # "write"
  /\ calls' = calls + 1
  /\ call' = [call EXCEPT ![c] = calls + 1]
  /\ n' = [n EXCEPT ![c] = len]
  /\ attempt' = [attempt EXCEPT ![c] = 0]
  /\ buf' = [buf EXCEPT ![c] = <<>>]
  /\ pc' = [pc EXCEPT ![c] = "write"]
  /\ alone' = [alone EXCEPT ![c] = TRUE]

Fault == faults < MaxFaults /\ faults' = faults + 1

\* Mutant: one attempt too many.
AbandonOneMore(c) ==
  /\ attempt' = [attempt EXCEPT ![c] = @ + 1]
  /\ buf' = [buf EXCEPT ![c] = <<>>]
  /\ pc' = [pc EXCEPT ![c] = IF attempt[c] = Retries THEN "raised" ELSE "write"]
  /\ UNCHANGED <<call, n, calls, alone>>

\* The attempt is given up: the next one, or BridgeError after the last.
\* What it left in the ATtiny's buffer stays there.
Abandon(c) ==
  /\ attempt' = [attempt EXCEPT ![c] = @ + 1]
  /\ buf' = [buf EXCEPT ![c] = <<>>]
  /\ pc' = [pc EXCEPT ![c] =
              IF attempt[c] + 1 = Retries THEN "raised" ELSE "write"]
  /\ UNCHANGED <<call, n, calls, alone>>

\* The other clients that are in the read phase of an attempt.
Others(c) == {d \in Clients \ {c} : pc[d] = "read"}

Write(c) ==
  /\ pc[c] = "write"
  /\ fifo' = fifo \o Answer(call[c], n[c])
  /\ pc' = [pc EXCEPT ![c] = "read"]
  /\ alone' = [d \in Clients |->
                 IF d = c THEN Others(c) = {} ELSE alone[d] /\ d \notin Others(c)]
  /\ UNCHANGED <<call, n, attempt, buf, calls, mpc, rounds, faults>>

\* Fewer bytes written than given: the ATtiny forwards those it got.
WriteShort(c) ==
  /\ pc[c] = "write" /\ Fault
  /\ \E k \in 0..(n[c] - 1) : fifo' = fifo \o Answer(call[c], k)
  /\ Abandon(c)
  /\ UNCHANGED <<mpc, rounds>>

\* os.write raises: OSError leaves spi_transfer at once.
WriteError(c) ==
  /\ pc[c] = "write" /\ Fault
  /\ pc' = [pc EXCEPT ![c] = "raised"]
  /\ UNCHANGED <<fifo, call, n, attempt, buf, calls, alone, mpc, rounds>>

\* The oldest byte of the buffer, or junk when there is none.
Next1 == IF fifo = <<>> THEN Junk ELSE Head(fifo)
Pop == fifo' = IF fifo = <<>> THEN <<>> ELSE Tail(fifo)

Read(c) ==
  /\ pc[c] = "read"
  /\ Pop
  /\ buf' = [buf EXCEPT ![c] = Append(@, Next1)]
  /\ pc' = [pc EXCEPT ![c] = IF Len(buf[c]) + 1 = n[c] THEN "done" ELSE "read"]
  /\ UNCHANGED <<call, n, attempt, calls, alone, mpc, rounds, faults>>

\* Mutant: a failed attempt drains the buffer before the next.
ReadFailAndDrain(c) ==
  /\ pc[c] = "read"
  /\ Fault
  /\ fifo' = <<>>
  /\ Abandon(c)
  /\ UNCHANGED <<mpc, rounds>>

\* os.read raises or returns nothing; the ATtiny may have let the byte go.
ReadFail(c) ==
  /\ pc[c] = "read"
  /\ Fault
  /\ Pop \/ UNCHANGED fifo
  /\ Abandon(c)
  /\ UNCHANGED <<mpc, rounds>>

Transfer(c) ==
  /\ mpc \notin {"closed", "failed"}
  /\ Write(c) \/ WriteShort(c) \/ WriteError(c) \/ Read(c) \/ ReadFail(c)

\* A driver command of a thread.
Command(c, len) ==
  /\ c \in Threads
  /\ mpc \in {"ready", "shutdown", "standby", "flush"}
  /\ calls <= MaxCalls        \* the first call is that of sync_buffer
  /\ Start(c, len)
  /\ UNCHANGED <<fifo, mpc, rounds, faults>>

-----------------------------------------------------------------------------
(* sync_buffer, before the threads start.                                  *)

Sync ==
  /\ mpc = "open"
  /\ Start(Main, 2)
  /\ mpc' = "sync"
  /\ UNCHANGED <<fifo, rounds, faults>>

\* Mutant: the stale bytes are not drained.
SyncWithoutDrain ==
  /\ mpc = "sync"
  /\ pc[Main] \in {"done", "raised"}
  /\ mpc' = IF pc[Main] = "done" THEN "ready" ELSE "failed"
  /\ rounds' = 0
  /\ UNCHANGED <<fifo, client, faults>>

\* The standby command has returned, or has raised: BridgeError makes
\* sync_buffer return False, and OSError leaves it; either way the caller
\* gives up.
SyncTransferred ==
  /\ mpc = "sync"
  /\ pc[Main] \in {"done", "raised"}
  /\ mpc' = IF pc[Main] = "done" THEN "drain" ELSE "failed"
  /\ rounds' = 0
  /\ UNCHANGED <<fifo, client, faults>>

\* One read of the drain.  An empty buffer reads as junk or as an error.
DrainRead ==
  /\ mpc = "drain" /\ rounds < SyncMax
  /\ Pop
  /\ rounds' = rounds + 1
  /\ UNCHANGED <<client, mpc, faults>>

DrainEmpty ==
  /\ mpc = "drain" /\ fifo = <<>>
  /\ mpc' = "ready"
  /\ UNCHANGED <<fifo, client, rounds, faults>>

\* An error with bytes still in the buffer ends the drain all the same.
DrainError ==
  /\ mpc = "drain" /\ rounds < SyncMax /\ fifo # <<>>
  /\ Fault
  /\ mpc' = "ready"
  /\ UNCHANGED <<fifo, client, rounds>>

DrainMax ==
  /\ mpc = "drain" /\ rounds = SyncMax
  /\ mpc' = "ready"
  /\ UNCHANGED <<fifo, client, rounds, faults>>

-----------------------------------------------------------------------------
(* shutdown, while the threads may be in the middle of a transfer.         *)

Shutdown ==
  /\ mpc = "ready"
  /\ mpc' = "shutdown"
  /\ rounds' = 0
  /\ UNCHANGED <<fifo, client, faults>>

\* A round reads one byte, and a second one unless the first was zero.
ShutRound ==
  /\ mpc = "shutdown" /\ rounds < ShutReads
  /\ \/ Pop
     \/ fifo' = IF Len(fifo) < 2 THEN <<>> ELSE SubSeq(fifo, 3, Len(fifo))
  /\ rounds' = rounds + 1
  /\ UNCHANGED <<client, mpc, faults>>

\* After the last round, or after an error.
ShutStandby ==
  /\ mpc = "shutdown"
  /\ (rounds = ShutReads /\ UNCHANGED faults) \/ Fault
  /\ Start(Main, 2)
  /\ mpc' = "standby"
  /\ UNCHANGED <<fifo, rounds>>

ShutTransferred ==
  /\ mpc = "standby"
  /\ pc[Main] \in {"done", "raised"}
  /\ mpc' = IF pc[Main] = "done" THEN "flush" ELSE "closed"
  /\ rounds' = 0
  /\ UNCHANGED <<fifo, client, faults>>

Flush ==
  /\ mpc = "flush" /\ rounds < 4
  /\ Pop
  /\ rounds' = rounds + 1
  /\ UNCHANGED <<client, mpc, faults>>

Close ==
  /\ mpc = "flush"
  /\ (rounds = 4 /\ UNCHANGED faults) \/ Fault
  /\ mpc' = "closed"
  /\ UNCHANGED <<fifo, client, rounds>>

MainThread ==
  \/ Sync \/ SyncTransferred \/ DrainRead \/ DrainEmpty \/ DrainError \/ DrainMax
  \/ Shutdown \/ ShutRound \/ ShutStandby \/ ShutTransferred \/ Flush \/ Close

Next ==
  \/ \E c \in Clients : Transfer(c)
  \/ \E c \in Threads, len \in Lengths : Command(c, len)
  \/ MainThread

Spec == Init /\ [][Next]_vars

-----------------------------------------------------------------------------
(* Properties.                                                             *)

\* NeverStarve: until shutdown reads along, a thread in the read phase of an
\* attempt finds in the buffer the bytes that it, and every other thread in
\* that phase, has yet to read: abandoned attempts and short writes only ever
\* leave bytes behind.  They may be the wrong bytes.
NeverStarve == mpc \in {"sync", "ready"} => Len(fifo) >= Cardinality(Outstanding)

\* OwnIfAlone: after the sync, and as long as no transaction has failed, a
\* call that shared the buffer with no other returns the bytes that answer it:
\* the sync has got rid of what an earlier user had left, and calls that did
\* overlap take as many bytes as they asked for and leave none to later ones.
OwnIfAlone ==
  mpc = "ready" /\ faults = 0 =>
    \A c \in Threads : pc[c] = "done" /\ alone[c] => buf[c] = Answer(call[c], n[c])

\* "Send `out` to SX1262 and return MISO response of the same length" (line
\* 65): what a command returns are the bytes that answer it.
OwnResponse ==
  mpc = "ready" =>
    \A c \in Threads : pc[c] = "done" => buf[c] = Answer(call[c], n[c])
=============================================================================
