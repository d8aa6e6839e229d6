----------------------------- MODULE UdpSession -----------------------------
(***************************************************************************)
(* The Semtech UDP session of lora-pkt-fwd.py: the threads that share its  *)
(* socket, its counters and its queue of downlinks, with the network and   *)
(* the network server they talk to.                                        *)
(*                                                                         *)
(*   pull      sends PULL_DATA every KEEPALIVE_S seconds (_pull_loop)      *)
(*   udp-rx    receives what the server sends (_rx_thread)                 *)
(*   rx-loop   sends PUSH_DATA (_send_push, from _push_loop)               *)
(*   tx-drain  takes downlinks off the queue and counts them               *)
(*   main      stops the process and closes the socket                     *)
(*                                                                         *)
(* What the radio does between those calls is module Forwarder.  A token   *)
(* is drawn for each datagram sent and one is read from each received, but *)
(* nothing compares them: tokens are left out.  Everything is sent to      *)
(* port_up and received on the one socket, so that acknowledgements and    *)
(* responses arrive in one stream.                                         *)
(***************************************************************************)
EXTENDS Naturals, Sequences, FiniteSets

CONSTANTS
  Responses,    \* the bodies of the PULL_RESPs the server may send, those
  Unparsable,   \*   that are no JSON,
  NoObject,     \*   are not an object with an object txpk (msg.get or
                \*   txpk.get raises),
  NoTxpk,       \*   or lack a txpk (or have an empty one)
  None,         \* no snapshot taken
  MaxPush,      \* bound: PUSH_DATAs sent
  MaxArrivals,  \* bound: datagrams that reach the socket
  MaxFaults     \* bound: calls of sendto that raise

ASSUME SessionAssumption ==
  /\ Unparsable \subseteq Responses
  /\ NoObject \subseteq Responses
  /\ NoTxpk \subseteq Responses
  /\ Responses \cap {"ack", "noise"} = {}
  /\ MaxPush \in Nat /\ MaxArrivals \in Nat /\ MaxFaults \in Nat

VARIABLES
  listener,   \* where udp-rx is
  pullpc,     \* where pull is
  pushpc,     \* where rx-loop is in _send_push
  snapshot,   \* rx-loop: the counters _make_stat copied
  drainpc,    \* where tx-drain is
  mpc,        \* where main is
  stat,       \* _stat
  queue,      \* _txpk_queue
  toServer,   \* the kinds of datagrams sent so far
  arrivals,   \* history: the datagrams that reached the socket, in order
  nread,      \* how many of them udp-rx has read
  queued,     \* history: the responses appended to the queue, in order
  pushed,     \* history: the counters in the PUSH_DATAs sent, in order
  faults      \* calls of sendto that raised

listenVars == <<listener, nread, queued>>
pushVars == <<pushpc, snapshot, pushed>>
vars == <<listenVars, pullpc, pushVars, drainpc, mpc, stat, queue,
          toServer, arrivals, faults>>

-----------------------------------------------------------------------------

Counters == {"rxnb", "rxok", "rxfw", "dwnb", "txnb"}
Stat == [Counters -> Nat]

\* What may reach the socket.  "ack" stands for a PUSH_ACK or a PULL_ACK, for
\* which nothing is done, "noise" for what the version and length checks reject.
Datagrams == {"ack", "noise"} \cup Responses

Good == Responses \ (Unparsable \cup NoObject \cup NoTxpk)

TypeOK ==
  /\ listener \in {"top", "recv", "ended"}
  /\ pullpc \in {"top", "send", "wait", "ended"}
  /\ pushpc \in {"radio", "stat", "send", "rxnb", "rxok", "rxfw"}
  /\ snapshot \in Stat \cup {None}
  /\ drainpc \in {"idle", "serving", "txnb", "ended"}
  /\ mpc \in {"run", "stopping", "closed", "exited"}
  /\ stat \in Stat
  /\ queue \in Seq(Good)
  /\ toServer \subseteq {"PUSH_DATA", "PULL_DATA"}
  /\ arrivals \in Seq(Datagrams)
  /\ nread \in 0..Len(arrivals)
  /\ queued \in Seq(Good)
  /\ pushed \in Seq(Stat)
  /\ faults \in 0..MaxFaults

Init ==
  /\ listener = "top" /\ pullpc = "top" /\ pushpc = "radio"
  /\ snapshot = None /\ drainpc = "idle" /\ mpc = "run"
  /\ stat = [c \in Counters |-> 0]
  /\ queue = <<>>
  /\ toServer = {}
  /\ arrivals = <<>> /\ nread = 0
  /\ queued = <<>> /\ pushed = <<>> /\ faults = 0

stopSet == mpc # "run"                        \* _stop.is_set()
alive == mpc # "exited"                       \* daemon threads die with it
sockOpen == mpc \in {"run", "stopping"}

-----------------------------------------------------------------------------
(* _send: under _sock_lock, sendto hands the datagram to the network or    *)
(* raises; on the closed socket it can only raise.                         *)

Sends(kind) ==
  /\ sockOpen
  /\ toServer' = toServer \cup {kind}
  /\ UNCHANGED faults

SendRaises ==
  /\ UNCHANGED toServer
  /\ \/ sockOpen /\ faults < MaxFaults /\ faults' = faults + 1
     \/ ~sockOpen /\ UNCHANGED faults

-----------------------------------------------------------------------------
(* pull.  _send_pull copies the counters too, but sends no body.           *)

PullTop ==
  /\ alive /\ pullpc = "top"
  /\ pullpc' = IF stopSet THEN "ended" ELSE "send"
  /\ UNCHANGED <<listenVars, pushVars, drainpc, mpc, stat, queue, toServer,
                 arrivals, faults>>

\* Mutant: no try around _send_pull.
PullSend_uncaught ==
  /\ alive /\ pullpc = "send"
  /\ \/ Sends("PULL_DATA") /\ pullpc' = "wait"
     \/ SendRaises /\ pullpc' = "ended"
  /\ UNCHANGED <<listenVars, pushVars, drainpc, mpc, stat, queue, arrivals>>

\* An exception is caught and logged, and the loop waits either way.
PullSend ==
  /\ alive /\ pullpc = "send"
  /\ Sends("PULL_DATA") \/ SendRaises
  /\ pullpc' = "wait"
  /\ UNCHANGED <<listenVars, pushVars, drainpc, mpc, stat, queue, arrivals>>

\* _stop.wait(KEEPALIVE_S) returns on the timeout, or as soon as it is set.
PullWait ==
  /\ alive /\ pullpc = "wait"
  /\ pullpc' = "top"
  /\ UNCHANGED <<listenVars, pushVars, drainpc, mpc, stat, queue, toServer,
                 arrivals, faults>>

Pull == PullTop \/ PullSend \/ PullWait

-----------------------------------------------------------------------------
(* udp-rx *)

\* The test of _stop and the call of recvfrom.  An OSError, when main closes
\* the socket between the two, ends the thread as the test would have done.
ListenTop ==
  /\ alive /\ listener = "top"
  /\ listener' = IF stopSet THEN "ended" ELSE "recv"
  /\ UNCHANGED <<nread, queued, pullpc, pushVars, drainpc, mpc, stat, queue,
                 toServer, arrivals, faults>>

\* Mutant: no try around json.loads.
Dispatch_uncaught(d) ==
  CASE d \in Good -> /\ queue' = Append(queue, d)
                     /\ queued' = Append(queued, d)
                     /\ listener' = "top"
    [] d \in NoObject \cup Unparsable ->
                     listener' = "ended" /\ UNCHANGED <<queue, queued>>
    [] OTHER      -> listener' = "top" /\ UNCHANGED <<queue, queued>>

\* Mutant: a response without txpk is queued as it is.
Dispatch_untested(d) ==
  CASE d \in Good \cup NoTxpk -> /\ queue' = Append(queue, d)
                                /\ queued' = Append(queued, d)
                                /\ listener' = "top"
    [] d \in NoObject -> listener' = "ended" /\ UNCHANGED <<queue, queued>>
    [] OTHER          -> listener' = "top" /\ UNCHANGED <<queue, queued>>

\* recvfrom returned d: a response with a txpk is queued; one whose JSON has
\* no get() ends the thread, since only the parse is inside the try; the
\* rest is dropped, the acknowledgements included.
Dispatch(d) ==
  CASE d \in Good     -> /\ queue' = Append(queue, d)
                         /\ queued' = Append(queued, d)
                         /\ listener' = "top"
    [] d \in NoObject -> listener' = "ended" /\ UNCHANGED <<queue, queued>>
    [] OTHER          -> listener' = "top" /\ UNCHANGED <<queue, queued>>

\* recvfrom returns with a datagram and not before: the socket lives as long
\* as a thread is blocked in it, and a close() by main does not wake it.
Receive ==
  /\ alive /\ listener = "recv"
  /\ nread < Len(arrivals)
  /\ nread' = nread + 1
  /\ Dispatch(arrivals[nread + 1])
  /\ UNCHANGED <<pullpc, pushVars, drainpc, mpc, stat, toServer, arrivals,
                 faults>>

Listen == ListenTop \/ Receive

-----------------------------------------------------------------------------
(* rx-loop in _send_push, with the one rxpk it is given.                   *)

\* A frame is to be pushed.
Heard ==
  /\ alive /\ pushpc = "radio"
  /\ Len(pushed) < MaxPush
  /\ pushpc' = "stat"
  /\ UNCHANGED <<listenVars, pullpc, snapshot, pushed, drainpc, mpc, stat,
                 queue, toServer, arrivals, faults>>

\* _make_stat
MakeStat ==
  /\ alive /\ pushpc = "stat"
  /\ snapshot' = stat
  /\ pushpc' = "send"
  /\ UNCHANGED <<listenVars, pullpc, pushed, drainpc, mpc, stat, queue,
                 toServer, arrivals, faults>>

\* Mutant: the three counters of received frames are raised whether or not sendto
\* raised.
PushSend_counted ==
  /\ alive /\ pushpc = "send"
  /\ \/ Sends("PUSH_DATA") /\ pushed' = Append(pushed, snapshot)
     \/ SendRaises /\ UNCHANGED pushed
  /\ pushpc' = "rxnb"
  /\ snapshot' = None
  /\ UNCHANGED <<listenVars, pullpc, drainpc, mpc, stat, queue, arrivals>>

PushSend ==
  /\ alive /\ pushpc = "send"
  /\ \/ /\ Sends("PUSH_DATA")
        /\ pushed' = Append(pushed, snapshot)
        /\ pushpc' = "rxnb"
     \/ /\ SendRaises                        \* PUSH error, logged
        /\ pushpc' = "radio"
        /\ UNCHANGED pushed
  /\ snapshot' = None
  /\ UNCHANGED <<listenVars, pullpc, drainpc, mpc, stat, queue, arrivals>>

\* One += of _send_push: between two of them other threads run.
Count(c, next) ==
  /\ alive /\ pushpc = c
  /\ stat' = [stat EXCEPT ![c] = @ + 1]
  /\ pushpc' = next
  /\ UNCHANGED <<listenVars, pullpc, snapshot, pushed, drainpc, mpc, queue,
                 toServer, arrivals, faults>>

CountPush ==
  Count("rxnb", "rxok") \/ Count("rxok", "rxfw") \/ Count("rxfw", "radio")

-----------------------------------------------------------------------------
(* tx-drain, as far as the session sees it.                                *)

\* Mutant: pop() for pop(0).
DrainTop_last ==
  /\ alive /\ drainpc = "idle"
  /\ ~stopSet
  /\ queue # <<>>
  /\ queue' = SubSeq(queue, 1, Len(queue) - 1)
  /\ drainpc' = "serving"
  /\ UNCHANGED <<listenVars, pullpc, pushVars, mpc, stat, toServer, arrivals,
                 faults>>

DrainTop ==
  /\ alive /\ drainpc = "idle"
  /\ \/ /\ stopSet
        /\ drainpc' = "ended"
        /\ UNCHANGED queue
     \/ /\ ~stopSet
        /\ queue # <<>>
        /\ queue' = Tail(queue)
        /\ drainpc' = "serving"
  /\ UNCHANGED <<listenVars, pullpc, pushVars, mpc, stat, toServer, arrivals,
                 faults>>

\* TX_DONE: dwnb, then txnb.
DrainDone ==
  /\ alive /\ drainpc = "serving"
  /\ stat' = [stat EXCEPT !["dwnb"] = @ + 1]
  /\ drainpc' = "txnb"
  /\ UNCHANGED <<listenVars, pullpc, pushVars, mpc, queue, toServer, arrivals,
                 faults>>

DrainCount ==
  /\ alive /\ drainpc = "txnb"
  /\ stat' = [stat EXCEPT !["txnb"] = @ + 1]
  /\ drainpc' = "idle"
  /\ UNCHANGED <<listenVars, pullpc, pushVars, mpc, queue, toServer, arrivals,
                 faults>>

\* Undecodable, timed out, or the chip or the bus failed.
DrainFails ==
  /\ alive /\ drainpc = "serving"
  /\ drainpc' = "idle"
  /\ UNCHANGED <<listenVars, pullpc, pushVars, mpc, stat, queue, toServer,
                 arrivals, faults>>

-----------------------------------------------------------------------------
(* main *)

\* KeyboardInterrupt ends the wait; the finally clause sets _stop first and
\* closes the socket last.
Stop ==
  /\ mpc = "run" /\ mpc' = "stopping"
  /\ UNCHANGED <<listenVars, pullpc, pushVars, drainpc, stat, queue, toServer,
                 arrivals, faults>>

Close ==
  /\ mpc = "stopping" /\ mpc' = "closed"
  /\ UNCHANGED <<listenVars, pullpc, pushVars, drainpc, stat, queue, toServer,
                 arrivals, faults>>

\* The end of run(), or what ends the process before: SIGTERM, which has no
\* handler, or an OSError of bridge.shutdown() in the finally clause.
Exit ==
  /\ alive /\ mpc' = "exited"
  /\ UNCHANGED <<listenVars, pullpc, pushVars, drainpc, stat, queue, toServer,
                 arrivals, faults>>

-----------------------------------------------------------------------------
(* External: a server that acknowledges what it receives and sends its     *)
(* downlinks to a gateway that has asked for them; and a network that      *)
(* delivers any datagram late, never or any number of times, in any order. *)

Answers ==
  {"noise"}
  \cup (IF toServer # {} THEN {"ack"} ELSE {})
  \cup (IF "PULL_DATA" \in toServer THEN Responses ELSE {})

Arrive ==
  /\ sockOpen \/ (alive /\ listener = "recv")
  /\ Len(arrivals) < MaxArrivals
  /\ \E d \in Answers : arrivals' = Append(arrivals, d)
  /\ UNCHANGED <<listenVars, pullpc, pushVars, drainpc, mpc, stat, queue,
                 toServer, faults>>

-----------------------------------------------------------------------------

Next ==
  \/ Pull
  \/ Listen
  \/ Heard \/ MakeStat \/ PushSend \/ CountPush
  \/ DrainTop \/ DrainDone \/ DrainCount \/ DrainFails
  \/ Stop \/ Close \/ Exit
  \/ Arrive

\* Threads that can run do run; nothing is assumed of tx-drain, of rx-loop,
\* of main, of the network or of the server.
Fairness == WF_vars(Pull) /\ WF_vars(Listen)

Spec == Init /\ [][Next]_vars
LiveSpec == Spec /\ Fairness

-----------------------------------------------------------------------------
(* Safety *)

\* The counters a PUSH_DATA reports were copied before it was sent, while
\* tx-drain counts in two steps: they count exactly the frames pushed before
\* this one, whatever sendto did with others; they never show more downlinks
\* sent than taken up, and at most the one being counted less; and what a
\* later PUSH_DATA reports is never less than what an earlier one did.
ReportsCount ==
  \A n \in DOMAIN pushed :
    /\ \A c \in {"rxnb", "rxok", "rxfw"} : pushed[n][c] = n - 1
    /\ pushed[n]["dwnb"] - pushed[n]["txnb"] \in {0, 1}
    /\ \A m \in 1..n : \A c \in Counters : pushed[m][c] <= pushed[n][c]

\* What has left the queue is what came first.
FirstOut == queue = SubSeq(queued, Len(queued) - Len(queue) + 1, Len(queued))

\* Which of the first n arrivals are responses with a txpk.
GoodAmong(n) == {k \in 1..n : arrivals[k] \in Good}

\* Whatever arrives in between, and although tx-drain shortens the queue that
\* udp-rx lengthens, the responses with a txpk are queued once per arrival
\* and in the order of arrival, and leave the queue in that order: a copy
\* the network made is a downlink of its own, nothing else ever is.
QueuedInOrder ==
  /\ Len(queued) = Cardinality(GoodAmong(nread))
  /\ \A k \in GoodAmong(nread) : queued[Cardinality(GoodAmong(k))] = arrivals[k]
  /\ FirstOut

-----------------------------------------------------------------------------
(* Liveness *)

\* Until the process is told to stop the gateway asks for downlinks again and
\* again, although calls of sendto may raise and udp-rx may have ended.
KeepaliveGoesOn == <>stopSet \/ []<><<PullSend>>_vars

\* Every datagram that reached the socket is handled, unless the process is
\* told to stop or a response that is no object came first: no other content
\* and no other thread's failure may end udp-rx.
ArrivalsHandled ==
  \A n \in 1..MaxArrivals :
    Len(arrivals) >= n
      ~> \/ stopSet
         \/ nread >= n
         \/ \E k \in DOMAIN arrivals : k < n /\ arrivals[k] \in NoObject

=============================================================================
