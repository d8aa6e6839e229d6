-------------------------- MODULE DownlinkService --------------------------
(***************************************************************************)
(* What a forwarder promises a network server about downlinks, whatever    *)
(* the radio, the bridge and the other threads do: the payloads are taken  *)
(* in the order they were accepted, one at a time; one that cannot be      *)
(* decoded is dropped; and a payload that was taken goes on the air once,  *)
(* before the next one is taken.  It goes on the air again only when the   *)
(* transfer that put it there has failed, so that nobody can know it did,  *)
(* and never after a transfer that succeeded or was given up.              *)
(*                                                                         *)
(* This is the abstraction of PacketForwarder._txpk_queue, _rx_thread and  *)
(* _tx_drain_loop; Forwarder implements it.                                *)
(***************************************************************************)
EXTENDS Naturals, Sequences

CONSTANTS Downlinks, Undecodable, None

VARIABLES
  accepted,   \* every payload accepted so far, in order
  taken,      \* how many of them the service has taken
  serving,    \* the payload being served, None between two
  sends,      \* how often the one being served was put on the air
  settled,    \* it will not be put on the air any more
  failures    \* how many transfers to the radio have failed

vars == <<accepted, taken, serving, sends, settled, failures>>

Init ==
  /\ accepted = <<>>
  /\ taken = 0
  /\ serving = None
  /\ sends = 0 /\ settled = FALSE
  /\ failures = 0

Accept(d) ==
  /\ accepted' = Append(accepted, d)
  /\ UNCHANGED <<taken, serving, sends, settled, failures>>

Take ==
  /\ serving = None
  /\ taken < Len(accepted)
  /\ taken' = taken + 1
  /\ UNCHANGED <<accepted, sends, settled, failures>>

Begin ==
  /\ Take
  /\ accepted[taken + 1] \notin Undecodable
  /\ serving' = accepted[taken + 1]

Discard ==
  /\ Take
  /\ accepted[taken + 1] \in Undecodable
  /\ UNCHANGED serving

\* The transfer that starts the transmission returns, which settles the
\* matter; or it fails, and is given up or will be repeated.
Transmit ==
  /\ serving # None /\ ~settled
  /\ sends' = sends + 1
  /\ settled' \in BOOLEAN
  /\ failures' \in {failures, failures + 1}
  /\ settled' \/ failures' = failures + 1
  /\ UNCHANGED <<accepted, taken, serving>>

\* The service of a payload is given up before (another) transmission.
GiveUp ==
  /\ serving # None /\ ~settled
  /\ settled' = TRUE
  /\ failures' \in {failures, failures + 1}
  /\ UNCHANGED <<accepted, taken, serving, sends>>

Finish ==
  /\ serving # None /\ settled
  /\ serving' = None
  /\ sends' = 0 /\ settled' = FALSE
  /\ UNCHANGED <<accepted, taken, failures>>

\* Any other transfer fails.
Fail ==
  /\ failures' = failures + 1
  /\ UNCHANGED <<accepted, taken, serving, sends, settled>>

Next ==
  \/ \E d \in Downlinks : Accept(d)
  \/ Begin
  \/ Discard
  \/ Transmit
  \/ GiveUp
  \/ Finish
  \/ Fail

Spec == Init /\ [][Next]_vars
=============================================================================
