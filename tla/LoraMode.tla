------------------------------ MODULE LoraMode ------------------------------
(***************************************************************************)
(* The switch between the two roles of the phone: the command line tool    *)
(* lora-mode, install.sh, the mode file and the two systemd units, which   *)
(* drive the same radio.  One action per command that the tool or the      *)
(* script runs, since each may fail, the user may interrupt between any    *)
(* two, and nothing keeps two calls, or a call and the script, apart.      *)
(***************************************************************************)

CONSTANTS
  Calls,       \* the calls of lora-mode that may be in progress together
  Users,       \* who may make them: "root" may write the file, "user" not
  Failures,    \* a command may fail: sudo, systemctl, tee
  Interrupts,  \* a call or an installation may be interrupted
  Reboots,     \* the phone may be rebooted
  Reinstalls   \* install.sh may be run again

ASSUME ModeAssumption ==
  /\ Users \subseteq {"root", "user"}
  /\ Failures \in BOOLEAN /\ Interrupts \in BOOLEAN
  /\ Reboots \in BOOLEAN /\ Reinstalls \in BOOLEAN

VARIABLES
  file,     \* what the mode file holds
  unit,     \* unit[m]: the state of the service of mode m
  enabled,  \* the services enabled at boot
  ipc,      \* where install.sh is
  pc,       \* pc[c]: where the call c of lora-mode set is
  current,  \* current[c]: the mode it read
  target,   \* target[c]: the mode it was given
  unsure,   \* history: its stop or start failed, or what it stopped was started
  alone,    \* history: neither another call nor install.sh has run beside it
  blind,    \* history: the last start was of one that was not sure
  doubt     \* history: something went wrong since a call that was alone and sure

locals == <<current, target, unsure, alone>>
cli == <<pc, locals>>
vars == <<file, unit, enabled, ipc, cli, blind, doubt>>

Mode == {"gateway", "node"}
Other(m) == IF m = "gateway" THEN "node" ELSE "gateway"

\* No file, a truncated one, and what write_mode's tee leaves in it: the
\* password that run() feeds to the standard input of every sudo.
Contents == Mode \cup {"absent", "empty", "147147"}

TypeOK ==
  /\ file \in Contents
  /\ unit \in [Mode -> {"stopped", "running", "restarting"}]
  /\ enabled \in SUBSET Mode
  /\ ipc \in {"mode", "enable1", "enable2", "start", "done"}
  /\ pc \in [Calls -> {"idle", "stop", "start", "tee", "open", "write"}]
  /\ current \in [Calls -> Contents]
  /\ target \in [Calls -> Mode]
  /\ unsure \in [Calls -> BOOLEAN] /\ alone \in [Calls -> BOOLEAN]
  /\ blind \in BOOLEAN /\ doubt \in BOOLEAN

Init ==
  /\ file = "absent"
  /\ unit = [m \in Mode |-> "stopped"]
  /\ enabled = {}
  /\ ipc = "mode"
  /\ pc = [c \in Calls |-> "idle"]
  /\ current = [c \in Calls |-> "absent"] /\ target = [c \in Calls |-> "gateway"]
  /\ unsure = [c \in Calls |-> FALSE] /\ alone = [c \in Calls |-> FALSE]
  /\ blind = FALSE /\ doubt = FALSE

Idle == \A c \in Calls : pc[c] = "idle"

\* A call that has read a mode, and of which nothing went wrong so far.
Sure(c) == current[c] \in Mode /\ ~unsure[c]

\* What the calls that have just stopped m know when m is started after all.
UnsureAfter(m) ==
  [c \in Calls |-> unsure[c] \/ (pc[c] = "start" /\ current[c] = m)]

-----------------------------------------------------------------------------
(* install.sh, from where the mode file is looked at.                      *)

InstallMode ==
  /\ ipc = "mode"
  /\ file' = IF file = "absent" THEN "gateway" ELSE file
  /\ ipc' = "enable1"
  /\ UNCHANGED <<unit, enabled, cli, blind, doubt>>

InstallEnableGateway ==
  /\ ipc = "enable1"
  /\ enabled' = enabled \cup {"gateway"}
  /\ ipc' = "enable2"
  /\ UNCHANGED <<file, unit, cli, blind, doubt>>

InstallEnableNode ==
  /\ ipc = "enable2"
  /\ enabled' = enabled \cup {"node"}
  /\ ipc' = "start"
  /\ UNCHANGED <<file, unit, cli, blind, doubt>>

\* Starting a unit that runs is no change.  Nothing stops the other one.
InstallStart ==
  /\ ipc = "start"
  /\ \/ /\ file \in Mode
        /\ unit' = [unit EXCEPT ![file] = "running"]
        /\ unsure' = UnsureAfter(file)
        /\ blind' = (unit[Other(file)] # "stopped")
     \/ file \notin Mode /\ UNCHANGED <<unit, unsure, blind>>
  /\ ipc' = "done"
  /\ UNCHANGED <<file, enabled, pc, current, target, alone, doubt>>

\* set -e: a command that fails ends the script, as an interrupt does.
InstallEnds ==
  /\ Failures \/ Interrupts
  /\ ipc # "done"
  /\ ipc' = "done"
  /\ doubt' = TRUE
  /\ UNCHANGED <<file, unit, enabled, cli, blind>>

InstallAgain ==
  /\ Reinstalls /\ ipc = "done"
  /\ ipc' = "mode"
  /\ alone' = [c \in Calls |-> FALSE]
  /\ doubt' \in {doubt, TRUE}
  /\ doubt' \/ Idle
  /\ UNCHANGED <<file, unit, enabled, pc, current, target, unsure, blind>>

Install ==
  \/ InstallMode \/ InstallEnableGateway \/ InstallEnableNode \/ InstallStart
  \/ InstallEnds

-----------------------------------------------------------------------------
(* lora-mode set.                                                          *)

At(c, here, next) == pc[c] = here /\ pc' = [pc EXCEPT ![c] = next]

\* cmd_set: read_mode, the early return, and which stop comes first.
Set(c, m) ==
  /\ pc[c] = "idle" /\ file # m
  /\ pc' = [pc EXCEPT ![c] = IF file \in Mode THEN "stop" ELSE "start"]
  /\ target' = [target EXCEPT ![c] = m]
  /\ current' = [current EXCEPT ![c] = file]
  /\ unsure' = [unsure EXCEPT ![c] = FALSE]
  /\ \/ /\ Idle /\ ipc = "done"
        /\ alone' = [alone EXCEPT ![c] = TRUE]
        /\ UNCHANGED doubt
     \/ /\ ~(Idle /\ ipc = "done")
        /\ alone' = [d \in Calls |-> FALSE]
        /\ doubt' = TRUE
  /\ UNCHANGED <<file, unit, enabled, ipc, blind>>

\* A systemctl of the call fails, which nobody looks at (check=False).
Unnoticed(c) ==
  /\ Failures
  /\ unsure' = [unsure EXCEPT ![c] = TRUE]
  /\ doubt' = TRUE
  /\ UNCHANGED <<unit, blind>>

\* Mutant: the services are started and stopped in the wrong order.
SetStopTarget(c) ==
  /\ At(c, "stop", "start")
  /\ \/ /\ unit' = [unit EXCEPT ![target[c]] = "stopped"]
        /\ UNCHANGED <<unsure, blind, doubt>>
     \/ Unnoticed(c)
  /\ UNCHANGED <<file, enabled, ipc, current, target, alone>>

\* systemctl stop.
SetStop(c) ==
  /\ At(c, "stop", "start")
  /\ \/ /\ unit' = [unit EXCEPT ![current[c]] = "stopped"]
        /\ UNCHANGED <<unsure, blind, doubt>>
     \/ Unnoticed(c)
  /\ UNCHANGED <<file, enabled, ipc, current, target, alone>>

\* systemctl start.
SetStart(c) ==
  /\ At(c, "start", "tee")
  /\ \/ /\ unit' = [unit EXCEPT ![target[c]] = "running"]
        /\ unsure' = UnsureAfter(target[c])
        /\ blind' = ~Sure(c)
        /\ doubt' \in {doubt, TRUE}
        /\ doubt' \/ Sure(c)
     \/ Unnoticed(c)
  /\ UNCHANGED <<file, enabled, ipc, current, target, alone>>

\* write_mode: tee copies its standard input to the file; what comes of it is
\* not looked at either.
SetTee(c) ==
  /\ At(c, "tee", "open")
  /\ file' \in IF Failures THEN {file, "empty", "147147"} ELSE {"147147"}
  /\ UNCHANGED <<unit, enabled, ipc, locals, blind, doubt>>

\* The call ends and forgets what it knew.
Ends(c) ==
  /\ pc' = [pc EXCEPT ![c] = "idle"]
  /\ current' = [current EXCEPT ![c] = "absent"]
  /\ target' = [target EXCEPT ![c] = "gateway"]
  /\ unsure' = [unsure EXCEPT ![c] = FALSE]
  /\ alone' = [alone EXCEPT ![c] = FALSE]

\* open(MODE_FILE, "w") truncates; only root may.
SetOpen(c) ==
  /\ "root" \in Users
  /\ At(c, "open", "write")
  /\ file' = "empty"
  /\ UNCHANGED <<unit, enabled, ipc, locals, blind, doubt>>

SetOpenRaises(c) ==
  /\ "user" \in Users
  /\ pc[c] = "open" /\ Ends(c)
  /\ doubt' = TRUE
  /\ UNCHANGED <<file, unit, enabled, ipc, blind>>

\* The call has written the file.
Written(c) ==
  /\ pc[c] = "write" /\ Ends(c)
  /\ doubt' = (doubt /\ ~(alone[c] /\ Sure(c)))
  /\ UNCHANGED <<unit, enabled, ipc, blind>>

\* Mutant: the mode that was read is written back.
SetWriteCurrent(c) == Written(c) /\ file' = current[c]

\* Mutant: the mode is written the way it is printed.
SetWriteUpper(c) ==
  /\ Written(c)
  /\ file' = IF target[c] = "gateway" THEN "GATEWAY" ELSE "NODE"

SetWrite(c) == Written(c) /\ file' = target[c]

\* ^C, a lost terminal, a killed process.
SetInterrupted(c) ==
  /\ Interrupts /\ pc[c] # "idle" /\ Ends(c)
  /\ doubt' = TRUE
  /\ UNCHANGED <<file, unit, enabled, ipc, blind>>

SetStep(c) ==
  \/ SetStop(c) \/ SetStart(c) \/ SetTee(c)
  \/ SetOpen(c) \/ SetOpenRaises(c) \/ SetWrite(c) \/ SetInterrupted(c)

-----------------------------------------------------------------------------
(* systemd: Restart=on-failure, RestartSec=5, WantedBy=multi-user.target.  *)

Fail(m) ==
  /\ unit[m] = "running"
  /\ unit' = [unit EXCEPT ![m] = "restarting"]
  /\ UNCHANGED <<file, enabled, ipc, cli, blind, doubt>>

Restart(m) ==
  /\ unit[m] = "restarting"
  /\ unit' = [unit EXCEPT ![m] = "running"]
  /\ UNCHANGED <<file, enabled, ipc, cli, blind, doubt>>

Boot ==
  /\ Reboots
  /\ unit' = [m \in Mode |-> IF m \in enabled THEN "running" ELSE "stopped"]
  /\ blind' = (enabled = Mode)
  /\ doubt' = TRUE
  /\ ipc' = "done"
  /\ pc' = [c \in Calls |-> "idle"]
  /\ current' = [c \in Calls |-> "absent"] /\ target' = [c \in Calls |-> "gateway"]
  /\ unsure' = [c \in Calls |-> FALSE] /\ alone' = [c \in Calls |-> FALSE]
  /\ UNCHANGED <<file, enabled>>

Next ==
  \/ Install
  \/ InstallAgain
  \/ \E c \in Calls : SetStep(c) \/ \E m \in Mode : Set(c, m)
  \/ \E m \in Mode : Fail(m) \/ Restart(m)
  \/ Boot

Spec == Init /\ [][Next]_vars

-----------------------------------------------------------------------------
(* Properties.                                                             *)

\* "Swaps which systemd unit runs" (lora-mode line 5): the two services, which
\* would take each other's bytes from the bridge, never run together.
OneRadioUser ==
  \A m \in Mode : unit[m] # "stopped" => unit[Other(m)] = "stopped"

\* StopBeforeStart: the services run together only if the last start was of a
\* call that found no valid mode in the file, whose stop had failed, or whose
\* stop another start undid; of a boot with both enabled; or of an install.sh
\* over a stale file.  Stale files, overlapping and interrupted calls, starts
\* that fail, services that fail and restarts do not bring it about, and the
\* next start that is sure of its stop ends it.
StopBeforeStart == ~blind => OneRadioUser

\* FileIsTruth: "Single source of truth: /etc/lora-pkt-fwd/mode" (lora-mode
\* line 4).  Between the calls the mode in the file is the one that runs, and
\* the only one, unless something has gone wrong; and whatever went wrong, a
\* call that finds a mode in the file, whose stop and start succeed, that is
\* alone and comes to its end makes it so again.
FileIsTruth ==
  ~doubt /\ Idle /\ ipc = "done" =>
    /\ file \in Mode
    /\ unit[file] # "stopped" /\ unit[Other(file)] = "stopped"
=============================================================================
