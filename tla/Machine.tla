------------------------------- MODULE Machine -------------------------------
(***************************************************************************)
(* What lives on the user's machine beside the reviews: the binaries, the  *)
(* hooks, Claude's setup session and the credentials.  The parts share no  *)
(* state (an update runs `hooks install`, a setup worker runs `lrc setup`: *)
(* both are commands that may start at any time in the part they belong    *)
(* to), so that one part moves in each behaviour and the others rest.      *)
(***************************************************************************)
EXTENDS SelfUpdate, HookInstall, ClaudeSetup, AuthConfig

VARIABLE part     \* the part that moves

machineVars == <<part, updateVars, hookVars, claudeVars, authVars>>

MachineInit ==
  /\ part \in {"update", "hooks", "claude", "auth"}
  /\ UpdateInit /\ HooksInit /\ ClaudeInit /\ AuthInit
  \* A part that rests has one initial state.
  /\ part # "update" => /\ release = 1 /\ bin.git = Absent
                        /\ \A c \in Command : run[c].at = "absent"
  /\ part # "hooks"  => mine = (CHOOSE m \in Homes : TRUE) /\ \A o \in Op : op[o].plan = NoOp
  /\ part # "claude" => status = "idle"
  /\ part # "auth"   => /\ file = (CHOOSE f \in Files : TRUE) /\ live = {} /\ keys = {} /\ ai = {}
                        /\ \A c \in Client : cl[c].plan = NoPlan
  \* A part that moves has something to do.
  /\ part = "update" => \E c \in Command : run[c].at # "absent"
  /\ part = "hooks"  => \E o \in Op : op[o].plan # NoOp
  /\ part = "auth"   => \E c \in Client : cl[c].plan # NoPlan

MachineNext ==
  \/ part = "update" /\ UpdateNext /\ UNCHANGED <<part, hookVars, claudeVars, authVars>>
  \/ part = "hooks"  /\ HooksNext  /\ UNCHANGED <<part, updateVars, claudeVars, authVars>>
  \/ part = "claude" /\ ClaudeNext /\ UNCHANGED <<part, updateVars, hookVars, authVars>>
  \/ part = "auth"   /\ AuthNext   /\ UNCHANGED <<part, updateVars, hookVars, claudeVars>>

MachineSpec == MachineInit /\ [][MachineNext]_machineVars
=============================================================================
