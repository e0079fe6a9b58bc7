-------------------------------- MODULE MCDaemon --------------------------------
(***************************************************************************)
(* DaemonRuntime for TLC.  A behaviour is about one run through crashes,   *)
(* about two runs that end next to each other in a daemon that lives, or   *)
(* about an import beside the commands of one run.                         *)
(***************************************************************************)
EXTENDS DaemonRuntime

CONSTANT Alone      \* the run of the first and the last kind
VARIABLE kind

DaemonInit == Init /\ kind \in {"alone", "several", "importing"}

NoSweepsOrDrifts == /\ command.what # "sweep"
                    /\ \A r \in Runs : world.run[r] # "paused"
                    /\ \A i \in DOMAIN channel : channel[i].what # "drift"

\* Bounds: one run with crashes, sweeps, drifts, other commands and any failure
\* of a save; or two runs, drawn in order, without all that; or one run with an
\* import, commands, any failure of a save and one crash.
Within == CASE kind = "alone" -> used \subseteq {Alone} /\ world.agents = {}
            [] kind = "several" ->
                 /\ NoSweepsOrDrifts /\ crashes = 0 /\ world.things = {} /\ world.agents = {}
                 /\ used # {} => Alone \in used
                 /\ \A c \in refused : c[3] = "early"
            [] kind = "importing" ->
                 NoSweepsOrDrifts /\ used \subseteq {Alone} /\ crashes <= 1

DaemonNext == Next /\ UNCHANGED kind /\ Within'

\* The fairness of FairSpec: the bounds are on commands, imports and crashes only.
DaemonSpec == /\ DaemonInit /\ [][DaemonNext]_<<vars, kind>>
              /\ WF_vars(Kill \/ Answer) /\ WF_vars(Receive \/ Keep) /\ SF_vars(Apply)
              /\ \A r \in Runs : WF_vars(Session(r))
================================================================================
