----------------------------- MODULE KeaControl -----------------------------
(***************************************************************************)
(* Testing and applying a configuration (_test_config_impl,                *)
(* _apply_config_impl and _reload_via_control_socket in                    *)
(* ez_kea/routes/system.py, send_command in ez_kea/core/kea_ctrl.py), on   *)
(* top of ConfigStore: an apply takes no lock, so saves, restores and      *)
(* repoints of the same file interleave with each of its steps.            *)
(*                                                                         *)
(* Kea is external.  It re-reads the file it was started with, which is    *)
(* not the one EZ-KEA's pointer names once somebody has repointed EZ-KEA,  *)
(* and it does so when it gets to it.                                      *)
(***************************************************************************)
EXTENDS ConfigStore

CONSTANTS
  Applies,     \* apply requests, each served once
  Strategies,  \* reload strategies in use, a subset of AllStrategies
  KeaFile      \* KeaFile[v]: the file Kea's daemon for v was started with

\* keactrl and docker kill only deliver a signal: Kea's verdict is not reported.
AllStrategies == {"control-socket", "signal"}

ASSUME KeaControlAssumption ==
  /\ Applies \cap Requests = {}
  /\ Strategies \subseteq AllStrategies
  /\ KeaFile \in [Versions -> Paths]
  /\ \A v \in Versions : VersionOf[KeaFile[v]] = v

VARIABLES
  running,  \* running[v]: the configuration Kea runs
  queued,   \* the applies whose reload command Kea has not executed yet
  apc,      \* where each apply is
  aver,     \* the DHCP version it is for
  verdict,  \* what Kea made of its reload command
  touched   \* history: Kea's file has changed, or is not EZ-KEA's, since it arrived

kea  == <<running, queued, verdict>>
ctrl == <<kea, apc, aver, touched>>

APCs      == {"idle", "test", "reload", "send", "sent"} \cup Results
Applying  == {"test", "reload", "send", "sent"}
Verdicts  == {"none", "loaded", "refused"}

KeaInit ==
  /\ running = [v \in Versions |->
       IF file[KeaFile[v]] = Absent THEN Skeleton ELSE file[KeaFile[v]]]
  /\ queued = {}
  /\ apc = [a \in Applies |-> "idle"]
  /\ aver = [a \in Applies |-> CHOOSE v \in Versions : TRUE]
  /\ verdict = [a \in Applies |-> "none"]
  /\ touched = [a \in Applies |-> FALSE]

Step(a, label) == apc' = [apc EXCEPT ![a] = label]

-----------------------------------------------------------------------------
(* An apply *)

ArriveApply(a) ==
  /\ apc[a] = "idle"
  /\ \E v \in Versions :
       /\ aver' = [aver EXCEPT ![a] = v]
       /\ touched' = [touched EXCEPT ![a] = conf[v] # KeaFile[v]]
  /\ Step(a, "test")
  /\ UNCHANGED <<kea, vars>>

\* kea-dhcpX -t on the file EZ-KEA points to.  It passes only a whole one; the
\* command may be misconfigured or missing, and Kea may find a whole file wrong.
Test(a) ==
  /\ apc[a] = "test"
  /\ \/ file[conf[aver[a]]].state = "whole" /\ Step(a, "reload")
     \/ Step(a, "failed")
  /\ UNCHANGED <<kea, aver, touched, vars>>

\* keactrl reload, or docker kill -s HUP: done once the signal is delivered.
Signal(a) ==
  /\ apc[a] = "reload"
  /\ "signal" \in Strategies
  /\ \/ queued' = queued \cup {a} /\ Step(a, "ok")
     \/ UNCHANGED queued /\ Step(a, "failed")
  /\ UNCHANGED <<running, verdict, aver, touched, vars>>

\* The control socket's path is looked up in the file, without its lock; the
\* skeleton that stands for an empty file has one, a whole file may have none.
FindSocket(a) ==
  /\ apc[a] = "reload"
  /\ "control-socket" \in Strategies
  /\ \/ Parses(file[conf[aver[a]]]) /\ Step(a, "send")
     \/ Step(a, "failed")
  /\ UNCHANGED <<kea, aver, touched, vars>>

SendReload(a) ==
  /\ apc[a] = "send"
  /\ \/ queued' = queued \cup {a} /\ Step(a, "sent")
     \/ UNCHANGED queued /\ Step(a, "failed")
  /\ UNCHANGED <<running, verdict, aver, touched, vars>>

\* The answer is read and believed.
Answer(a) ==
  /\ apc[a] = "sent"
  /\ verdict[a] # "none"
  /\ Step(a, IF verdict[a] = "loaded" THEN "ok" ELSE "failed")
  /\ UNCHANGED <<kea, aver, touched, vars>>

\* Faulty: an answer that does not come in time is taken for success.
TimeOutHopefully(a) ==
  /\ apc[a] = "sent"
  /\ Step(a, "ok")
  /\ UNCHANGED <<kea, aver, touched, vars>>

\* Faulty: recv without a timeout.
NeverTimeOut(a) == FALSE

\* Five seconds without an answer, or a broken one.  The command stays sent.
TimeOut(a) ==
  /\ apc[a] = "sent"
  /\ Step(a, "failed")
  /\ UNCHANGED <<kea, aver, touched, vars>>

ServeApply(a) ==
  \/ Test(a) \/ Signal(a) \/ FindSocket(a) \/ SendReload(a)
  \/ Answer(a) \/ TimeOut(a)

-----------------------------------------------------------------------------
(* Kea (external) executes a command: it loads its file if that is one, and *)
(* goes on with the configuration it has if not.                            *)
Reload(a) ==
  LET v == aver[a]
      c == file[KeaFile[v]] IN
  /\ a \in queued
  /\ queued' = queued \ {a}
  /\ \/ /\ c.state = "whole"
        /\ running' = [running EXCEPT ![v] = c]
        /\ verdict' = [verdict EXCEPT ![a] = "loaded"]
     \/ /\ verdict' = [verdict EXCEPT ![a] = "refused"]
        /\ UNCHANGED running
  /\ UNCHANGED <<apc, aver, touched, vars>>

-----------------------------------------------------------------------------
(* Everything else *)

\* A change of Kea's file or of EZ-KEA's pointer while an apply is under way.
Touch ==
  touched' = [a \in Applies |->
    \/ touched[a]
    \/ /\ apc[a] \in Applying
       /\ \/ file'[KeaFile[aver[a]]] # file[KeaFile[aver[a]]]
          \/ conf'[aver[a]] # conf[aver[a]]]

\* A request on the configuration files takes a step.
Edit == /\ \E r \in Requests : View(r) \/ Arrive(r) \/ Serve(r)
        /\ Touch
        /\ UNCHANGED <<kea, aver, apc>>

\* The process is lost; Kea and the commands it has been sent are not.
LoseProcess ==
  /\ "crash" \in Faults
  /\ \/ \E r \in Requests : pc[r] \in InFlight
     \/ \E a \in Applies : apc[a] \in Applying
  /\ Restart
  /\ Touch
  /\ apc' = [a \in Applies |-> IF apc[a] \in Applying THEN "dead" ELSE apc[a]]
  /\ UNCHANGED <<kea, aver>>

AllAnswered ==
  /\ \A r \in Requests : pc[r] \in Results
  /\ \A a \in Applies : apc[a] \in Results
  /\ queued = {}
  /\ UNCHANGED <<vars, ctrl>>

KeaNext ==
  \/ Edit
  \/ \E a \in Applies : ArriveApply(a) \/ ServeApply(a) \/ Reload(a)
  \/ LoseProcess
  \/ AllAnswered

\* Threads run, and a test or signal command ends.  Kea owes nothing.
KeaFairness == Fairness /\ \A a \in Applies : WF_<<vars, ctrl>>(ServeApply(a))

KeaSpec == Init /\ KeaInit /\ [][KeaNext]_<<vars, ctrl>> /\ KeaFairness
-----------------------------------------------------------------------------
(* Properties *)

KeaTypeOK ==
  /\ TypeOK
  /\ running \in [Versions -> Content]
  /\ queued \subseteq Applies
  /\ apc \in [Applies -> APCs]
  /\ aver \in [Applies -> Versions]
  /\ verdict \in [Applies -> Verdicts]
  /\ touched \in [Applies -> BOOLEAN]

\* When an apply over the control socket answers that Kea was reloaded, and
\* nobody touched Kea's file or EZ-KEA's pointer meanwhile, Kea runs what the
\* file holds: "Unlike SIGHUP it reports back whether the reload actually
\* succeeded" (system.py:450).
AppliedMeansRunning ==
  [][\A a \in Applies :
       (apc[a] = "sent" /\ apc'[a] = "ok" /\ ~touched[a])
         => running[aver[a]] = file[KeaFile[aver[a]]]]_<<vars, ctrl>>

\* Whatever moment of a save Kea reads the file at, it only ever runs edits
\* that were written in full, if perhaps not answered yet: one that was refused,
\* or whose write failed or died half-way, never reaches the network through an
\* apply (save_json's flush comes last, and Kea takes no torn file).
OnlyWrittenEditsRun ==
  \A v \in Versions : \A t \in running[v].edits \cap Requests : Written(t)

\* Every apply is answered although Kea may never answer it, and although it
\* may run beside any save, restore, repoint and failure.
EveryApplyAnswered ==
  \A a \in Applies : (apc[a] = "test") ~> (apc[a] \in Results)
=============================================================================
