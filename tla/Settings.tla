------------------------------ MODULE Settings ------------------------------
(***************************************************************************)
(* The settings file and the running application's copy of it              *)
(* (ez_kea/core/settings_manager.py, discovery.py, create_app, and         *)
(* _save_app_settings_impl in ez_kea/routes/system.py).                    *)
(*                                                                         *)
(* One file holds both daemons' settings.  A save holds the lock of its    *)
(* own daemon's configuration file, so a DHCPv4 save and a DHCPv6 save     *)
(* overlap: each loads the file, replaces its fields and writes all of it. *)
(*                                                                         *)
(* Settings are abstracted to one field of each sort: per version the path *)
(* of the configuration (config), a command (cmd, which the paths inside a *)
(* container accompany) and the paths of the leases and the log (paths),   *)
(* and one field both versions save (ctrl: the control command, the reload *)
(* strategy and the container).  The path a repoint is given is outside    *)
(* the sandbox.                                                            *)
(***************************************************************************)
EXTENDS Naturals, FiniteSets

CONSTANTS
  Requests,   \* posts of the settings form, each served once
  Versions,   \* DHCP versions
  Installed,  \* the versions whose Kea discovery finds on this host
  Kinds,      \* a subset of AllKinds
  Forms,      \* bound: which fields a form may fill in, the others left blank
  Faults      \* a subset of AllFaults

AllKinds  == {"save", "repoint"}
Fields    == {"cmd", "paths", "ctrl"}
AllFaults == {"write_fails", "crash"}

ASSUME SettingsAssumption ==
  /\ Versions # {}
  /\ Installed \subseteq Versions
  /\ Requests \cap {"default", "found"} = {}
  /\ Kinds \subseteq AllKinds
  /\ Forms \subseteq SUBSET Fields
  /\ Faults \subseteq AllFaults

VARIABLES
  sfile,    \* the settings file: [state, data]
  live,     \* app.config
  pc, kind, ver,
  key,      \* the configuration file whose lock the request waits for or holds
  cur,      \* current_config_file, the pointer as the handler found it
  new,      \* new_settings
  spoiled,  \* history: two requests overlapped, or the file was read unparsable
  astray    \* history: one of the two was a repoint, or one found nothing to keep

vars == <<sfile, live, pc, kind, ver, key, cur, new, spoiled, astray>>

Value  == {"default", "found"} \cup Requests
Record == [config : [Versions -> Value], cmd : [Versions -> Value],
           paths : [Versions -> Value], ctrl : Value]

PCs == {"idle", "wait", "entered", "open", "write", "apply", "configure", "done"}
InFlight == PCs \ {"idle", "done"}
Holding  == InFlight \ {"wait"}
Unwritten == {"open", "write"}

-----------------------------------------------------------------------------
(* Reading the settings *)

\* _DEFAULTS: the sandbox under ./data, standard commands.
Defaults == [config |-> [v \in Versions |-> "default"],
             cmd    |-> [v \in Versions |-> "default"],
             paths  |-> [v \in Versions |-> "default"],
             ctrl   |-> "default"]

\* The file is there and json.load fails on it.
Unparsable == sfile.state \in {"empty", "torn"}

\* load_settings: a missing file and one that does not parse give the defaults.
LoadSettings == IF sfile.state = "whole" THEN sfile.data ELSE Defaults

\* The leases and the log that go with a configuration path: those beside it in
\* the sandbox, the standard ones of a live daemon otherwise.
Beside(path) == IF path = "default" THEN "default" ELSE "found"

\* Whatever the settings say, a start takes the leases and the log that go with
\* the configuration path.
Placed(S) == [S EXCEPT !.paths = [v \in Versions |-> Beside(S.config[v])]]

\* discover_environment and discover_environment6 without a settings file: a
\* running Kea or a standard path if there is one, the sandbox if not.
Discovered ==
  Placed([Defaults EXCEPT !.config =
            [v \in Versions |-> IF v \in Installed THEN "found" ELSE "default"]])

\* create_app: once a settings file exists, whatever is in it, "the user took
\* control" and nothing is discovered.
StartUp == IF sfile.state = "absent" THEN Discovered ELSE Placed(LoadSettings)

-----------------------------------------------------------------------------
Goto(r, label) == pc' = [pc EXCEPT ![r] = label]

\* A handler's locals, which end with it.
SomeVersion == CHOOSE v \in Versions : TRUE
NoLocals(R) ==
  /\ kind' = [r \in Requests |-> IF r \in R THEN "save" ELSE kind[r]]
  /\ ver'  = [r \in Requests |-> IF r \in R THEN SomeVersion ELSE ver[r]]
  /\ key'  = [r \in Requests |-> IF r \in R THEN "default" ELSE key[r]]
  /\ cur'  = [r \in Requests |-> IF r \in R THEN "default" ELSE cur[r]]
  /\ new'  = [r \in Requests |-> IF r \in R THEN Defaults ELSE new[r]]

\* The requests in R are over: answered, refused, failed or lost.
End(R) ==
  /\ pc' = [r \in Requests |-> IF r \in R THEN "done" ELSE pc[r]]
  /\ NoLocals(R)

\* Either an installation whose settings were never saved, or one that saved
\* what discovery had found.
Init ==
  /\ sfile \in {[state |-> "absent", data |-> Defaults],
                [state |-> "whole",  data |-> Discovered]}
  /\ live = Discovered
  /\ pc = [r \in Requests |-> "idle"]
  /\ kind = [r \in Requests |-> "save"]
  /\ ver = [r \in Requests |-> SomeVersion]
  /\ key = [r \in Requests |-> "default"]
  /\ cur = [r \in Requests |-> "default"]
  /\ new = [r \in Requests |-> Defaults]
  /\ spoiled = FALSE
  /\ astray = FALSE

Arrive(r) ==
  /\ pc[r] = "idle"
  /\ \E k \in Kinds, v \in Versions :
       /\ kind' = [kind EXCEPT ![r] = k]
       /\ ver' = [ver EXCEPT ![r] = v]
       /\ key' = [key EXCEPT ![r] = live.config[v]]
  /\ Goto(r, "wait")
  /\ UNCHANGED <<sfile, live, cur, new, spoiled, astray>>

\* config_lock of the daemon's configuration file, chosen on arrival; the handler
\* then looks up the pointer again.
Acquire(r) ==
  /\ pc[r] = "wait"
  /\ \A q \in Requests \ {r} :
       pc[q] \in Holding => <<ver[q], key[q]>> # <<ver[r], key[r]>>
  /\ Goto(r, "entered")
  /\ cur' = [cur EXCEPT ![r] = live.config[ver[r]]]
  /\ UNCHANGED <<sfile, live, kind, ver, key, new, spoiled, astray>>

\* A field that does not validate, or a repoint's target that exists and is
\* not a configuration: nothing is written.
Refuse(r) ==
  /\ pc[r] = "entered"
  /\ End({r})
  /\ UNCHANGED <<sfile, live, spoiled, astray>>

\* Faulty: a field left blank is saved blank.
FilledBlank(filled, r, current) == IF filled THEN r ELSE ""

\* What a field is saved as: what the form says, or what the application runs
\* with if it says nothing.
Filled(filled, r, current) == IF filled THEN r ELSE current

\* S with the fields of r's own version, and the shared one, from a form that
\* fills in F.
Entered(S, r, F) ==
  LET v == ver[r] IN
  [S EXCEPT !.cmd[v]   = Filled("cmd" \in F, r, live.cmd[v]),
            !.paths[v] = Filled("paths" \in F, r, live.paths[v]),
            !.ctrl     = Filled("ctrl" \in F, r, live.ctrl)]

\* Requests that have read the settings and not yet written and applied them.
Others(r) == {q \in Requests \ {r} : pc[q] \in Unwritten \cup {"apply"}}

\* History only: what the properties need to know of the moment r reads the
\* settings.
Overlap(r) ==
  LET blind == \/ kind[r] = "repoint" /\ sfile.state # "whole"
               \/ cur[r] # live.config[ver[r]]
  IN
  /\ spoiled' = (spoiled \/ blind \/ Others(r) # {})
  /\ astray' = \/ astray
               \/ blind
               \/ \E q \in Others(r) : "repoint" \in {kind[q], kind[r]}

\* Faulty: the other version's paths are taken from the loaded settings.
SeedNothing(S, v) == S

\* _other_live: the other version's paths are what the application resolved at
\* start-up, for the loaded ones may be the defaults of a file that is not there.
SeedOther(S, v) ==
  [S EXCEPT !.config = [w \in Versions |-> IF w = v THEN @[w] ELSE live.config[w]],
            !.paths  = [w \in Versions |-> IF w = v THEN @[w] ELSE live.paths[w]]]

\* Faulty: the version's own pointer is not stored with its settings.
ComposeWithoutPointer(r) ==
  /\ pc[r] = "entered"
  /\ kind[r] = "save"
  /\ \E F \in Forms :
       new' = [new EXCEPT ![r] = Entered(SeedOther(LoadSettings, ver[r]), r, F)]
  /\ Goto(r, "open")
  /\ Overlap(r)
  /\ UNCHANGED <<sfile, live, kind, ver, key, cur>>

\* A save: load the settings, keep the other version's paths, set its own.
\* The configuration is loaded as well, which may raise before anything is written.
Compose(r) ==
  /\ pc[r] = "entered"
  /\ kind[r] = "save"
  /\ \E F \in Forms :
       new' = [new EXCEPT ![r] =
                 [Entered(SeedOther(LoadSettings, ver[r]), r, F) EXCEPT
                    !.config[ver[r]] = cur[r]]]
  /\ Goto(r, "open")
  /\ Overlap(r)
  /\ UNCHANGED <<sfile, live, kind, ver, key, cur>>

\* A repoint: the same without the other version's paths; its own pointer
\* becomes the form's path.
ComposeRepoint(r) ==
  /\ pc[r] = "entered"
  /\ kind[r] = "repoint"
  /\ \E F \in Forms :
       new' = [new EXCEPT ![r] =
                 [Entered(LoadSettings, r, F) EXCEPT !.config[ver[r]] = r]]
  /\ Goto(r, "open")
  /\ Overlap(r)
  /\ UNCHANGED <<sfile, live, kind, ver, key, cur>>

\* save_settings: open("w") truncates, without a lock of its own.
SettingsOpen(r) ==
  /\ pc[r] = "open"
  /\ sfile' = [state |-> "empty", data |-> Defaults]
  /\ Goto(r, "write")
  /\ UNCHANGED <<live, kind, ver, key, cur, new, spoiled, astray>>

\* json.dump and close, which writes from the start of the file.  If another
\* request wrote since this one truncated it, the tail of a longer text stays.
SettingsWrite(r) ==
  /\ pc[r] = "write"
  /\ \/ sfile' = [state |-> "whole", data |-> new[r]]
     \/ sfile.state # "empty" /\ sfile' = [state |-> "torn", data |-> Defaults]
  /\ Goto(r, "apply")
  /\ UNCHANGED <<live, kind, ver, key, cur, new, spoiled, astray>>

\* An OSError while the settings are opened or written.
SettingsFail(r) ==
  /\ pc[r] \in Unwritten
  /\ "write_fails" \in Faults
  /\ End({r})
  /\ spoiled' = (spoiled \/ pc[r] = "write")
  /\ UNCHANGED <<sfile, live, astray>>

\* What a request changes in app.config: its own version's fields and the
\* shared ones; a repoint its pointer too.
Applied(r) ==
  LET v == ver[r] IN
  [live EXCEPT !.cmd[v] = new[r].cmd[v],
               !.paths[v] = new[r].paths[v],
               !.ctrl = new[r].ctrl,
               !.config[v] = IF kind[r] = "repoint" THEN new[r].config[v] ELSE @]

\* Faulty: the application is updated only when the configuration was saved.
ApplyLast(r) ==
  /\ pc[r] = "apply"
  /\ \/ /\ live' = Applied(r)
        /\ Goto(r, "configure")
        /\ UNCHANGED <<kind, ver, key, cur, new>>
     \/ UNCHANGED live /\ End({r})
  /\ UNCHANGED <<sfile, spoiled, astray>>

Apply(r) ==
  /\ pc[r] = "apply"
  /\ live' = Applied(r)
  /\ Goto(r, "configure")
  /\ UNCHANGED <<sfile, kind, ver, key, cur, new, spoiled, astray>>

\* save_kea_config, or the repoint's bootstrap: the last step.  Whether it
\* succeeds or its backup or write fails (a 503), the settings are saved and
\* applied by now.
Configure(r) ==
  /\ pc[r] = "configure"
  /\ End({r})
  /\ UNCHANGED <<sfile, live, spoiled, astray>>

-----------------------------------------------------------------------------
\* The process ends, at any instant, and is started again.
Restart ==
  /\ "crash" \in Faults
  /\ End({r \in Requests : pc[r] \in InFlight})
  /\ live' = StartUp
  /\ spoiled' = (spoiled \/ Unparsable)
  /\ UNCHANGED <<sfile, astray>>

Serve(r) ==
  \/ Acquire(r) \/ Refuse(r) \/ Compose(r) \/ ComposeRepoint(r)
  \/ SettingsOpen(r) \/ SettingsWrite(r) \/ SettingsFail(r)
  \/ Apply(r) \/ Configure(r)

Quiescent ==
  /\ \A r \in Requests : pc[r] = "done"
  /\ UNCHANGED vars

Next ==
  \/ \E r \in Requests : Arrive(r) \/ Serve(r)
  \/ Restart
  \/ Quiescent

Spec == Init /\ [][Next]_vars
-----------------------------------------------------------------------------
(* Properties *)

TypeOK ==
  /\ sfile \in [state : {"absent", "empty", "torn", "whole"}, data : Record]
  /\ live \in Record
  /\ pc \in [Requests -> PCs]
  /\ kind \in [Requests -> AllKinds]
  /\ ver \in [Requests -> Versions]
  /\ key \in [Requests -> Value]
  /\ cur \in [Requests -> Value]
  /\ new \in [Requests -> Record]
  /\ spoiled \in BOOLEAN
  /\ astray \in BOOLEAN

\* Both daemons' configuration pointers are persisted as the application runs
\* with them, however saves of the two versions overlap, fail or die: neither
\* is ever taken from an older settings file (system.py:1070-1089).  Repoints
\* count as long as they overlap nothing and find settings to keep.
PointersPersisted ==
  (/\ sfile.state = "whole"
   /\ ~astray
   /\ \A r \in Requests : kind[r] = "repoint" => pc[r] # "apply")
    => sfile.data.config = live.config

Demoted(v) == live.config[v] # "default" /\ live'.config[v] = "default"

\* A daemon that was found is never left for the sandbox, by any sequence of
\* overlapping saves, lone repoints and restarts, unless the settings file is
\* unparsable at a start (system.py:1070-1079, settings_manager.py:52-58).
NeverDemotedBySaves ==
  [][\A v \in Versions : Demoted(v) => Unparsable \/ astray]_vars

\* The same of every request and restart, the first one ever saved included: no
\* "live daemon that auto-discovery had correctly found" is "silently demoted"
\* (system.py:1070-1079).
NeverDemoted == [][\A v \in Versions : Demoted(v) => Unparsable]_vars

\* Two records of settings that say the same of both versions, but for the
\* leases and log paths: there the application may run with what goes with the
\* configuration path instead of what was saved, as it does from a start on.
Agree(saved, running) ==
  /\ saved.config = running.config
  /\ saved.cmd = running.cmd
  /\ saved.ctrl = running.ctrl
  /\ \A v \in Versions :
       running.paths[v] \in {saved.paths[v], Beside(running.config[v])}

\* Requests that do not overlap leave the file and the application with the same
\* settings of both versions, even the save whose last step, writing Kea's
\* configuration, fails: a restart then changes nothing (system.py:1159-1170)
\* but the leases and log paths, which a start never takes from the file
\* (__init__.py:66-87).
SerialSavesAgree ==
  (~spoiled /\ sfile.state = "whole" /\ \A r \in Requests : pc[r] # "apply")
    => Agree(sfile.data, live)
=============================================================================
