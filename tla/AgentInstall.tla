---------------------------- MODULE AgentInstall ----------------------------
(***************************************************************************)
(* Installing, registering and removing the agent on one device:           *)
(* Service::install and its child "uninstall", the detached self-uninstall,*)
(* the Windows clean-up script that deletes the binary later, and the      *)
(* registration that gives the device its identity.  The record of         *)
(* machine_info_persistence lies outside the agent's directories, so that  *)
(* an identity survives the removal of the agent.                          *)
(*                                                                         *)
(* A machine is a number the backend issues; its secret goes with it.      *)
(***************************************************************************)
EXTENDS Integers

CONSTANTS
    Platforms,         \* the platforms to cover
    MaxInstalls,       \* bound: installations started
    MaxMachines,       \* bound: machines the backend issues
    MaxInstallFaults   \* bound: failing steps, lost replies, crashes, refused secrets

ASSUME InstallAssumption ==
    /\ Platforms \subseteq {"windows", "macos"}
    /\ MaxInstalls \in Nat /\ MaxMachines \in Nat \ {0} /\ MaxInstallFaults \in Nat

NoMachine == 0
Unreadable == -1        \* a record that exists and cannot be read
Machines == 1..MaxMachines

VARIABLES
    platform,     \* where the agent runs; never changes
    service,      \* the OS knows the service
    binary,       \* the file at get_install_location exists
    onPath,       \* its directory is on the Windows PATH
    config,       \* initial_config.json: "none", "keyless", "full" or "corrupt"
    agentConfig,  \* the machine in agent_config.json
    record,       \* the machine in the persisted record
    agent,        \* the agent process
    reply,        \* the machine in the backend's last answer
    installer, remover,
    inPlace,      \* the installer is the installed binary itself (current_exe_path)
    child,        \* the remover is the installer's child
    script,       \* the clean-up script: "none", "delete" or "path"
    issued, refused,   \* the backend: machines issued, secrets no longer good
    installs, installFaults,
    \* history, read by no action:
    identity,     \* the first machine this device saved
    excused,      \* the record was lost, unreadable or refused, or never written
    beside,       \* a removal that is not its child ran beside the installation
    late,         \* the script was still to run when the installation succeeded
    bare,         \* the installation that succeeded had copied nothing
    installed     \* an installation succeeded undisturbed, and no removal began since

Windows == platform = "windows"
files == <<service, binary, onPath, config, agentConfig, record>>
backend == <<issued, refused>>
installHistory == <<identity, excused, beside, late, bare, installed>>
installVars == <<platform, files, agent, reply, installer, inPlace, remover, child, script,
                 backend, installs, installFaults, installHistory>>

AgentStates == {"down", "start", "fresh", "reinstall", "persist", "save", "registered"}
InstallTypeOK ==
    /\ platform \in Platforms
    /\ {service, binary, onPath, inPlace, child, excused, beside, late, bare, installed}
         \subseteq BOOLEAN
    /\ config \in {"none", "keyless", "full", "corrupt"}
    /\ agentConfig \in 0..MaxMachines /\ record \in {Unreadable} \cup 0..MaxMachines
    /\ agent \in AgentStates /\ reply \in 0..MaxMachines /\ identity \in 0..MaxMachines
    /\ installer \in {"idle", "backfill", "remove", "await", "config", "copy", "service"}
    /\ remover \in {"idle", "service", "dirs", "binary"}
    /\ script \in {"none", "delete", "path"}
    /\ issued \in 0..MaxMachines /\ refused \subseteq Machines
    /\ installs \in 0..MaxInstalls /\ installFaults \in 0..MaxInstallFaults

\* A device without the agent, or with one registered before the record existed and
\* updated since: it has a machine and no record, and its initial key was cleared.
InstallInit ==
    \E legacy \in BOOLEAN :
    /\ platform \in Platforms
    /\ service = legacy /\ binary = legacy /\ onPath = (legacy /\ Windows)
    /\ config = (IF legacy THEN "keyless" ELSE "none")
    /\ agentConfig = (IF legacy THEN 1 ELSE NoMachine) /\ record = NoMachine
    /\ agent = "down" /\ reply = NoMachine
    /\ installer = "idle" /\ inPlace = FALSE
    /\ remover = "idle" /\ child = FALSE /\ script = "none"
    /\ issued = (IF legacy THEN 1 ELSE 0) /\ refused = {}
    /\ installs = 0 /\ installFaults = 0
    /\ identity = (IF legacy THEN 1 ELSE NoMachine)
    /\ excused = FALSE /\ beside = FALSE /\ late = FALSE /\ bare = FALSE /\ installed = FALSE

Configured == config \in {"keyless", "full"}

InstallFault(happens) ==
    /\ happens => installFaults < MaxInstallFaults
    /\ installFaults' = IF happens THEN installFaults + 1 ELSE installFaults

-----------------------------------------------------------------------------
(* Service::install *)

StartInstall ==
    /\ installer = "idle" /\ installs < MaxInstalls
    /\ installs' = installs + 1
    /\ installer' = IF service THEN "backfill" ELSE "config"
    /\ inPlace' \in {FALSE, binary}
    /\ beside' = (remover # "idle")
    /\ UNCHANGED <<files, agent, reply, remover, child, script, backend, installFaults,
                   identity, excused, late, bare, installed>>

\* A mutant: only the persisted record is looked at.
Backfill_Skipped ==
    /\ installer = "backfill"
    /\ installer' = IF binary THEN "remove" ELSE "config"
    /\ UNCHANGED <<files, agent, reply, inPlace, remover, child, script, backend, installs,
                   installFaults, installHistory>>

\* An installation is being replaced: a missing (or unreadable) record is written from
\* agent_config.json before the removal wipes it.  A failing write is only logged.
Backfill ==
    /\ installer = "backfill"
    /\ installer' = IF binary THEN "remove" ELSE "config"
    /\ LET needed == record \in {NoMachine, Unreadable} /\ agentConfig # NoMachine
       IN  \E written \in BOOLEAN :
            /\ InstallFault(needed /\ ~written)
            /\ record' = IF needed /\ written THEN agentConfig ELSE record
            /\ excused' = (excused \/ (needed /\ ~written))
    /\ UNCHANGED <<service, binary, onPath, config, agentConfig, agent, reply, inPlace, remover,
                   child, script, backend, installs, identity, beside, late, bare, installed>>

\* The installed binary runs as "uninstall"; when it cannot be launched the installation
\* fails.  One removal at a time.
LaunchRemoval ==
    /\ installer = "remove" /\ remover = "idle"
    /\ \E launched \in BOOLEAN :
        /\ launched => binary
        /\ InstallFault(binary /\ ~launched)
        /\ remover' = IF launched THEN "service" ELSE "idle"
        /\ installer' = IF launched THEN "await" ELSE "idle"
        /\ child' = launched
        /\ installed' = (installed /\ ~launched)
    /\ UNCHANGED <<files, agent, reply, inPlace, script, backend, installs, identity, excused,
                   beside, late, bare>>

\* A mutant: the removal is launched and not awaited.
AwaitRemoval_Launched ==
    /\ installer = "await"
    /\ installer' = "config"
    /\ UNCHANGED <<files, agent, reply, inPlace, remover, child, script, backend, installs,
                   installFaults, installHistory>>

\* The child has ended, whatever its exit code; three seconds later the installation
\* goes on.
AwaitRemoval ==
    /\ installer = "await" /\ ~child
    /\ installer' = "config"
    /\ UNCHANGED <<files, agent, reply, inPlace, remover, child, script, backend, installs,
                   installFaults, installHistory>>

BuildConfig ==
    /\ installer = "config"
    /\ \E saved \in BOOLEAN :
        /\ InstallFault(~saved)
        /\ config' = IF saved THEN "full" ELSE config
        /\ installer' = IF saved THEN "copy" ELSE "idle"
    /\ UNCHANGED <<service, binary, onPath, agentConfig, record, agent, reply, inPlace, remover,
                   child, script, backend, installs, installHistory>>

\* Nothing is copied onto the binary that runs.  Otherwise a target in use has its
\* processes killed, is moved aside and put back when even that does not help; that may
\* fail as well, and so may what follows the copy.
CopyBinary ==
    /\ installer = "copy"
    /\ \/ /\ inPlace /\ installer' = "service"
          /\ UNCHANGED <<binary, onPath, agent, installFaults>>
       \/ /\ ~inPlace /\ InstallFault(FALSE) /\ installer' = "service"
          /\ binary' = TRUE /\ onPath' = (onPath \/ Windows)
          /\ agent' \in {agent, IF binary THEN "down" ELSE agent}
       \/ /\ ~inPlace /\ InstallFault(TRUE) /\ installer' = "idle"
          /\ binary' \in BOOLEAN /\ UNCHANGED onPath
          /\ agent' \in {agent, IF binary THEN "down" ELSE agent}
    /\ UNCHANGED <<service, config, agentConfig, record, reply, inPlace, remover, child, script,
                   backend, installs, installHistory>>

\* The service is registered, given its recovery actions and started.  Windows cannot
\* start a service without its binary; launchd only takes note of the order.
InstallService ==
    /\ installer = "service" /\ installer' = "idle"
    /\ \E started \in BOOLEAN :
        /\ started /\ Windows => binary
        /\ InstallFault(~started /\ binary)
        /\ service' \in {TRUE, started \/ service}
        /\ agent' = IF started /\ binary /\ Configured /\ agent = "down" THEN "start" ELSE agent
        /\ installed' = IF started THEN ~beside ELSE installed
        /\ late' = IF started THEN script # "none" ELSE late
        /\ bare' = IF started THEN inPlace ELSE bare
    /\ UNCHANGED <<binary, onPath, config, agentConfig, record, reply, inPlace, remover, child,
                   script, backend, installs, identity, excused, beside>>

-----------------------------------------------------------------------------
(* Service::uninstall *)

\* The detached uninstall, of an administrator or of the deactivation supervisor, at any
\* time.  It does not look after the record.
StartRemoval ==
    /\ remover = "idle" /\ binary /\ InstallFault(TRUE)
    /\ remover' = "service" /\ child' = FALSE
    /\ installed' = FALSE /\ beside' = TRUE
    /\ excused' = (excused \/ record = NoMachine)
    /\ UNCHANGED <<files, agent, reply, installer, inPlace, script, backend, installs, identity,
                   late, bare>>

\* Step 1: stop, then unregister whatever became of that; each failure is only a warning.
RemoveService ==
    /\ remover = "service"
    /\ \E stopped, gone \in BOOLEAN :
        /\ InstallFault(~(stopped /\ gone))
        /\ service' = (service /\ ~gone)
        /\ agent' = IF stopped THEN "down" ELSE agent
    /\ remover' = "dirs"
    /\ UNCHANGED <<binary, onPath, config, agentConfig, record, reply, installer, inPlace, child, script,
                   backend, installs, installHistory>>

\* Steps 2 and 3: the tools and the directories; what resists remove_directory_with_retry
\* stays.
RemoveDirectories ==
    /\ remover = "dirs"
    /\ \E first, second \in BOOLEAN :
        /\ InstallFault(~(first /\ second))
        /\ config' = IF first THEN "none" ELSE config
        /\ agentConfig' = IF second THEN NoMachine ELSE agentConfig
    /\ remover' = "binary"
    /\ UNCHANGED <<service, binary, onPath, record, agent, reply, installer, inPlace, child, script,
                   backend, installs, installHistory>>

\* Windows cannot delete a running program: a script is left to do it.
RemoveBinary ==
    /\ remover = "binary"
    /\ \E done \in BOOLEAN :
        /\ InstallFault(~done)
        /\ script' = IF Windows /\ done /\ binary THEN "delete" ELSE script
        /\ binary' = (binary /\ (Windows \/ ~done))
    /\ remover' = "idle" /\ child' = FALSE
    /\ UNCHANGED <<service, onPath, config, agentConfig, record, agent, reply, installer, inPlace,
                   backend, installs, installHistory>>

\* The script waits for the remover to exit, deletes the binary unless something runs
\* from it, and takes its directory off the PATH.
ScriptDeletes ==
    /\ script = "delete" /\ remover = "idle"
    /\ binary' = (binary /\ (agent # "down" \/ (inPlace /\ installer # "idle")))
    /\ script' = "path"
    /\ UNCHANGED <<service, onPath, config, agentConfig, record, agent, reply, installer, inPlace,
                   remover, child, backend, installs, installFaults, installHistory>>

ScriptPath ==
    /\ script = "path"
    /\ onPath' = FALSE /\ script' = "none"
    /\ UNCHANGED <<service, binary, config, agentConfig, record, agent, reply, installer, inPlace,
                   remover, child, backend, installs, installFaults, installHistory>>

-----------------------------------------------------------------------------
(* The agent registers *)

\* The service manager starts the agent; Client::new needs the configuration.
AgentBoots ==
    /\ service /\ binary /\ agent = "down"
    /\ Configured
    /\ agent' = "start"
    /\ UNCHANGED <<files, reply, installer, inPlace, remover, child, script, backend, installs, installFaults,
                   installHistory>>

AgentCrashes ==
    /\ agent # "down" /\ InstallFault(TRUE)
    /\ agent' = "down"
    /\ UNCHANGED <<files, reply, installer, inPlace, remover, child, script, backend, installs,
                   installHistory>>

\* RegistrationProcessor: a device with a machine is done.  Otherwise the record decides
\* between a reinstall and a fresh registration; one that cannot be read after every
\* retry counts as missing.
ReadRecord ==
    /\ agent = "start"
    /\ \E readable \in BOOLEAN :
        /\ InstallFault(agentConfig = NoMachine /\ ~readable)
        /\ agent' = IF agentConfig # NoMachine THEN "registered"
                    ELSE IF readable /\ record \in Machines THEN "reinstall" ELSE "fresh"
        /\ excused' = (excused \/ (agentConfig = NoMachine /\ record # NoMachine
                                   /\ ~(readable /\ record \in Machines)))
    /\ UNCHANGED <<files, reply, installer, inPlace, remover, child, script, backend, installs, identity,
                   beside, late, bare, installed>>

\* register: the backend issues a machine, for a request with an initial key.  The reply
\* may be lost, and the next attempt registers once more.
RegisterFresh ==
    /\ agent = "fresh"
    /\ \E answered \in BOOLEAN :
        /\ InstallFault(~answered)
        /\ config = "full" \/ ~answered
        /\ issued < MaxMachines
        /\ issued' = IF config = "full" THEN issued + 1 ELSE issued
        /\ reply' = IF answered THEN issued + 1 ELSE reply
        /\ agent' = IF answered THEN "persist" ELSE "start"
    /\ UNCHANGED <<files, installer, inPlace, remover, child, script, refused, installs,
                   installHistory>>

\* A mutant: a refused secret is an error like any other.
RegisterAgain_Stuck ==
    /\ agent = "reinstall"
    /\ \E answered \in BOOLEAN :
        /\ InstallFault(~answered)
        /\ reply' = IF answered /\ record \notin refused THEN record ELSE reply
        /\ agent' = IF answered /\ record \notin refused THEN "persist" ELSE "start"
    /\ UNCHANGED <<files, installer, inPlace, remover, child, script, backend, installs,
                   installHistory>>

\* reinstall: the saved machine again, unless the backend refuses its secret.
RegisterAgain ==
    /\ agent = "reinstall"
    /\ \E answered \in BOOLEAN :
        /\ InstallFault(~answered)
        /\ reply' = IF answered /\ record \notin refused THEN record ELSE reply
        /\ agent' = IF ~answered THEN "start"
                    ELSE IF record \in refused THEN "fresh" ELSE "persist"
    /\ UNCHANGED <<files, installer, inPlace, remover, child, script, backend, installs,
                   installHistory>>

\* machine_info_persistence::write; a failure is only logged.  On macOS a record that
\* cannot be secured is deleted, on Windows a new key may be left without its value.
PersistMachine ==
    /\ agent = "persist"
    /\ \/ InstallFault(FALSE) /\ record' = reply /\ UNCHANGED excused
       \/ /\ InstallFault(TRUE) /\ excused' = TRUE
          /\ record' \in {record, IF ~Windows THEN NoMachine
                                  ELSE IF record = NoMachine THEN Unreadable ELSE record}
    /\ agent' = "save"
    /\ UNCHANGED <<service, binary, onPath, config, agentConfig, reply, installer, inPlace, remover,
                   child, script, backend, installs, identity, beside, late, bare, installed>>

\* save_registration_data; a failure starts the registration over.
SaveRegistration ==
    /\ agent = "save"
    /\ \E saved \in BOOLEAN :
        /\ InstallFault(~saved)
        /\ agentConfig' = IF saved THEN reply ELSE agentConfig
        /\ identity' = IF saved /\ identity = NoMachine THEN reply ELSE identity
        /\ agent' = IF saved THEN "registered" ELSE "start"
    /\ UNCHANGED <<service, binary, onPath, config, record, reply, installer, inPlace, remover, child,
                   script, backend, installs, excused, beside, late, bare, installed>>

\* InitialKeyService fetches the key a legacy configuration lacks.  The file is written
\* in place: a crash in the middle leaves it corrupt.
FetchInitialKey ==
    /\ agent = "registered" /\ config = "keyless"
    /\ \/ InstallFault(FALSE) /\ config' = "full" /\ UNCHANGED agent
       \/ InstallFault(TRUE) /\ config' = "corrupt" /\ agent' = "down"
    /\ UNCHANGED <<service, binary, onPath, agentConfig, record, reply, installer, inPlace, remover,
                   child, script, backend, installs, installHistory>>

\* The backend no longer accepts the secret of a machine.
SecretRefused(m) ==
    /\ m \in 1..issued /\ m \notin refused /\ InstallFault(TRUE)
    /\ refused' = refused \cup {m} /\ excused' = TRUE
    /\ UNCHANGED <<files, agent, reply, installer, inPlace, remover, child, script, issued, installs,
                   identity, beside, late, bare, installed>>

Installer == StartInstall \/ Backfill \/ LaunchRemoval \/ AwaitRemoval \/ BuildConfig
             \/ CopyBinary \/ InstallService
Remover == RemoveService \/ RemoveDirectories \/ RemoveBinary
Agent == ReadRecord \/ RegisterFresh \/ RegisterAgain \/ PersistMachine \/ SaveRegistration

InstallNext ==
    /\ UNCHANGED platform
    /\ \/ StartInstall \/ Backfill \/ LaunchRemoval \/ AwaitRemoval \/ BuildConfig
       \/ CopyBinary \/ InstallService \/ StartRemoval
       \/ RemoveService \/ RemoveDirectories \/ RemoveBinary \/ ScriptDeletes \/ ScriptPath
       \/ AgentBoots \/ AgentCrashes \/ ReadRecord \/ RegisterFresh \/ RegisterAgain
       \/ PersistMachine \/ SaveRegistration \/ FetchInitialKey
       \/ \E m \in Machines : SecretRefused(m)

\* Processes run on, the script ends, the service manager restarts the agent and the
\* backend answers; nobody has to install or remove anything.
InstallFairness ==
    /\ WF_installVars(UNCHANGED platform /\ AgentBoots)
    /\ WF_installVars(UNCHANGED platform /\ Agent)
    /\ WF_installVars(UNCHANGED platform /\ Remover)
    /\ WF_installVars(UNCHANGED platform /\ (ScriptDeletes \/ ScriptPath))
    /\ WF_installVars(UNCHANGED platform /\ Installer /\ installer # "idle")

InstallSpec == InstallInit /\ [][InstallNext]_installVars /\ InstallFairness

-----------------------------------------------------------------------------
(* Properties *)

\* The device keeps the machine it registered first, over every removal and new
\* installation, as long as the record was written and can be read and the backend still
\* accepts it (register_agent, the backfill of install, the location of the record).
IdentityKept == agentConfig \in {NoMachine, identity} \/ excused

\* After an installation that reported success with no other removal beside it, and until
\* a removal begins, the service is there, and so is its binary but for two cases: on
\* Windows the clean-up script of the removal it replaced was still to run, on macOS the
\* installation ran from the installed binary, which its own child removes and nothing
\* copies back.
InstallStands ==
    installed => service /\ (binary \/ IF Windows THEN late ELSE bare)

\* What an administrator expects: success means that the binary is there.
BinaryStays == installed => service /\ binary

\* An agent that stays installed with a usable configuration ends up registered: an
\* unreadable record, a refused secret, lost replies and crashes delay it only.
Registers ==
    <>[](service /\ binary /\ config = "full" /\ remover = "idle" /\ issued < MaxMachines)
        => <>[](agent = "registered")
=============================================================================
