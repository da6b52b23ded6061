---------------------------- MODULE ConfigReload ----------------------------
(***************************************************************************)
(* How a change of the configuration file reaches the running agent: the   *)
(* watcher goroutine of viper, Parser.OnConfigChange (config/parser.go),   *)
(* rattlesnake.Unmarshal (config/rattlesnake.go) and the part of reconfigure*)
(* that installs the result.  Of the configuration it keeps the default    *)
(* frequency and the storage sections with their own frequency.            *)
(*                                                                         *)
(* The watcher decodes every version of the file into one struct, and the  *)
(* storages of an agent it reconfigured are pointers into that struct.     *)
(*                                                                         *)
(* Simplifications                                                         *)
(*   - A file that does not validate still is decoded in full: the         *)
(*     validator runs last.                                                *)
(*   - One change of the file is one event.                                *)
(*   - The vault and metrics sections travel the same way and are left out.*)
(***************************************************************************)
EXTENDS Naturals

CONSTANTS
  Files,             \* the contents the file may have, see FilesAssumption
  InitialFile,       \* its content when the process starts
  DefaultFrequency,  \* the `default:"1h"` tag of StorageConfigDefaults
  MaxChanges         \* bound on the number of changes

(***************************************************************************)
(* frequency = 0: the file does not give one, at either place.  DOMAIN     *)
(* storages are the sections the file has.                                 *)
(***************************************************************************)
ASSUME FilesAssumption ==
  /\ \A f \in Files \cup {InitialFile} :
       /\ f.valid \in BOOLEAN
       /\ f.frequency \in Nat
       /\ \A l \in DOMAIN f.storages : f.storages[l] \in Nat
  /\ InitialFile.valid
  /\ DOMAIN InitialFile.storages # {}     \* else ReadConfig refuses to start
  /\ DefaultFrequency \in Nat \ {0}
  /\ MaxChanges \in Nat

Locations == UNION {DOMAIN f.storages : f \in Files \cup {InitialFile}}

VARIABLES
  file,     \* content of the configuration file
  changes,  \* number of changes so far
  events,   \* change events not handled yet
  shared,   \* the struct the watcher decodes into: [frequency, storages]
  running,  \* the agent: [frequency, sections, aliased, own]
  watcher,  \* "idle", "update" (in the handler) or "send" (of its result)
  results   \* results in the channel, which has room for one

reloadVars == <<file, changes, events, shared, running, watcher, results>>

-----------------------------------------------------------------------------
(* Unmarshal                                                               *)

EmptyConfig == [frequency |-> 0, storages |-> [l \in {} |-> 0]]

Given(new, old) == IF new # 0 THEN new ELSE old

(***************************************************************************)
(* viper decodes into the struct it is given without clearing it: a        *)
(* section or a value the file does not have keeps its old value.          *)
(***************************************************************************)
Decode(config, f) ==
  LET old == config.storages
      new == f.storages
  IN  [frequency |-> Given(f.frequency, config.frequency),
       storages  |-> [l \in DOMAIN old \cup DOMAIN new |->
                        IF l \notin DOMAIN new THEN old[l]
                        ELSE IF l \notin DOMAIN old THEN new[l]
                        ELSE Given(new[l], old[l])]]

\* defaults.Set fills what is zero.
SetDefaults(config) ==
  [config EXCEPT !.frequency = Given(@, DefaultFrequency)]

Unmarshal(config, f) == SetDefaults(Decode(config, f))

-----------------------------------------------------------------------------
(* The running agent                                                       *)

\* What if: the watcher is given the struct ReadConfig filled.
StoragesOfOneStruct(agent, struct) ==
  [l \in agent.sections |-> IF l \in DOMAIN struct.storages
                            THEN struct.storages[l] ELSE agent.own[l]]

\* The frequency each storage of the agent has at this moment.
StoragesOf(agent, struct) ==
  IF agent.aliased THEN [l \in agent.sections |-> struct.storages[l]]
                   ELSE agent.own

RunningStorages == StoragesOf(running, shared)

\* CreateManager keeps the pointers of the sections that are not nil;
\* storageConfigDefaults is a copy.
Installed(config) ==
  [frequency |-> config.frequency, sections |-> DOMAIN config.storages,
   aliased |-> TRUE, own |-> EmptyConfig.storages]

Started(config) ==
  [frequency |-> config.frequency, sections |-> DOMAIN config.storages,
   aliased |-> FALSE, own |-> config.storages]

\* CreateSnapshotAgent reads the file into a struct of its own and has the
\* watcher decode into a second, empty one.
ReloadInit ==
  /\ file = InitialFile
  /\ changes = 0
  /\ events = 0
  /\ shared = EmptyConfig
  /\ running = Started(Unmarshal(EmptyConfig, InitialFile))
  /\ watcher = "idle"
  /\ results = 0

ChangeFile ==
  /\ changes < MaxChanges
  /\ \E f \in Files : f # file /\ file' = f
  /\ changes' = changes + 1
  /\ events' = events + 1
  /\ UNCHANGED <<shared, running, watcher, results>>

\* viper reads the file again and calls the callback, which decodes.
ReadChange ==
  /\ watcher = "idle"
  /\ events > 0
  /\ events' = events - 1
  /\ shared' = Unmarshal(shared, file)
  /\ watcher' = IF file.valid THEN "update" ELSE "send"
  /\ UNCHANGED <<file, changes, running, results>>

\* reconfigure succeeds.
Install ==
  /\ watcher = "update"
  /\ running' = Installed(shared)
  /\ watcher' = "send"
  /\ UNCHANGED <<file, changes, events, shared, results>>

\* CreateClient or the shutdown of the metrics fails: nothing is assigned.
InstallFails ==
  /\ watcher = "update"
  /\ watcher' = "send"
  /\ UNCHANGED <<file, changes, events, shared, running, results>>

\* ch <- result.  Nobody receives from the channel.
Send ==
  /\ watcher = "send"
  /\ results < 1
  /\ results' = results + 1
  /\ watcher' = "idle"
  /\ UNCHANGED <<file, changes, events, shared, running>>

ReloadNext == ChangeFile \/ ReadChange \/ Install \/ InstallFails \/ Send

ReloadSpec == ReloadInit /\ [][ReloadNext]_reloadVars

\* The watcher is one goroutine that runs whenever it can.
FairReloadSpec ==
  /\ ReloadSpec
  /\ WF_reloadVars(ReadChange)
  /\ WF_reloadVars(Install \/ InstallFails)
  /\ WF_reloadVars(Send)

-----------------------------------------------------------------------------
(* Properties                                                              *)

Frequencies ==
  {DefaultFrequency} \cup
  UNION {{f.frequency} \cup {f.storages[l] : l \in DOMAIN f.storages} :
           f \in Files \cup {InitialFile}}

ConfigOK(config) ==
  /\ config.frequency \in Frequencies \cup {0}
  /\ DOMAIN config.storages \subseteq Locations
  /\ \A l \in DOMAIN config.storages : config.storages[l] \in Frequencies \cup {0}

ReloadTypeOK ==
  /\ file \in Files \cup {InitialFile}
  /\ changes \in 0..MaxChanges
  /\ events \in 0..MaxChanges
  /\ ConfigOK(shared)
  /\ running.frequency \in Frequencies \ {0}
  /\ running.sections \subseteq Locations
  /\ running.aliased \in BOOLEAN
  /\ ConfigOK([frequency |-> 0, storages |-> running.own])
  /\ watcher \in {"idle", "update", "send"}
  /\ results \in 0..1

(***************************************************************************)
(* Up to its first successful reload the agent runs on exactly what it was *)
(* started with, whatever is decoded meanwhile: the watcher's struct is    *)
(* another one than ReadConfig's (snapshot-agent.go:68,81).                *)
(***************************************************************************)
StartConfigIsStable ==
  ~running.aliased =>
    /\ running.frequency = Unmarshal(EmptyConfig, InitialFile).frequency
    /\ RunningStorages = Unmarshal(EmptyConfig, InitialFile).storages

(***************************************************************************)
(* parser.go:63-64, "Ignoring configuration change as configuration is     *)
(* invalid": a file that does not validate leaves the storages of the      *)
(* running agent as they are.                                              *)
(***************************************************************************)
InvalidFileIsIgnored ==
  [][watcher = "idle" /\ watcher' = "send" => RunningStorages' = RunningStorages]_reloadVars

(***************************************************************************)
(* README.md:139: the agent monitors the file and reloads its              *)
(* configuration automatically when the file changes.                      *)
(***************************************************************************)
ChangesAreHandled == events > 0 ~> events = 0

=============================================================================
