---------------------------- MODULE PluginManager ----------------------------
(***************************************************************************)
(* The lifecycle of plugins (plugins/manager.py, dependency_resolver.py,   *)
(* json_config_store.py, routes/admin/plugins.py, cli/plugins.py and the   *)
(* boot in app.py).                                                        *)
(*                                                                         *)
(* Every process holds its own set of enabled plugins.  Processes share    *)
(* two files: plugins.json (`file`: an entry per plugin with its flag and  *)
(* version pin) and config.json (`config`).  A save reads a whole file,    *)
(* changes one entry and replaces the whole file, and nothing keeps other  *)
(* processes out in between.                                               *)
(***************************************************************************)
EXTENDS Naturals

CONSTANTS
    Workers,      \* gunicorn processes, which serve the administrators
    Shells,       \* processes of `flask plugins enable` and `disable`
    Plugins,      \* installed plugins
    Deployments,  \* what the installed plugins may be like
    Installs,     \* the files there may be at first
    Defaults,     \* plugins enabled in plugins.json.dist
    Configs,      \* configurations an administrator may save
    NoConfig,     \* the empty configuration
    MaxRequests   \* bound on the requests and commands

Procs == Workers \cup Shells

\* What stays as it is while the system runs: each plugin's dependencies
\* without and with a version range, the plugins with a range that the
\* installed version is not in, those that are free or covered by a licence,
\* those whose on_enable raises and those whose validate_environment raises.
DeploymentType ==
    [bare: [Plugins -> SUBSET Plugins], ranged: [Plugins -> SUBSET Plugins],
     outdated: SUBSET Plugins, licensed: SUBSET Plugins,
     faulty: SUBSET Plugins, unfit: SUBSET Plugins]

\* plugins.json; an entry is stale when its pin is not the installed version.
Files == UNION {[S -> [enabled: BOOLEAN, stale: BOOLEAN]] : S \in SUBSET Plugins}
ConfigFiles == [Plugins -> Configs \cup {NoConfig}]

ASSUME PluginConstants ==
    /\ Workers \cap Shells = {}
    /\ Deployments \subseteq DeploymentType
    /\ Installs \subseteq [file: Files, config: ConfigFiles]
    /\ Defaults \subseteq Plugins
    /\ NoConfig \notin Configs
    /\ MaxRequests \in Nat

VARIABLES
    deployment,
    file,      \* plugins.json
    config,    \* config.json
    on,        \* the plugins that are ENABLED in a process
    cfg,       \* the configurations a process holds in memory
    proc,      \* what a process is doing
    requests

files == <<file, config>>
memory == <<on, cfg>>
vars == <<deployment, files, memory, proc, requests>>

Persisted(f) == {p \in DOMAIN f : f[p].enabled}

EmptyConfigs == [p \in Plugins |-> NoConfig]

\* want, stale: what get_enabled returned at the boot, its plugins and those
\* of them with a stale pin; todo: those left to restore, or the defaults left
\* to try; op, plugin, flag, value: the save under way; file, config: what it
\* read; alone: no other process wrote plugins.json since the boot.
Down == [pc |-> "down", want |-> {}, stale |-> {}, todo |-> {}, op |-> "none",
         plugin |-> {}, flag |-> FALSE, value |-> NoConfig,
         file |-> [p \in {} |-> {}], config |-> EmptyConfigs, alone |-> FALSE]

Init ==
    /\ deployment \in Deployments
    /\ \E i \in Installs : file = i.file /\ config = i.config
    /\ on = [q \in Procs |-> {}]
    /\ cfg = [q \in Procs |-> EmptyConfigs]
    /\ proc = [q \in Procs |-> Down]
    /\ requests = 0

-----------------------------------------------------------------------------
(***************************************************************************)
(* The gates of a plugin in a deployment d, where S are the plugins        *)
(* enabled in the process.                                                 *)
(***************************************************************************)
Requires(d, p) == d.bare[p] \cup d.ranged[p]

DependenciesMet(d, p, S) == Requires(d, p) \subseteq S /\ p \notin d.outdated

Licensed(d, p) == p \in d.licensed

MayEnable(d, p, S) == DependenciesMet(d, p, S) /\ Licensed(d, p)

\* What plugin.enable() makes of S: nothing when on_enable raises.
Enabled(d, p, S) == IF p \in d.faulty THEN S ELSE S \cup {p}

\* The boot enables a plugin that passes the gates, and skips the others.
Tried(d, p, S) == IF MayEnable(d, p, S) THEN Enabled(d, p, S) ELSE S

\* enable_order leaves these to the end: the plugins of W on a dependency
\* cycle within W, or behind one.
Cyclic(d, W) == UNION {S \in SUBSET W : \A p \in S : Requires(d, p) \cap S # {}}

\* Mutant: the plugins are restored in the order of the file.
AnyOrder(q, p) == p \in proc[q].todo

\* p may be the next plugin of the boot of q, in some order of the file.
Turn(q, p) ==
    /\ p \in proc[q].todo
    /\ IF p \in Cyclic(deployment, proc[q].want)
       THEN proc[q].todo \subseteq Cyclic(deployment, proc[q].want)
       ELSE Requires(deployment, p) \cap proc[q].todo = {}

-----------------------------------------------------------------------------
(***************************************************************************)
(* Saves.  JsonFilePluginConfigStore.save reads plugins.json, replaces it, *)
(* reads config.json and replaces it.                                      *)
(***************************************************************************)
ReadFile(q, op, p, flag) ==
    proc' = [proc EXCEPT ![q].pc = "file", ![q].op = op, ![q].plugin = p,
                         ![q].flag = flag, ![q].file = file,
                         ![q].todo = @ \ {p}]

\* Mutant: a new file with one entry.
SaveAlone(f, p, flag, stamp) ==
    [x \in {p} |-> [enabled |-> flag,
                    stale |-> ~stamp /\ (p \in DOMAIN f => f[p].stale)]]

\* The version is stamped unless the save is an administrator's; the pin of a
\* new entry is then "1.0.0".
Save(f, p, flag, stamp) ==
    [x \in DOMAIN f \cup {p} |->
        IF x # p THEN f[x]
        ELSE [enabled |-> flag,
              stale |-> ~stamp /\ (p \in DOMAIN f => f[p].stale)]]

OthersNotAlone(q) == [r \in Procs |-> [proc[r] EXCEPT !.alone = @ /\ r = q]]

\* q after its save, back at pc.
Saved(q, pc) ==
    [Down EXCEPT !.pc = pc, !.want = proc[q].want, !.stale = proc[q].stale,
                 !.todo = proc[q].todo, !.alone = proc[q].alone]

\* The replacement of plugins.json.  A save of a configuration goes on to
\* config.json; the re-stamping of a pin has none, and the boot goes on to
\* the gates of the plugin.
WriteFile(q) ==
    /\ proc[q].pc = "file"
    /\ file' = Save(proc[q].file, proc[q].plugin, proc[q].flag,
                    proc[q].op # "admin")
    /\ IF proc[q].op = "pin"
       THEN /\ proc' = [OthersNotAlone(q) EXCEPT ![q] = Saved(q, "loading")]
            /\ on' = [on EXCEPT ![q] = Tried(deployment, proc[q].plugin, @)]
       ELSE /\ proc' = [OthersNotAlone(q) EXCEPT
                          ![q].pc = "config", ![q].config = config,
                          ![q].value = cfg[q][proc[q].plugin]]
            /\ UNCHANGED on
    /\ UNCHANGED <<deployment, config, cfg, requests>>

\* The replacement of config.json.  An administrator's request ends with
\* _sync_in_memory, whose errors are logged only.
WriteConfig(q) ==
    /\ proc[q].pc = "config"
    /\ config' = [proc[q].config EXCEPT ![proc[q].plugin] = proc[q].value]
    /\ on' = [on EXCEPT ![q] =
                IF proc[q].op # "admin" THEN @
                ELSE IF proc[q].flag THEN Enabled(deployment, proc[q].plugin, @)
                ELSE @ \ {proc[q].plugin}]
    /\ proc' = [proc EXCEPT ![q] = Saved(q, CASE proc[q].op = "default" -> "defaults"
                                              [] proc[q].op = "shell" -> "done"
                                              [] OTHER -> "serving")]
    /\ UNCHANGED <<deployment, file, cfg, requests>>

-----------------------------------------------------------------------------
(***************************************************************************)
(* Boot.                                                                   *)
(***************************************************************************)
\* Mutant: the pins of plugins that are not enabled are looked at, too.
BootWithAllPins(q) ==
    /\ proc[q].pc = "down"
    /\ proc' = [proc EXCEPT
                  ![q] = [Down EXCEPT
                            !.pc = "loading", !.want = Persisted(file),
                            !.stale = {p \in DOMAIN file : file[p].stale},
                            !.todo = Persisted(file), !.alone = TRUE]]
    /\ cfg' = [cfg EXCEPT ![q] = [p \in Plugins |->
                 IF p \in Persisted(file) THEN config[p] ELSE NoConfig]]
    /\ UNCHANGED <<deployment, files, on, requests>>

\* create_app: discover, then get_enabled, with the stored configurations.
Boot(q) ==
    /\ proc[q].pc = "down"
    /\ proc' = [proc EXCEPT
                  ![q] = [Down EXCEPT
                            !.pc = "loading", !.want = Persisted(file),
                            !.stale = {p \in Persisted(file) : file[p].stale},
                            !.todo = Persisted(file), !.alone = TRUE]]
    /\ cfg' = [cfg EXCEPT ![q] = [p \in Plugins |->
                 IF p \in Persisted(file) THEN config[p] ELSE NoConfig]]
    /\ UNCHANGED <<deployment, files, on, requests>>

\* Killed, recycled, or refused by a plugin's validate_environment.
Stop(q) ==
    /\ proc[q].pc # "down"
    /\ proc' = [proc EXCEPT ![q] = Down]
    /\ on' = [on EXCEPT ![q] = {}]
    /\ cfg' = [cfg EXCEPT ![q] = EmptyConfigs]
    /\ UNCHANGED <<deployment, files, requests>>

\* _reconcile_version_pin, before the gates.
ReconcilePin(q, p) ==
    /\ proc[q].pc = "loading"
    /\ Turn(q, p)
    /\ p \notin deployment.unfit
    /\ p \in proc[q].stale
    /\ ReadFile(q, "pin", p, TRUE)
    /\ UNCHANGED <<deployment, files, memory, requests>>

\* Mutant: the boot has no licence gate.
RestoreUnlicensed(q, p) ==
    /\ proc[q].pc = "loading"
    /\ Turn(q, p)
    /\ p \notin deployment.unfit \cup proc[q].stale
    /\ on' = [on EXCEPT ![q] = IF DependenciesMet(deployment, p, @)
                               THEN Enabled(deployment, p, @) ELSE @]
    /\ proc' = [proc EXCEPT ![q].todo = @ \ {p}]
    /\ UNCHANGED <<deployment, files, cfg, requests>>

\* A plugin without drift: enabled, or skipped at a gate.
Restore(q, p) ==
    /\ proc[q].pc = "loading"
    /\ Turn(q, p)
    /\ p \notin deployment.unfit \cup proc[q].stale
    /\ on' = [on EXCEPT ![q] = Tried(deployment, p, @)]
    /\ proc' = [proc EXCEPT ![q].todo = @ \ {p}]
    /\ UNCHANGED <<deployment, files, cfg, requests>>

\* All persisted plugins were tried; if none is enabled the defaults are.
Loaded(q) ==
    /\ proc[q].pc = "loading"
    /\ proc[q].todo = {}
    /\ proc' = [proc EXCEPT ![q] =
                  [Down EXCEPT !.pc = IF on[q] = {} THEN "defaults" ELSE "serving",
                               !.todo = IF on[q] = {} THEN Defaults ELSE {},
                               !.alone = proc[q].alone]]
    /\ UNCHANGED <<deployment, files, memory, requests>>

\* enable_plugin: enable in memory, then persist.
EnablePlugin(q, op, p) ==
    /\ p \notin deployment.unfit \cup deployment.faulty
    /\ MayEnable(deployment, p, on[q])
    /\ on' = [on EXCEPT ![q] = @ \cup {p}]
    /\ ReadFile(q, op, p, TRUE)
    /\ UNCHANGED <<deployment, files, cfg>>

EnableDefault(q, p) ==
    /\ proc[q].pc = "defaults"
    /\ p \in proc[q].todo
    /\ EnablePlugin(q, "default", p)
    /\ UNCHANGED requests

\* A default that enable_plugin refuses with a ValueError.
SkipDefault(q, p) ==
    /\ proc[q].pc = "defaults"
    /\ p \in proc[q].todo \ deployment.unfit
    /\ p \in deployment.faulty \/ ~MayEnable(deployment, p, on[q])
    /\ proc' = [proc EXCEPT ![q].todo = @ \ {p}]
    /\ UNCHANGED <<deployment, files, memory, requests>>

Serve(q) ==
    /\ proc[q].pc = "defaults"
    /\ proc[q].todo = {}
    /\ proc' = [proc EXCEPT ![q].pc = "serving"]
    /\ UNCHANGED <<deployment, files, memory, requests>>

-----------------------------------------------------------------------------
(***************************************************************************)
(* Administrators, and commands in a shell.                                *)
(***************************************************************************)
Request(q, procs) ==
    /\ q \in procs
    /\ proc[q].pc = "serving"
    /\ requests < MaxRequests
    /\ requests' = requests + 1

AdminEnable(q, p) ==
    /\ Request(q, Workers)
    /\ MayEnable(deployment, p, on[q])
    /\ p \notin deployment.unfit
    /\ ReadFile(q, "admin", p, TRUE)
    /\ UNCHANGED <<deployment, files, memory>>

\* Nobody asks which plugins depend on p.
AdminDisable(q, p) ==
    /\ Request(q, Workers)
    /\ ReadFile(q, "admin", p, FALSE)
    /\ UNCHANGED <<deployment, files, memory>>

\* PUT config: config.json alone, not the plugin in memory.
AdminSaveConfig(q, p, c) ==
    /\ Request(q, Workers)
    /\ proc' = [proc EXCEPT ![q].pc = "config", ![q].op = "put", ![q].plugin = p,
                            ![q].value = c, ![q].config = config]
    /\ UNCHANGED <<deployment, files, memory>>

ShellEnable(q, p) ==
    /\ Request(q, Shells)
    /\ p \notin on[q]
    /\ EnablePlugin(q, "shell", p)

\* Mutant: no question who depends on p.
ShellDisableUnasked(q, p) ==
    /\ Request(q, Shells)
    /\ p \in on[q]
    /\ on' = [on EXCEPT ![q] = @ \ {p}]
    /\ ReadFile(q, "shell", p, FALSE)
    /\ UNCHANGED <<deployment, files, cfg>>

\* disable_plugin looks for p itself in the dependencies as they are written,
\* and so finds a dependent only if it names no version range.
ShellDisable(q, p) ==
    /\ Request(q, Shells)
    /\ p \in on[q]
    /\ \A d \in on[q] : p \notin deployment.bare[d]
    /\ on' = [on EXCEPT ![q] = @ \ {p}]
    /\ ReadFile(q, "shell", p, FALSE)
    /\ UNCHANGED <<deployment, files, cfg>>

-----------------------------------------------------------------------------
Next ==
    \E q \in Procs :
        \/ Boot(q) \/ Stop(q) \/ Loaded(q) \/ Serve(q)
        \/ WriteFile(q) \/ WriteConfig(q)
        \/ \E p \in Plugins :
            \/ ReconcilePin(q, p) \/ Restore(q, p)
            \/ EnableDefault(q, p) \/ SkipDefault(q, p)
            \/ AdminEnable(q, p) \/ AdminDisable(q, p)
            \/ \E c \in Configs : AdminSaveConfig(q, p, c)
            \/ ShellEnable(q, p) \/ ShellDisable(q, p)

Spec == Init /\ [][Next]_vars

-----------------------------------------------------------------------------
(***************************************************************************)
(* What a boot should make of the plugins W persisted as enabled: the      *)
(* least set that has every plugin of W whose dependencies are in it, whose*)
(* version ranges are met, which is licensed, and which does not raise.    *)
(***************************************************************************)
Fine(d, W) == (W \cap d.licensed) \ (d.faulty \cup d.outdated)

Closed(d, W, S) == \A p \in Fine(d, W) : Requires(d, p) \subseteq S => p \in S

Bootable(d, W) == {p \in W : \A S \in SUBSET W : Closed(d, W, S) => p \in S}

ProcType ==
    [pc: {"down", "loading", "defaults", "serving", "file", "config", "done"},
     want: SUBSET Plugins, stale: SUBSET Plugins, todo: SUBSET Plugins,
     op: {"none", "pin", "default", "admin", "put", "shell"},
     plugin: Plugins \cup {{}}, flag: BOOLEAN, value: Configs \cup {NoConfig},
     file: Files, config: ConfigFiles, alone: BOOLEAN]

\* Types of the variables.
TypeOK ==
    /\ deployment \in Deployments
    /\ file \in Files
    /\ config \in ConfigFiles
    /\ on \in [Procs -> SUBSET Plugins]
    /\ cfg \in [Procs -> ConfigFiles]
    /\ proc \in [Procs -> ProcType]
    /\ \A q \in Procs :
         /\ proc[q].stale \subseteq proc[q].want
         /\ proc[q].pc \in {"file", "config"} => proc[q].plugin \in Plugins
    /\ requests \in 0..MaxRequests

\* A boot enables exactly the plugins it should of those that plugins.json
\* named when it was read, whatever their order in the file, dependency cycles
\* among them, and whatever other processes write meanwhile
\* (load_persisted_state, DependencyResolver.enable_order and check).
BootEnablesBootable ==
    \A q \in Procs :
        (proc[q].pc = "loading" /\ proc[q].todo = {})
            => on[q] = Bootable(deployment, proc[q].want)

\* No process ever has a plugin enabled that needs a licence and has none:
\* the boot, its defaults, the administrators' route and the shell, which
\* enable plugins in three different ways, all have the gate (check_license).
ActiveIsLicensed ==
    \A q \in Procs : \A p \in on[q] : Licensed(deployment, p)

\* What a process has enabled is so in plugins.json, unless another
\* process wrote the file since its boot: memory and file, which the boot,
\* the defaults, the route and the shell update in different orders, agree
\* whenever it is not in the middle of one of them.
EnabledIsPersisted ==
    \A q \in Procs :
        (proc[q].alone /\ proc[q].pc \in {"loading", "defaults", "serving", "done"})
            => on[q] \subseteq Persisted(file)

\* What a command in a shell leaves enabled, the next boot enables too:
\* disable_plugin refuses to break a dependency, and enable_plugin has the
\* gates of the boot.  For plugins whose dependencies name no version range:
\* disable_plugin overlooks the others.
CommandOutlivesShell ==
    (\A p \in Plugins : deployment.ranged[p] = {})
        => \A q \in Shells :
             (proc[q].alone /\ proc[q].pc \in {"serving", "done"})
                => on[q] \subseteq Bootable(deployment, Persisted(file))
=============================================================================
