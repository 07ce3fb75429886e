# stackwiz in TLA+

stackwiz installs stacks of components on a host (`wizinstall`), registers them
in Consul and Vault, and runs a daemon, stackwiz-hub, that mirrors a registry of
the installed services into MCPJungle and keeps a central knowledge base in step
with its sources. This directory holds TLA+ models of those parts, TLC runs on
small instances and TLAPS proofs for all instances. Paths below are relative to
the repository.

## 1. The system

| part | state it keeps | operations | talks to |
|---|---|---|---|
| installer engine and pipeline (`src/stackwiz/engine.py`, `pipeline.py`) | position in the plan, backend clients, the install token of a step; everything else is in files and backends | install, uninstall; per step prepare, script, revoke, adopt, publish, persist | state file, executor, Consul, Vault |
| state file and planner (`state.py`) | `installed.yaml` (version and configuration hash per component), `config.yaml` | plan, mark installed or uninstalled, save | engine, command line |
| command line, headless runner, TUI (`cli.py`, `headless.py`, `app.py`, `screens/`) | selection and values of one run | start a run | engine |
| manifest (`manifest.py`) | none at run time | parse, validate, topological order | engine |
| backend clients, discovery, tokens (`consul_client.py`, `vault_client.py`, `discovery.py`, `tokens.py`, `backends/`) | connection and token; token files in the state directories of all stacks of a host | probes, resolution of tokens, catalog, KV, policies | Consul, Vault, other stacks' files |
| registry publication (`engine.py`) | registry documents and tokens in Vault, pointers in Consul | publish, withdraw | hub, through the backends |
| hub reconciler (`stackwiz_hub/`) | the names it registered, in memory only | one cycle: fetch, read, prune, upsert | Consul, Vault, MCPJungle |
| KB synchronisation (`stackwiz_hub/kb_source.py`, `write_back.py`, `stackwiz_kb_serve/router.py`) | copies in the kb-repo, cached hashes in memory, a state file of pushed trees | health, snapshot, replace, push | sources over HTTP |
| secrets (`secrets.py`, `secrets_env.py`), shared key pair (`vault_client.py`) | values in Vault, a file for user secrets | materialize, upload, delete, seed | Vault |
| executor (`executor.py`) | one subprocess, two pumps and a queue | run, cancel | engine |
| configuration layers (`config_overrides.py`; `screens/domain.py`, `screens/config.py`; `scaffold.py` for `init-env`) | `config.yaml`, `.stackwiz.env` | merge, interpolate, rederive, save, render | headless runner, screens, engine |
| certificate backup (`cert_backup.py`) | certificate directories, tarballs | backup, restore | host |
| information, scaffold, shell helpers (`info.py`, `scaffold.py`, `share/`) | none, or host configuration | output, templates, scripts | operator, components |

What is hard about it:

- **Runs die.** A script fails, a backend call fails, the process is killed
  between any two effects. Nothing is transactional: the next run has only
  `installed.yaml` and the catalog to go by. Correct means: nothing is recorded
  that was not applied, what was interrupted is planned again, no data in use is
  installed over, nothing is run on a failed dependency, no token outlives its step.
- **Backends come and go.** A stack may bring its own Consul or Vault, so the
  engine gains a client in the middle of a run and must register what ran
  before. Correct means: what a component looks up is there, and between runs
  catalog and policies match the state file.
- **Publication is several calls**, read by a hub that runs at its own pace and
  only remembers in memory. Correct means: once the registry is at rest,
  MCPJungle has what is published, and nothing else.
- **Both sides of a knowledge base are edited** while hash, snapshot, local swap
  and push happen one after the other. Correct means: the copy converges, and the
  hub never believes it has what it has not.
- **A script's output comes through two pumps and a queue**, while the script may
  block, be cancelled, or leave processes behind. Correct means: the exit code is
  the last thing reported, no line is lost, the run ends.
- **Secrets are moved, generated and uploaded call by call.** Correct means: a value
  in use is never replaced, a value the operator supplied is never lost, the two
  halves of a key pair fit.
- **The values of a run come from four layers**, two of which earlier runs or
  screens wrote, and refer to one another. Correct means: nothing derived from an
  old domain stays, what was chosen stays, and a repeated run changes nothing.
- **A backend is found by trying doors**, and trusted by policies and tokens that
  files, variables, other stacks and Vault provide at different times. Correct
  means: the client fits what the probe found, and a token once found stays found.
- **Restores of certificates** touch live keys, file by file, on bind mounts that
  cannot be renamed, and may die anywhere. Correct means: nothing is lost, and a
  restore that says so has restored.
- **Concurrent installers** of one stack are listed as a hazard in `PROJECT.json` and
  belong to the plan.

## 2. Modules

| module | models |
|---|---|
| `Installer` | runs of one stack's installer, phase by phase, with the state file and the backends |
| `InstallerProps` | its properties, the claims of the documents, and convergence |
| `ComponentLedger` | the abstract specification: what a state file promises about a host |
| `InstallerProofs` | theorems about `Installer` and `Manifest` |
| `Manifest` | the order of a manifest's components, as `_topo_sort` computes it |
| `Hub` | publication and withdrawal of registry entries, the hub's MCP cycle |
| `HubProps`, `HubProofs` | its properties and theorems |
| `KbSync` | one knowledge base source, its copy, and the hub's pull and write-back |
| `KbSyncProps`, `KbSyncProofs` | its properties and theorems |
| `Executor` | one script run: process, pumps, queue, cancellation |
| `Transcript` | the abstract specification: what a script run promises |
| `ExecutorProps`, `ExecutorProofs` | its properties and theorems |
| `Secrets` | the secrets of a stack in Vault and on disk, and the shared key pair |
| `SecretsProps`, `SecretsProofs` | its properties and theorems |
| `Config` | the configuration of a stack over many runs |
| `ConfigProps`, `ConfigProofs` | its properties and theorems |
| `CertBackup` | backup and restore of the certificate paths, entry by entry |
| `CertBackupProps`, `CertBackupProofs` | its properties and theorems |
| `Backends` | how the runs of a host's stacks find Consul and Vault and get their tokens |
| `BackendsProps`, `BackendsProofs` | its properties and theorems |
| `MC*` | small instances |

Operators marked "a bug" are wrong versions of a definition below them; no
specification uses them. They show that the properties notice such a change.

### Installer

`installed` is `installed.yaml`; the entry of a component is a version and a
configuration, standing for the version and `config_hash` the file holds
(`component_config_hash`). `host` is what the last successful script left, or
`Unknown` while and after a script that has not succeeded; the code cannot see
it. `catalog` and `policies` are what this node registered in Consul and
the per-component policies in Vault; `held` is the token of the current step and
`orphans` the valid tokens that nobody will revoke any more. `client` are the
backends for which this run has a client, `up` those that answer.

| action | code |
|---|---|
| `StartInstall` | `Engine.install`: save config, plan, heal registrations and policies |
| `SecretsMissing` | `materialize_secrets` raising before the first step |
| `StartUninstall` | `Engine.uninstall` |
| `Skip`, `Prepare`, `PrepareRaises`, `BeginRemoval` | the head of `run_pipeline`'s loop and `prepare` of a step (`_mint_install_token`, `_mint_runtime_token`, `_component_env`) |
| `ScriptSucceeds`, `ScriptFails` | the end of the script |
| `FinishScript`, `Abort` | the `finally` that revokes, and the failure exit |
| `Adopt`, `NothingToAdopt` | `_adopt_consul_after_install` and its Vault twin |
| `Publish`, `Unpublish` | `_post_component_publish`, `_cleanup_backends` |
| `MarkInstalled`, `MarkUninstalled` | `persist` and `State.mark_*` |
| `Crash`, `BumpVersion`, `LeaseEnds` | a kill at any phase, a new manifest, the end of a token's lease |

`Prepare` applies up to two policies before the script runs (`Granted`, `MintTokens`):
that of the install token and, for a component with `vault_runtime` (`Runtime`), its
service policy. The latter stays when the script fails, so after a failed first install
a component that is not recorded has one: `BackendsMatchRecord` says exactly which ones
may. The runtime token itself goes into the script's environment and is not modelled.

`TornWrites` says whether a kill may hit `_save_installed` between truncation and
write; the code does not prevent it, so runs and theorems that need it name it.

`Order` is a constant here, assumed to be topological. `Manifest` has the search that
computes it: `Visit` is the recursive `visit` as a function of the searches so far, by
the depth it may still go down to. `MCInstaller` checks the assumption for every manifest
of three components, with and without cycles (`OrderIsTopological`), each time it is run,
and that the orders of its instances come out of that search; `ManifestOrder` and
`AcceptedIsAssumed` prove it for every manifest.

### Hub

Every call of an engine or of the hub is an action, so engines and hub interleave
call by call. A failing call is `Fault`, with every effect it may have had. The
blocking query is left out: a fetch may return at any time, as its timer makes it
do (`reconcile_safety_interval_s`). `known` is `_known_mcp_names`, lost by
`Restart`. `Longer` gives the names of which a name is a prefix, since
`kv_delete_tree` deletes by prefix; in all instances one of the two names is a prefix of
the other (`Related`). So withdrawals take the pointers of others along, which
`RegistryMatchesRecord` allows for. When the document of an entry
cannot be written, the code goes on with the next entry; `PublishConfig` allows it to go on
with the pointer of the same one too.

### KbSync

A tree is a function from files to contents and stands for its hash, which the
two `tree_sha` functions compute alike. `Health` and `Snapshot` are the two
requests of `pull_if_changed`; `RemoveOld` and `RenameNew` the swap of
`_replace_tree_from_tar`; `Compare`, `Pack`, `Post`, `SaveAnchor` the steps of
`maybe_push`, with the source's extraction in `Post`. A request's reading or
extraction of a tree is one step. `EditSource` and `EditCentral` may come between
any two. `Fresh` restricts edits to content never seen before (and to deleting,
at the source, files that were there from the start): without it, a source that
is changed and changed back has an old hash again, and no scheme that compares
with the last hash notices. `TornTrees` says whether `rmtree` may fail half-way.
`pulled` and `touched` are history for the properties.

### Executor

The tasks of one event loop interleave at their awaits, which is where the actions
end. Lines are numbered per stream: those up to `written` are written, those up to
`taken` read by the pump. `Write`, `ReadText`, `Exit` and `Close` are the script
and whatever it leaves in the background, which may keep the streams open.

| action | code |
|---|---|
| `Start`, `Feed`, `FeedRaises` | `create_subprocess_exec`; writing the text, starting the pumps; a `drain` that raises |
| `PumpLine`, `PumpEof`, `PumpBreaks` | a turn of `pump`; its sentinel; `readline` raising on a line beyond 64 KiB |
| `GetLine`, `GetEof`, `ReportExit` | the loop over the queue with `_run_script` as its consumer; `proc.wait` and the exit event |
| `Cancel` | a `CancelledError` from the Abort button or Ctrl-C, at the await of each phase |
| `GracePasses`, `Reaped`, `Gather` | the handler's five seconds, the end of its wait, the `finally` clause |

`LargeText` says whether the script text outgrows pipe and write buffer, so that
`drain` waits for the script to read; `TooLong` are the numbers of over-long lines.
`Transcript` has only what the engine relies on: lines in order, then one outcome.

### Secrets

`now` and `old` are the values at a secret's path and at that of its previous id,
`file` the operator's lines in `.stackwiz.secrets.env`, `stray` lines for ids the
manifest has renamed. `given` is what scripts last got, `wanted` the operator's
last word; `misread` are the secrets whose value a failed read hid since `given` was set,
`misnamed` those whose last line was for an id that the manifest then gave up, `clash`
whether seeders overlapped or one was misled: all history for the properties. Each call to Vault is a step, and
a run may end after any (`Crash`).

| action | code |
|---|---|
| `SeedCheck`, `SeedKey`, `SeedPub`, `SeedFails` | `ensure_shared_kb_sync_keypair`, of this installer and of another |
| `Start`, `Upload`, `Strip` | `Engine.install`, `_upload_user_secrets`, `rewrite_after_upload` |
| `StripTorn` | a kill in its `write_text`, between truncation and write |
| `Pick`, `Migrate`, `Drop`, `Read`, `Generate` | `materialize_secrets` and `_migrate_previous_ids`, per secret |
| `Give` | the steps that get the values |
| `BeginSweep`, `Sweep`, `EndSweep` | `delete_secrets` in `Engine.uninstall` |
| `Fill`, `Rename` | the operator's edits and a manifest with `previous_ids`, between runs |

A read to which Vault answers with an error is taken for absence by `kv_get` (`Seen`,
`ReadOutcome`), and the rewrite of the file may be torn by a kill; both are failures
like that of any other call, in all runs and in all theorems. They cost values, and the
properties say when. Scripts get another value of a generated secret only if
a failed read hid the one they had (`NeverRotated`). A value that the operator supplied
is lost in three ways (`NothingLost`): a torn rewrite takes a line that was not
uploaded; a rewrite drops the line of a secret that was renamed before it was uploaded; a
value left at the old path by a refused delete is moved over a newer one that a failed
read hides. `_adopt_vault_after_install` makes the same calls in the same
order in the middle of a run; it is not a second set of actions.

### Config

A text is a sequence of pieces, literals and `${key}` references, so that
`Interpolate` does what the regular expression does and a literal is never taken
apart; `Pass` and `Settle` are the passes of `_recursive_interpolate` and the second
round after `domain_dn`. `last` is history: what the last run that got past saving
worked from and with. The order of the keys in a pass is that of the manifest; in the
code a field without a default comes where the cache or the file first names it. That
makes no difference: under the hypothesis of the theorems (`Resolvable`, section 4) four
passes come to the one solution of all texts.

| action | code |
|---|---|
| `Headless` | `run_headless`: `effective_config`, required values, `save_config` |
| `OpenScreens`, `DomainNext`, `Back`, `ConfigNext`, `Quit` | the terminal session: what it loads once, `rederive_for_domain`, the form, saving |
| `Save` (in both) | `save_config`, or a kill that leaves `config.yaml` empty (`torn`) |
| `EditFile`, `RemoveLine`, `BreakFile`, `InitEnv` | the operator's file, and `init-env` over it, with `--force` or not |
| `Upgrade`, `HostMoves` | another release; another detected address, or none |

### CertBackup

A path holds a tree: entries, each at a place below the path (the stamps of the
`.before-restore-<stamp>` directories it was moved into) and named for a file, with the
version of what it holds and whether others may read it; version 0 is a file cut
short. `siblings` are the renamed trees beside a path. A backup reads entry by entry,
a restore lays down entry by entry, and each is a step.

| action | code |
|---|---|
| `BeginBackup`, `OpenPath`, `CopyEntry`, `WriteTar` | `backup` |
| `BeginRestore`, `Skip`, `Fresh` | `restore`: its checks, and the paths it leaves alone or finds empty |
| `RenameAside`; `BeginMove`, `MoveChild`, `MovedAll` | `_move_aside`, by rename; for a bind mount, child by child |
| `MakeDir`, `LayEntry`, `LayFails`, `LaidDown` | `mkdir`, `copytree` and its collected errors |
| `Reassert` | `_reassert_private_key_perms` |
| `Crash`, `Issue`, `Loosen` | the death of the tool; renewals, also during a backup; what strips modes from a tarball |

### Backends

`net` says what answers at every url, under which certificate; a url is a host and a
door (native port over TLS, proxy on 443, native port in the clear). `files` are
`vault-token` and `consul-http-token` of every stack of the host, `scoped` the token a
sibling keeps for it; `had`, history, is the Consul token the stack last got.

| action | code |
|---|---|
| `FindBackends` | `probe_consul`, `probe_vault`, `resolve_vault_token` and the clients of `build_backends` |
| `ResolveConsulToken`, `Cache` | `resolve_consul_token`; writing the token file, which may fail |
| `InstallVault`, `InstallConsul` | the scripts of these components: a server and a token file |
| `AdoptVault`, `AdoptConsul` | `_adopt_vault_after_install` up to its client, and its Consul twin |
| `EndRun`, `Crash`, `Purge`, `GiveScoped`, `Rewire` | ends of runs; a purged state directory; a scoped token; the world |

## 3. Runs

All runs say `CHECK_DEADLOCK FALSE`: the models stop when the bounds on runs,
edits or publications are used up, and an installer nobody starts is idle.

| run | shows |
|---|---|
| `core` | Types; no script on a failed dependency and no dependency removed before its dependents (`DependenciesFirst`, `DependentsGoneFirst`); an interrupted step is planned again (`InterruptedIsRetried`); steps revoke their tokens (`StepsRevokeTokens`); catalog and policies match the state file, but for the policy an unfinished step may leave with a runtime token (`BackendsMatchRecord`); no installation over data in use (`DataSurvives`); refinement of `ComponentLedger` (`ImplementsLedger`) |
| `converge` | a stack with its own Consul: what ran before Consul can be looked up in the same run (`SameRunDiscovery`); applying one configuration again and again converges (`ConvergesToOne`) unless an interrupted script left a recorded backend down |
| `hub_serve` | no pointer outlives its component, and an installed component has its pointer unless its name starts with another's (`RegistryMatchesRecord`); between cycles MCPJungle is what the last cycle read; what is published is served, after any failures and restarts; without them, nothing else is |
| `kb_sync` | a copy believed up to date is so; source and copy become alike; pushes stop |
| `executor` | a cancelled script is dead (`CancelledIsDead`), runs end (`Finishes`), no full pipe stays full (`Unblocked`); refinement of `Transcript` (`ImplementsTranscript`), so that the exit code comes after the script and all of its output |
| `secrets` | under any two failures, scripts are given another value of a generated secret only if a failed read hid it (`NeverRotated`), a supplied value is lost in the three ways above only (`NothingLost`), the shared pair fits unless seeders overlap or misread (`PairMatches`); without failures no value stays on disk (`FileEmptied`) |
| `config` | what is derived, and not set by the operator, fits the values of the same run (`Consistent`); choices survive upgrades, edits and moves (`Kept`); a headless run repeated in the same place comes to the same values, so that nothing is reconfigured (`Repeats`) |
| `cert` | the last copy of a certificate or key is never taken off the host (`NothingLost`); a restore that ends well is the backup (`RestoredIsBackup`) and can be rolled back (`CanRollBack`), whatever crashed before |
| `backends` | a Vault client accepts the Vault its probe accepted, also one that was just installed (`Usable`); a stack goes on with the Consul token it got, when its source is gone (`StaysAuthenticated`) |

Each of the other runs finds the code at odds with what the repository says of it:

| run | what TLC finds |
|---|---|
| `tornstate` | a kill during the save empties the state file; the next run "installs" over live data |
| `kb_repull` | after a restart the hub's re-pull discards edits of the copy not yet pushed |
| `executor_longline` | a line beyond 64 KiB ends its pump without a sentinel: the run hangs although the script has exited |

More disagreements are in the models, seen with TLC and left without a run of
their own.

Installer and hub:

- A missing discovery target raises in `prepare`, outside the `try` whose `finally`
  revokes (`pipeline.py:98`): the install token stays valid for its lease
  (`vault-integration.md:63`: "Revoked at end of install run.").
- After a failed refresh a plain re-run reports "up to date" and repairs nothing
  (`Skip` with `host` `Unknown`; `docs/CONSUMER.md:572` says to just re-run).
- Withdrawing `kb` deletes the pointer of `kb-mail`, too, whose component stays installed and
  is not published again (`engine.py:980` calls withdrawal the mirror of what "the install
  wrote"): `RegistryMatchesRecord` fails without its exception for such names.
- One failed read of Vault makes the hub delete a published server until it reads the
  entry again (`reconciler.py:111`; `stackwiz_hub/vault_client.py:48` says that the
  entry is skipped).
- A server withdrawn around a restart of the hub is never deleted
  (`MirrorsUndisturbed` holds only without restarts and failures).
- The hub pushes back a tree that it just pulled, over an edit made at the source
  meanwhile (`Compare` looks at the anchor only).

Secrets and configuration:

- One read that Vault refuses makes a run generate an immutable secret again
  (`secrets.py:119`: "Immutable secrets are never regenerated."): `NeverRotated` fails
  without its exception for `misread` secrets.
- The rewrite of the secrets file drops lines for keys that the manifest does not know
  (any more), perhaps with the only copy of a value (`engine.py:1084`: "left in place"). This
  is the loss by `Strip` in `NothingLost`, and takes no failing call.
- In a headless run a line of the operator's file replaces what an earlier run saved, while
  the header that `init-env` writes into that very file (`scaffold.py:188`) and
  `docs/CONSUMER.md:355-361` have it the other way round. Where documents
  disagree (`screens/config.py:38`: "Priority: .stackwiz.env > saved state > manifest
  defaults.") no property takes a side: `Kept` is about fields without a line.
- Leaving the domain screen drops a line of the file for a derived field, against that
  sentence of `screens/config.py:38` (`DomainNext` re-derives every derived field).
- A domain typed on the screens is not that of later headless runs, unless it is a field
  of the manifest (`docs/CONSUMER.md:357`: re-runs "remember what you typed last
  time"); `Repeats` therefore asks for one.
- `init-env --force` replaces a line for a derived field by the manifest's rendering,
  writes detected addresses and interpolated values into the file, and takes a file
  that is not YAML for an empty one.
- A failed detection of the node's address is saved as the field's value and never
  retried (`Kept` has it).

Backends:

- A self-signed Vault that a run installed and adopted is not found by the next run
  without `VAULT_CACERT` or `STACKWIZ_VAULT_VERIFY` (`docs/CONSUMER.md:773`: the token
  is stored "for re-adoption on re-runs").
- An adopted client does not verify whenever the token file exists, even if the first,
  strict probe succeeded (`engine.py:712`: "If we retried with verify=False").
- Consul is adopted in the manifest's domain and Vault in the run's, although the
  comment at `engine.py:675` gives the reason why the former fails.
- Any answer below 500 is taken for Consul's (`ConsulOk`), so that a proxy's default
  page is adopted; for Vault the code is stricter.

**Bounds.** Orders and dependencies matter between two components, and a third is
needed for a backend in the middle: hence two (`core`) and three (`converge`).
Two versions and two configurations give every planner action; three runs allow
install, failed change, and repair or removal; a fault and a script failure may
fall on any phase of any run. Two entries suffice for the hub, which treats names
separately but for prefixes; three publications allow publish, change and
withdraw. Two files allow a push or a removal to be partial; two edits put one on
each side, or two on one, around any call. For a script, a
pipe of one line, three lines per stream and one over-long line fill pipes, break a
pump and order the streams either way; two cancellations reach the handler's own
waits. For secrets, a generated one, a mandatory and an optional one take all
branches of `Read`; three runs allow install, sweep and install; two failures may
fall on any calls, an upload and the rewrite after it among them. All three ways of
`NothingLost` occur: without any one of them TLC finds the property violated. For configuration,
four fields make a url of a host of the domain, in the wrong order, and two releases freeze, re-derive or drop them; three runs and two
edits allow run, change, run. For certificates, a renamed path and a bind mount with a
key and a certificate take all branches of `_move_aside`; four runs allow a backup, a
restore that dies, its repetition and one more. For tokens, three runs and two changes
allow one stack to get a token, the other to copy it, the source to be purged and the
copy to be used. Bounds on faults and restarts also
express that they stop, which the liveness properties need.

**Fairness.** `converge` assumes that the operator (or a CI job) comes back
(`WF(Reapply)`) and that a started run goes on (`WF(Step)`): the pipeline is a
plain loop, and a script that hangs is outside the model. `Hub` and `KbSync`
assume `WF(Cycle)`: `main` loops, catches every exception and retries after a
bounded backoff, and all clients have timeouts. Nothing is assumed of engines,
people, failures or restarts. `Executor` assumes that the event loop runs every
task that is ready (`WF` of the generator and of each pump) and that a process dies
of SIGKILL; nothing else of scripts, which may run for ever.

## 4. Proofs

For all values of the constants (`*Proofs.tla`), checked by tlapm:

| theorem | says | assuming |
|---|---|---|
| `TypeCorrect` | types of `Installer` | |
| `DependenciesComeFirst`, `DependentsGoFirst` | the two order properties | |
| `InterruptedStepsAreRetried` | `InterruptedIsRetried` | |
| `InstallKeepsData` | `DataSurvives` | `~ TornWrites` |
| `LedgerImplemented` | `Installer` implements `ComponentLedger` | `~ TornWrites` |
| `ManifestOrder` | `SortsTopologically`: a manifest is accepted if and only if it has no cycle, and its order has every component once, after all that it depends on | no dependency is unknown |
| `AcceptedIsAssumed` | the order of an accepted manifest is all that `OrderAssumption` asks of `Order` | no dependency is unknown |
| `StepsAlwaysRevoke` | `StepsRevokeTokens` | |
| `BackendsAlwaysMatch` | `BackendsMatchRecord` | |
| `RunsFindTheirOwn` | `SameRunDiscovery` | |
| `HubTypeCorrect`, `KbTypeCorrect` | types | |
| `RegistryCorrect` | `RegistryMatchesRecord`, for any names | |
| `MirrorCorrect` | `MirrorsCycle` | |
| `UpToDateCorrect` | `UpToDateIsAlike` | `~ TornTrees` |
| `ExecutorTypeCorrect`, `SecretsTypeCorrect` | types | |
| `ExitComesLast` | `ExitIsLast`: the exit code is the script's, and every line has come before it | |
| `CancelledRunsAreDead` | `CancelledIsDead` | |
| `TranscriptImplemented` | `Executor` implements `Transcript` | |
| `NothingIsLost` | `NothingLost` | |
| `FileIsEmptied` | `FileEmptied` | |
| `GeneratedValuesStay` | `NeverRotated` | |
| `PairAlwaysMatches` | `PairMatches` | |
| `CertBackupTypeCorrect`, `BackendsTypeCorrect` | types | |
| `CertificatesAreKept` | `NothingLost` of `CertBackup` | |
| `RestoresTheBackup` | `RestoredIsBackup` | |
| `RestoresCanBeUndone` | `CanRollBack` | |
| `KeysStayPrivate` | `KeysPrivate`: after a restore no key below the TLS path can be read by others | |
| `VaultsAreUsable` | `Usable` | |
| `StacksStayAuthenticated` | `StaysAuthenticated` | |
| `ConfigTypeCorrect` | types | |
| `ConfigIsSettled` | the inductive invariant `ConfigInv` | `Resolvable` |
| `ConfigConsistent` | `Consistent` | `Resolvable` |
| `ChoicesAreKept` | `Kept` | `Resolvable` |
| `RunsRepeat` | `Repeats` | `Resolvable` |

An empty third column means: for all values that the assumption of the module allows,
failures of every kind included. `~ TornWrites` is an assumption that the code does not
keep: `tornstate` drops it, and TLC refutes `DataSurvives`. `~ TornTrees` and
`Resolvable` delimit what the properties speak of; sections 2 and below say what lies
outside.

*Installer.* None of the order properties is inductive. `Ordered` adds: what the
run has passed is done or skipped (`DoneBehind`), what lies ahead still has
the state-file entry it was planned from (`OpenAhead`), what an uninstall has
passed is off the state file (`GoneBehind`), and what the phase says of the
current step (`CurrentStep`). `Kept` says that the components in use are recorded;
what it needs of the plan comes from `OpenAhead`. Topological order, an assumption
on `Order` and `Depends`, carries "dependency" to "behind".

What is said of the backends is about states between runs, and needs what holds in the
middle of one, as long as nothing failed. `Holding` says in which phases a step has a token,
and `NoneLeft` that no other is valid. `Matched` says that the catalog has what the state
file records and, of the current step, what its phase has published or withdrawn
already (`Shown`), with the same for policies (`GrantedWell`), where a runtime
component whose step was begun but has not succeeded may have one (`Begun`); `Reachable` that the run has its clients.
`Findable` says that once the run has a client for Consul, each service that the run
has been through is in the catalog. Components may share a service name, and the
adoption registers only the first of them, so the proof argues by the component with the
least position (`LeastNumber`).

*Manifest.* What the search does is proved by `Induction`, along a sequence of ids and over the
depth left (`ThroughSteps`, `VisitSteps`). It is `Sound` as long as it has found no cycle: the
order is sorted so far and apart from the ids on the stack, so an id that is left is appended
once, after all that it depends on. That it finds none where there is none needs the
stack to be a `Path`: each id on it depends on another on it, or on the one that comes
next, so meeting an id on the stack again gives a set without an end, which `Acyclic`
excludes. For the same reason the depth that `Visit` allows is never used up.

*Hub.* `Publications` says that an engine publishes for a component that is installed, and
withdraws for one that is gone and whose pointer is gone already. A withdrawal may take the
pointer of a longer name along, but never that of a name that starts with no other,
and puts none in place. `Tracked` relates, per name and phase, what the cycle read (`resolved`),
what it may delete (`known`, `fresh`, `todo`) and what MCPJungle has: a server
that was not read is about to be pruned or gone, one that was read and is not
`todo` any more is as read.

*KbSync.* `UpToDateIsAlike` needs a reason why the cached hash cannot come true
again by accident: the hash is read before the snapshot, so the copy may be a
later tree than its cached hash. `Later` orders contents of a file by when they
were written; the invariant says that source and copy are file by file at or
after the cached tree (`Cached`), that a pull has begun, or the copy is missing,
only if the source moved on (`Outdated`), and that a copy which differs from
its cached tree has a later file that the source has later as well (`Ahead`),
which no edit and no push can take back.

*Executor.* `Stages` ties the phase of the generator to pumps and process, `Deaths`
says which phases a living script is left in, and `Flow` follows the lines: what was
delivered, then what is queued, are the lines up to `taken`, in order, and a
sentinel in the queue is behind all of its stream's lines. So when no sentinel is
awaited any more, all that was written has been delivered.

*Secrets.* `Moves` says where a rename in progress has the value; `Words` that a line
of the file is the operator's last word, that a line for a previous id is so only of a
misnamed secret, that what is uploaded is in place, and that all lines hold values made
up earlier, so that a new value is like no old one. `LossStep` then takes the steps one by
one: those that lose a supplied value are the three. `Keeps` says that what scripts use is
in Vault, at the old path as long as nothing is at the new one, and that a value is made
up only when both are empty, each of a secret that no failed read has hidden;
`Pairing` that a lone seeder that read well works on an absent pair; `Emptying` and
`Filed` that, as long as no call failed, a line still on disk during the uploads is
among those to do or just uploaded, and that a last word is on the disk or in Vault.

*CertBackup.* `Places` says that every entry, of a tree, a sibling or a tarball, is at a
place whose stamps have been given out; `Ahead` that what the running restore has
still before it holds no entry at the place of its own stamp, that what is moved meets nothing
there, and that what is left to lay down is not there yet. So moving and laying down
never overwrite an entry. What a restore has done so far is followed path by path:
the paths behind it are the backup's, with the old tree aside, those ahead are as
found.

*Backends.* `Held` says that the token a stack last got is in its file, and that a token is
only about to be written when there was none; `Running` that a run has the clients its
place asks for. What a probe returns is one of its urls and was accepted there
(`ProbedVaultIsUrl`), because `First` picks a good place of a sequence.

*Config.* The values of a run come out of sixteen or more recursive substitutions, over
as many fields as the manifest has. Induction over data is beyond the prover only in the
library's form, with an operator as parameter. `Induction` states it for a set of
numbers, `Iteration` that a recursion over `0 .. n` has a solution; with these, what
`Interpolate` and a pass do follows from what they do to one piece and to one key.

`Resolvable` is the hypothesis. It gives the keys of each release ranks from 0 to 4 so that
every text, of the manifest or of the file, refers to keys of a smaller rank only. The
invariant of a pass is then `Tidy`: a text and what it refers to are more than `p` ranks
apart after `p` passes (`PassTidy`), because each substitution puts in a text that is
itself as far from what it refers to. After four passes there is nothing left to refer to,
and what the texts have come to solves all of them at once (`Resolution`), which the
second round of `Settle` leaves alone (`Settling`).

`ConfigInv` carries that from run to run. `Consistent` alone is not inductive: what the
screens save was derived two actions earlier, from what they had loaded then, so
`ScreenInv` says that what is shown is settled and what is derived fits it, and `CacheInv`
that what is saved is settled and that of the last run. `RunInv` says what each value of
a run is, in terms of the same run, and so how two runs compare: `RunsRepeat` goes up the ranks
and finds every value to be the same text over values that are the same already.

`Resolvable` excludes what the code resolves otherwise than its documents suggest:

- a chain of more than four references: the code stops after four passes, and saves what
  is left as a value;
- a reference to a field of type `*_ip`: it gets the word `auto`, as addresses are filled
  in after all texts;
- a reference to a key that does not exist or to a field without a default, which stays
  literally, or becomes `None` after the screens;
- an empty text for a field that is not an address, which the screens take for no value,
  and `auto` typed on a screen, which is saved as it is;
- references in the domain, and a field called `domain_dn`.

The manifests that documents and tests show (`docs/CONSUMER.md:365`,
`tests/test_config_overrides.py`) refer to the domain or its dn; chains of up to four are
promised (`docs/CONSUMER.md:387`). `MCConfig` assumes `Resolvable` of its instance by name,
so TLC evaluates it; types need no hypothesis.

Only model-checked: the liveness properties, since fairness and `ENABLED` are beyond
the prover.

## 5. Not modelled

- Installer: configuration keys in Consul KV, runtime tokens (their policy is
  modelled, the token and the file that keeps it are not), the sweep of
  configuration keys at an uninstall of everything, the summary. The headless
  runner's refusal to start without its required backends is not a guard of
  `StartInstall`: the model allows more starts. Runs of one stack do not overlap.
- Manifest: the validators other than that of dependencies, which reject a file before
  anything runs.
- Hub: KB entries are in `KbSync`; engines of two stacks publish different names.
- KbSync: git commits on either side, bearer checks, several sources sharing the
  write-back state file, a `.git` directory inside the served tree.
- Executor: `run_collect`, which nothing calls; that `nsenter` does not pass SIGTERM
  on to the script on the host (a property of the tool, not of this code).
- Secrets: `init-env`, more than one previous id, the operator editing the file during
  a run, explicit `vault_path`.
- Config: a domain that holds references, environment variables as overrides, and
  values that are not texts.
- CertBackup: `inspect`, which only lists; two restores within one second, whose stamps
  are equal; renewals during a restore; the moment before the tarball's mode is set.
- Backends: whether a cached token is still valid (it is never checked again), a token
  file of the stack that exists but cannot be read (`tokens.py` does not catch that), host
  overrides, the marker of a local agent, two runs of one stack at a time.
- State file with two installers: planned.
- User interface, output, templates and shell helpers: no state of their own
  that others depend on, or host configuration of which a model knows no more than
  that a script succeeded.

Further divergences were met while reading and are visible in the models, as
code, without a run: `config.yaml` is saved when a run starts (`engine.py:113`;
`docs/CONSUMER.md:357` says at the end of a successful run), and the policies of
install tokens stay until an uninstall (`installation-flow.md:99` says they are
revoked after all steps).

## 6. Plan

In this order, each with an MC module, properties and, where named, theorems:

1. `StateFile`: two installers on one state directory, read, plan, save. The lost
   update, and what holds without overlap.
2. `Executor`: the deadlock before the pumps start, as a property of its own.
3. `Backends`: cached tokens that Consul no longer knows, and local agents.
