# Unity Gateway, specified

TLA+ models of the concurrent and crash-prone parts of the Unity Gateway command
line (`ug`, formerly `ucode`; Python, `src/src/ucode/`), checked with TLC on small
instances, with TLAPS proofs of most of their safety properties for every instance.

Contents: [the system](#the-system) · [the plan](#the-plan) ·
[the modules](#the-modules) · [the runs](#the-runs) ·
[where code and text disagree](#where-code-and-text-disagree) ·
[the proofs](#the-proofs) · [what is left out](#what-is-left-out)

To run: `tlc -workers 2 -config MCManagedFiles.cfg MCManagedFiles`, and so for each
run below; `tlapm ManagedFilesProofs.tla`, and so for each `*Proofs` module.

## The system

`ug` lets coding agents (Claude Code, Codex, Copilot, Gemini, ...) use models, MCP
servers and skills of a Databricks workspace. `ug configure` writes the agents'
settings; `ug <agent>` starts one of them with a fresh login; `ug revert` undoes
it. While an agent runs, processes of `ug` stand between it and the workspace:
HTTP proxies that add a token, stdio MCP relays with the backend they share, a web
search MCP server, and wrappers that route a session's first prompt to a model.

Nothing here has a database or a broker. What makes the code hard is that it is many
short-lived processes that share files, and a few long-lived ones with threads or
coroutines that share caches, counters and a pipe to an agent.

### Components

| Component (source) | State | Operations | Interacts with | Hard because | Correct means |
|---|---|---|---|---|---|
| **Managed settings files** (`managed_files.py`, `managed_replace.sh`) | per agent a root-owned settings file, baseline and last-applied snapshots, one `manifest.json` | reconcile, revert, status | agents (document to write), administrators and device management (same file), `sudo` | kills between files, half-failed privileged writes, foreign edits at any time, a manifest shared without a lock | the baseline is never ug's own work and is durable before any write; a revert undoes exactly what is still ug's |
| **Privileged worker** (`managed_files.py`, `_SudoWorker`) | a root child process and its line protocol | open session, replace, remove, close | managed files | answers out of step after an invalid one | each answer is read by its own request |
| **Shared MCP backend** (`mcp_proxy_runtime.py`, `mcp_proxy_daemon.py`, `file_lock_cross_os.py`) | `start.lock`, `backend.lock`, `endpoint.json`; the backend's `active` count and `last_disconnect` | relay: find, start, dial; backend: lock, listen, publish, accept, idle stop, drain | MCP bridge (sessions), agents (start and kill relays) | races of starts and stops, stale endpoint files, abandoned dials, kills | one backend serves, it is found, it never leaves a session, it stops |
| **MCP bridge, sign-in** (`mcp_proxy.py`, `mcp_connection_login.py`) | `pending_requests`, `retried_requests`, the sign-in in flight, the tool list | two pumps, retry of a refused call, authenticate tool, tool refresh | backend, browser, MCP server | two pumps await while the other changes the maps; the sign-in runs in threads and is shared; one call may be refused by two layers | every request is answered once or settled, no call that ran is sent again, at most one browser nobody asked for |
| **Web search MCP server** (`mcp_web_search.py`) | `pending`, `output_failure`, futures and their callbacks | read a line, submit, cancel, answer, drain, abort | agent (lines), gateway (HTTP) | callbacks in whichever thread, reused ids, a failed write seen by one thread | a search is answered once, or cancelled, or given up; the server ends |
| **Gateway proxies** (`gateway_proxy.py`) | `TokenCache`: token, expiry, generation; a refresher thread | serve a request, retry after 401 or 403, refresh in advance | agent (HTTP), gateway, login | bursts of refused requests, other processes that share the login | no refresh without a reason, a retry has another token, all requests answered |
| **Databricks login, token memo** (`databricks.py`) | process-wide memo with an epoch and a single-flight lock | get, force, clear, login | all of the above | a fetch that returns after a clear, threads that share one fetch | no token older than one its process has seen; every call ends |
| **Workspace state** (`state.py`, `workspace*.py`, `config_io.py`) | `~/.ucode/state.json`: a block per workspace; backups of the agents' files | load, save, select, clear; back up, restore | command line, agents' writers | read-change-write without a lock, several times from one dict, with an administrator's values over it; kills between file and record | those values are never saved as the developer's; what a workspace had stays; the user's own file comes back |
| **Managed configuration** (`managed_config.py`, `managed_resolve.py`, ...) | the installed policy, each user's record of reads and own copy | read, install, replay, revert, resolve | command line, control plane, `sudo` | several users of one file, replays of an older read, failures half-way | a launch goes by the policy that is installed, none comes back after it was withdrawn |
| **MCP registration** (`mcp.py`) | servers in each block, in each agent's settings, in Claude's machine-wide file | configure, add, select, remove, restore, revert | agents, managed configuration | a switch of the workspace takes many writes, each of which may fail | after a sound configure no agent reaches another workspace's servers, and what the user chose is there |
| **Claude Desktop credential helper** (`desktop_auth.py`) | lock files, two logins | find or make a login within a budget | other helpers, browser | several helpers find the login expired | one browser at a time, no second one for a login just renewed, no helper beyond its budget |
| **First-prompt routing of Claude** (`smart_routing/claude_pty.py`, `v2.py`) | phases of the PTY, the user's default model | block prompt, switch, restore, replay | agent, routing decision | a late write of the model after a timeout; kills | the prompt is replayed once, the default comes back |
| **First-turn routing of Codex** (`smart_routing/codex_interposer.py`) | first-turn state of a WebSocket | rewrite the turn, wait for the update | agent, its server | two directions, a wait in one for the other | the turn goes out once, with the model chosen |
| **Skills** (`skills*.py`) | directories under two roots and `skills.json` | add, remove, managed reconciliation, launch refresh | workspace, the user's own skills | batches half of which fail, bundles without files, bundle names that move, records replaced whole | records never meet in a directory, every copy has its record, the user's own are spared |
| **Agent adapters, command line** (`agents/*.py`, `cli.py`) | the agents' settings | back up, write, record, list; configure, launch, revert | all of the above | one agent of several fails; what each recorded must reach the next | an agent starts with the file the policy or the developer chose |
| Desktop and Cowork setup, answer delivery, usage, terminal interface, OS layer, VS Code extension, tooling | files they render, or none | render, prompt, call the above | all of the above | sequential, mostly formatting | — |

`PROJECT.json` lists every component with its files and how far it is modelled, and
every hazard at the line where it bites.

### How they interact

    agent --HTTP--> gateway proxy --token--> login memo --CLI--> ~/.databrickscfg
      |                                          ^
      +--stdio--> relay --TCP--> MCP backend: bridge --HTTP--> MCP server
      |             \--start.lock, backend.lock, endpoint.json--/
      +--stdio--> web search server --HTTP--> gateway
      +--reads--> managed settings file <--root rename-- ug configure / ug revert
                        ^--edits-- administrators, device management

    control plane --policy--> ug configure / ug <agent> / ug revert
                                |-- installed policy (all users), record of reads (each user)
                                |-- state.json: one block per workspace
                                |-- agents' settings: model source, MCP entries, backups
                                '-- skill directories, skills.json
    hook --socket--> PTY wrapper --keys--> Claude --writes--> user's settings.json

## The plan

The order is that of the damage a mistake does and of how little a test can say.

| # | Module | Models | Abstract specification or composition | Theorems | State |
|---|---|---|---|---|---|
| 1 | `ManagedFiles` | reconcile and revert of managed files | — | types and all safety properties | done |
| 2 | `McpBackend` | relays and the backend they share | — | types and all safety properties | done |
| 3 | `TokenCache` | the token cache of a proxy and the retry | takes its provider as external; `SignIn` models that | types and all safety properties | done |
| 4 | `SearchAnswers`, `WebSearch` | the web search server | `WebSearch` implements `SearchAnswers` | types, the refinement | done |
| 5 | `McpBridge` | the pumps of a session, sign-in, retry | what `McpBackend` calls a session | types and all safety properties | done |
| 6 | `ModelSwitch` | the PTY wrapper, its socket, the guard of the default model | — | types and all safety properties | done |
| 7 | `SignIn` | the token memo, logins, the credential helpers | the provider that `TokenCache` takes as external | types and all safety properties | done |
| 8 | `AgentConfig` | state.json, the administrator's overlay, the writers of settings files | uses any policy that `ManagedPolicy` may return | types and all safety properties | done |
| 9 | `ManagedPolicy` | the installed policy, records of reads, users side by side | — | types and all safety properties | done |
| 10 | `McpRegistry` | MCP servers of users and administrators over switches | — | types and all safety properties | done |
| 11 | `Skills` | downloads, records, managed reconciliation | — | types and all safety properties | done |
| 12 | `SudoWorker` | the privileged worker's line protocol and sessions | the `Replace` step of `ManagedFiles` | answers match requests | left |
| 13 | `Interposer` | the first turn of a Codex session | — | turn sent once | left |
| 14 | `ManagedResolve` | resolution of a published document, against a reference definition | — | — | left |

Then: an abstract specification of `ManagedFiles` (a file with two writers of disjoint
leaves and an undo), and one of a session of `McpBridge` as its client sees it (each
request answered once or given up, each call run once), with the refinements proved.
Theorems of 12 and 13 go into a module of proofs that is
there, as those of `McpBridge`, `SignIn` and `ModelSwitch` do.

## The modules

Each component has its own module; `MC*` modules only add the symmetry sets for
TLC, `*Proofs` modules hold the theorems; some of them about two components, whose
names then differ (`BridgeInit`, `SwitchInit`, `SignInInit`). Definitions keep the code's names where
there is one, `PROJECT.json` maps each to its lines, and definitions under "Mistaken
form" comments are deliberately wrong variants of the definition after them, used to
show that a property notices.

### ManagedFiles

`file[t]` is the root-owned file of agent `t`; `backup[t]`, `last[t]` and `manifest`
are what ug keeps in `~/.ucode/managed-backups`. A document is a function from leaves
to values, so overlaying ug's settings (`Compose`) and the three-way revert are
pointwise; a digest is identified with its text. A running command is a record
`cmd[p]` with its label and local variables, among them `view`, the manifest it has
loaded and writes back whole. One step is one file operation with the reads and
decisions before it, because every write in the code is an atomic rename:

| Action | Code |
|---|---|
| `StartReconcile`, `ReadCurrent` | the callers' comparison and the first half of `reconcile_managed_file` |
| `EnsureBackup`, `SaveEntry` | `_ensure_backup`: snapshot, then manifest |
| `CheckUnchanged`, `Replace`, `Verify` | last comparison, `_privileged_replace` (may fail before or after its rename), verification and the one retry |
| `RecordApplied`, `SaveApplied` | `_record_last_applied`: snapshot, then manifest |
| `StartRevert`, `Restore`, `VerifyRestore` | `revert_managed_file` up to its verification, `_three_way_revert` |
| `UnlinkBackup`, `UnlinkApplied`, `DropEntry` | `_delete_backup` |
| `AdminEdit`, `AdminRemove`, `AdminPush`, `Crash` | the environment |

`policy` and `interrupted` are history: the document as if only administrators had
written, and the tools of which a write was cut short.

### McpBackend

`startLock`, `backendLock`, `endpoint` are the files of the runtime directory. A
relay is `pc`, `phase` (which of the four calls of `_connect` it is in), `meta` (the
endpoint it read), `tries` and `late`; it starts at most one backend, so the backend
has its name. A backend is its state, its counter `active` and whether its idle
timeout has passed. Each dial has the state its backend sees, from the kernel's
queue through `accept()` to its end, the process at its other end, and whether the
relay closed it. The relay's one-second timeout (`Abandon`) may come while the
backend still works on the dial. The kernel frees what a dead process held (`Dies`).

### TokenCache

`token`, `generation` and `_refresh_lock` of one proxy, its request threads and its
refresher. Tokens are numbered as they are issued, by whichever process, so "newer"
is "greater". The relayed proxies look a token up without force near its expiry,
the gateway and telemetry proxies force a new one (`force`), and the latter answer a
failed forced refresh themselves (`answers`); both are chosen initially. The
provider is external. What it is taken to do, with the code that relies on it: with
force it returns a token nobody had (true of the OAuth logins, not of a personal
access token), without it one that the process or the CLI has cached, or a new one
when that is near its expiry; and it may fail.

### SearchAnswers and WebSearch

`SearchAnswers` is what the web search server promises a client: a search stands
under its id from its request until it is answered, cancelled, replaced by another
with its id, or given up with the output; only one that stands is answered; the
server ends in good order only when none stands. It has no threads.

`WebSearch` is `serve`: the reader, the executor's workers and `finish_request`,
which runs in a worker, in the reader when it registers the callback of a search
already done, or in whichever thread cancels a future. Each block under
`response_lock` is a step. A callback that meets a failed write cancels the others
one by one, and each of those runs its own callback in the same thread. `Implements`
substitutes `asked` by the submitted searches, `standing` by `pending`, `ended` by
where the reader stands, and the failure of the output by `GivenUp`. The lag is in
the details: a write that fails gives everything up for the client although the
reader goes on reading; a reader that raises gives up where it clears `pending`.

### McpBridge

One session of `mcp_proxy.py` for a service with a connection. What happens between
two awaits is one step of the event loop; a blocking call (`_run_if_needed`,
`supports_login`) runs in a thread, and its end is a step of its own. `pending`,
`retried`, `waiters` and the flags `required`, `confirmed`, `available` and `own` are
the fields of `_McpBridge`; `attempted` and `completed` those of `_ConnectionLogin`.
`task[i]` is the label of the task that works on request `i`, `signin[i]` where its
`_run_if_needed` is, and `post[i]` the request at the server or its answer on the way.

| Action | Code |
|---|---|
| `Ask`, `AskAuthenticate`, `Cancel`, `EndOfInput` | `pump_client`; the bridge handles a call of its own tool itself |
| `ServerUnauthorized`, `PostAgain`, `SignInFails` | `async_auth_flow`: a 401, one sign-in, one more POST, or the end of the session |
| `SignIn`, `BrowserReturns` | `_run_if_needed`, automatic or explicit, and `run_connection_login` |
| `TakeCall`, `Retry` | `pump_upstream` and `_authenticate_and_retry` |
| `TakeList`, `StartList`, `ListChecked`, `Wake` | `pump_upstream`, `_send_tool_list_response` and `_with_authentication_tool`, split at their awaits |
| `SignedIn`, `Notify`, `Refreshed` | `_handle_authentication_tool`, split at its awaits |
| `ServerAnswers`, `ServerDrops`, `ServerFails` | the server and the transport |

A server's answer is one of the kinds the code tells apart: for a list, the tools,
with an authenticate tool of the server's own or as one page of several, a request
for sign-in by its code or by a link, an error. At the end of a session all that it
kept in memory is dropped, and what its threads still do has no effect on it.

### ModelSwitch

One pass of the wrapper's select loop is a step (`phase` is the loop's own), the socket's
thread has its own steps, and so have Claude, the user and the hooks, which are
external. `settings` is the model in the settings file that all wrappers share, `before`
the snapshot of `_ClaudeModelSettingGuard`, `guard` the holder of its lock. What Claude
does with a typed "/model" is `command`: it may run it, ask first, show and store its
result in either order, late or never. `own` is the default the user chose last.

| Action | Code |
|---|---|
| `Serve`, `Block`, `Answered`, `RouteFails`, `HangUp` | `serve`, the socket's thread |
| `Submit`, `GiveUp`, `LetThrough` | the hook: `request_first_prompt_route`, `first_prompt_hook_output` |
| `Capture`, `Begin`, `SeesMarker`, `SwitchTimesOut`, `Escape`, `Persisted`, `Paste`, `PressEnter`, `EnterAgain`, `Verified`, `Close` | the select loop of `run_claude_pty`, phase by phase, each deadline among them |
| `Snapshot`, `Restore`, `RestoreFails`, `Leave`, `LeaveFails` | `_ClaudeModelSettingGuard` and `launch_claude`'s last restore |
| `Asks`, `Runs`, `Shows`, `Stores`, `UserTypes`, `UserEnters`, `UserChooses`, `ClaudeEnds`, `Kill` | the environment |

### SignIn

`memo`, `epoch` and `inflight` are one process's `_TOKEN_MEMO`, `_TOKEN_CACHE_EPOCH` and
single-flight lock for one workspace and profile; `lockfile` the lock files of the helpers.
A caller is a thread or a helper process that asks once; `stage` is where it is, `mode`
what for (a token, a forced one, the credential command's browser login, Claude Desktop's
two logins), `given` the token it has. Claude Desktop's helper is a command of its own
(`cli.py:2891-2917`), so no other caller shares its process. Tokens are numbered as issued. Time is a timeout that may strike at any wait.

| Action | Code |
|---|---|
| `BeginCall`, `Look`, `Dequeue`, `Ask`, `Remember`, `End` | `get_databricks_token`, `_fetch_databricks_token_for_profile` |
| `Reauth`, `Take`, `Wait`, `Recheck`, `Status`, `Browse`, `Confirm` | `_browser_login`, and in `desktop_auth.py` the two sequences that take a lock and look again |
| `Sign`, `Clear` | `run_databricks_login` and the clearing of the memo after it |
| `Expires`, `Loses`, `Renews`, `Kill` | the environment |

### AgentConfig

`current` and `block[w]` are state.json: for each workspace the agents ug manages
(`managed_configs`), those available (`available_tools`) and the model source chosen
for each (`provider_services`). A state in memory is a block, the workspace it will be
saved under, and whether an administrator's source is layered over it, with the
developer's own beside (`_managed_overlay`). `file[t]` and `backup[t]` are an agent's
settings file and the backup of it. A running command holds `mem`, the state it goes on
with, and `work`, the copy it hands to a writer. Each read or write of a file is a step.

| Action | Code |
|---|---|
| `Configure`, `LoadShared`, `SaveShared`, `SharedFails` | `configure_shared_state` |
| `ApplyPolicy`, `Pick`, `NextTool`, `Configured` | `configure_workspace_command`, with and without a policy |
| `Look`, `Copy`, `Write`, `Mark`, `List`, `WriterFails` | `backup_existing_file`, `write_tool_config`, `configure_selected_tools` and `configure_single_tool` |
| `Launch`, `Gate`, `Ensure`, `Refresh`, `Exit` | `_launch_tool`, `ensure_provider_state`, the write of Gemini's launch before it starts, and its refresher |
| `Revert`, `Restore`, `Clear`, `KeepState` | `revert`, `restore_file`, `clear_state` |
| `Kill` | the environment |

Claude, Codex and Copilot are *guarded*: their writers back a file up only where no record says that
ug manages it; Gemini's looks only whether there is a backup.

### ManagedPolicy

`machine` is the policy installed for all users, with the fingerprint by which a user's
`refreshed` (refresh_ts.json) recognises it; `stored` a user's own copy under
UG_SKIP_OS_SETTINGS or `--user`; `published` what the control plane answers. Each user
runs a command at a time, several side by side. Reads, the privileged write, records
and copies are steps of their own (`Refresh`, `Fetch`, `ReadFails`, `ApplyRead`, `Install`,
`Denied`, `KeepInstalled`, `Record`, `Cache`, `PutBack`, `Clear`): `refresh_managed_config`,
`_record_refresh`, the install and restore of the selection in `cli.py`.

### McpRegistry

`user` and `managed` are `mcp_servers` and `managed_mcp_servers` of each block, `conf` the
workspace to which an entry of an agent's settings leads, `file` the same in Claude's
machine-wide file. A configure goes through `Shared`, `Purge`, `Agents`, `Resolve`, `Files`,
`Register`, `Save`, `Restore` and `Record`, which are the calls of the code in its order;
any of them may fail or be the last before a kill (`Stop`). `ug mcp add` and `remove`
change the agents first and the record after (`Change`, `Add`, `Remove`, `Book`); a launch may
switch the workspace alone, and `Revert`, `RevertEntries` and `Clear` are the revert's part.

### Skills

`dirs[b][r]` is what the directory of bundle name `b` under root `r` holds: nothing, the
user's own skill, or ug's copy of a skill; `records` is skills.json. A command has read
`held`, was asked for `want`, got consent for `agreed`, has `todo` and has `written`. Deleting
directories, forgetting records (read, then write), each write of a skill, reading
and replacing the manifest, and the stamp of a launch, which replaces it too, are steps; files
may fail, commands overlap and be killed, and a manifest that cannot be read counts as
empty (`Readings`).

A write has three outcomes: the skill fills its directories; a bundle none of whose paths is
safe only clears them; and a bundle without files leaves them alone. All three count as
`written`, as in the code, and are recorded. The history `emptied` holds the names whose last
install was of the third kind. `scenario` is chosen at the start from `Scenarios`: how many
commands and edits there are, whether commands overlap, and whether there are failures and kills.

| Action | Code |
|---|---|
| `Add`, `RemoveSkills`, `Configure` | `download_selected_skills`, `remove_downloaded_skills_command`, `reconcile_managed_skills` |
| `Launch`, `Stamp`, `Sweep` | `refresh_downloaded_skills_on_launch`, `set_last_update_check` |
| `Delete`, `Forget`, `Forgotten` | `_delete_dirs`, `forget` |
| `CheckAdd`, `CheckConfigure`, `CheckLaunch` | what each command is to write, and in which order |
| `Write`, `Skip` | `_fetch_bundles_and_write`, `write_skill` |
| `Load`, `Save` | `record_downloads`, `_save` |
| `Edit`, `Rename`, `List`, `Kill` | the environment |

## The runs

Deadlock is checked in `token_cache`, `web_search` and `mcp_bridge`. It is not in the others,
whose commands, relays, prompts and calls are bounded and end.

| Run | Bounds | Fairness | Shows |
|---|---|---|---|
| `managed_files` | 1 agent, 1 process, 3 leaves, overlays `{gateway}` and `{mcp}`, 2 values of ug, 1 of the administrator, 4 commands, 1 edit, kills, half-failed writes, edits while a command runs | none | `WriteHasBaseline`, `BaselineIsForeign`, `NothingLeftBehind`, `RevertKeepsLaterEdits` |
| `mcp_backend` | 2 relays, of which one may abandon one dial; every process may be killed, waits may time out | below | `OneBackendServes`, `EndpointOwned`, `SessionIsAuthentic`, `IdleStopSparesSessions`, `RelayAnswered`, `BackendStops` |
| `token_cache` | 2 requests and the refresher, 3 tokens, both kinds of proxy | below | `RetryUsesAnotherToken`, `NoNeedlessRefresh`, `RequestAnswered` |
| `web_search` | 3 searches, 2 ids, 2 workers | below | `Implements`, `SearchSettled`, `ServeEnds` |
| `mcp_bridge` | 1 call, 1 tool list, 1 authenticate call | below | `AutomaticLoginOnce`, `BooksAreExact`, `NoCallRunsTwice`, `RequestSettled`, `SessionEnds` |
| `model_switch` | one wrapper whose user types two prompts and interferes, or two wrappers with a prompt each; 1 choice of a model | below | `DefaultIsOwn`, `FirstPromptRunsOnce`, `PromptSettles` |
| `sign_in` | 2 or 3 callers: threads of one process, credential helpers beside others, Claude Desktop's helpers with and without a user; 3 tokens, 1 lost login | below | `TokenIsFresh`, `NoSecondBrowser`, `CallAnswered` |
| `agent_config` | 2 agents (a guarded one, one that refreshes), 1 source of the developer's and 1 of the administrator's, 3 policies; 3 commands one by one or 2 with a kill, in 2 workspaces, or 2 side by side in one | none | `OwnSourcesOnly`, `LaunchObeys`, `FirstRevertRestores`, `BlockKept` |
| `managed_policy` | 2 users, 2 workspaces, 1 configuration, 3 commands, 1 publication | none | `InstalledGoverns`, `NothingStale`, `SwitchOrStay` |
| `mcp_registry` | 2 workspaces, Claude (with its machine-wide file) and Gemini, 1 server name, policies that publish it to both agents or to Gemini alone, or nothing, 6 commands and publications | none | `SwitchSettles`, `DroppedIsGone`, `ChoicesKept` |
| `skills` | 2 skills, 2 bundle names, 2 roots, 2 processes; one by one 3 commands with 2 edits, or with 1 edit, failures and kills; side by side 3 commands, or 2 with failures, kills and 1 edit | none | `ClaimsDisjoint`, `CopiesAttributed`, `AuthoredSpared` |
| `agent_config_revert` | 1 workspace, 2 guarded agents, 2 commands one by one | none | violated: `RevertDeletes`, see below |

Each module states its types (`TypeOK`, or with the component's name before it); they are
proved for every instance, and no run repeats that.

**Why these bounds.** *ManagedFiles*: two overlays and a leaf that is in neither are
what a lost owned path, a stale baseline and an overwritten foreign leaf need; four
commands allow configure, configure with another overlay, a killed or failed one and
a revert, with an edit between any two; agents share only the manifest, whose entries
the model keeps apart. *McpBackend*: two relays are a winner and a loser, or one
that arrives while a backend stops; that one abandons a dial and is served by the next
is what can leave a counter wrong. *TokenCache*: two requests are a refresh and a
thread that waited for it; three tokens are the first, the refreshed one, and one that
another process issued. *WebSearch*: two searches share an id while a third waits for
one of two workers. *McpBridge*: the authenticate call is a second ordinary call while
the bridge does not offer its tool, so two refused calls, or a refused call and an
explicit sign-in, compete for one browser while a list changes the flags under both.
*ModelSwitch*: a user who interferes needs one wrapper, the shared settings and the
guard's lock need two. *SignIn*: its scenarios are the pairs of callers that share a
memo or a lock file, and a third thread that logs in. *AgentConfig*: a state saved over
another needs two commands, a switch and a revert three; a guarded and an unguarded agent
are the two kinds of writer. *ManagedPolicy*: two users share one installed file; three
commands are an install, a change by the other user and the launch that must notice.
*McpRegistry*: six steps of the world are a choice in each workspace, a publication, a
failed switch and the switch after it. *Skills*: two skills and two bundle names can collide
and move, two edits make them exchange places, and two commands overlap. The theorems take over where these stop.

**Fairness.** *McpBackend*: processes that can run do, the event loop takes up what
is ready, deadlines and idle timeouts expire. Nothing makes an agent start or stop a
relay, a session fail or a process die. *TokenCache*: threads run, which the CLI's
15 seconds and the HTTP client's timeouts justify; a thread that waits for the
refresh lock gets it when it is free again and again (strong fairness, for a lock
that is handed to some waiter). *WebSearch*: the reader and each search run on, which
the 180 seconds of the HTTP call and a client that reads its output justify. Lines,
the end of the input and interrupts are up to the client. *McpBridge*: for each
request, the server, its thread or its task goes on as long as one of them can: the
HTTP client reads for at most 300 seconds, a sign-in at the browser lasts at most 300
(`mcp_connection_login.py:26`), and the wait for the tools 5 (`mcp_proxy.py:69`). Weak
fairness is enough for the sign-in's lock, because a session's sign-ins are finitely
many. The session ends when its tasks have, once the client is gone. What the client
asks, and that it leaves, is up to it. *ModelSwitch*: the loop goes on, since `select`
returns after 0.2 seconds and every phase has its deadline; a wrapper that waits for the
guard's lock has none, and is served because the holder's loop goes on too. Claude and the
user may do nothing. *SignIn*: a caller goes on: the CLI is given 15 seconds for a token, 30
for a login without a browser, at most 150 or 300 for one at the browser. The other
modules have no liveness: their commands run to their end or are killed.

**What could fail** and does when the code is changed: `PROJECT.json` names for every
property a mistaken form of a definition under which TLC finds it violated. They are
the mistakes the code's structure guards against: to take a fresh baseline at every
reconciliation, to own only the last overlay's paths, to unlink the endpoint after the
lock, to stop on the time alone, to omit the second look under the refresh lock, to
count no new generation for a looked-up token, to answer whatever stands under an id,
to cancel futures while the lock is held, to register a callback too late, to forget
a sign-in that did not succeed, to save an administrator's values with the developer's,
to replace an earlier backup, to leave a file that ug wrote as it is, to drop the list of
available agents between two of them, to remember a token without asking for the epoch,
to open a browser without a second look, to record a skill over another's directory.

## Where code and text disagree

**`agent_config_revert`** — "Back up only a file that predates ucode's management of the
tool. A re-configure would otherwise snapshot ucode's own generated file, and revert would
restore that snapshot instead of deleting the file" (`agents/claude.py:1569-1571`). Under
a policy, `configure_workspace_command` resolves a copy of its state for each agent and
carries only `available_tools` to the next one (`cli.py:1454-1459`), so that the next
agent's save drops the `managed_configs` record that the one before had saved. A revert leaves
the file of that agent; and if the agent is launched first, its writer backs ug's
own file up, and the revert restores it. TLC finds the first of these in a configure of
two agents and a revert.

Known limits, met while modelling. They have no run; the properties above name what they except.

*Settings files.*
- "Preserve externally changed values rather than replacing them with stale baseline
  values" (`docs/os-managed-settings-design.md:222`): when the file equals the last-applied
  snapshot, revert restores the whole baseline (`managed_files.py:923`), and leaves an
  administrator changed between two configures go back too. Line 216 states the shortcut.
- "`ucode revert` removes everything ucode wrote" (line 162): a privileged write that
  renames the file and then cannot restore its flags (`managed_replace.sh:236`) is never
  recorded, and a later revert finds nothing to undo.
- "The backup remains available for a later retry" (line 207): snapshots are unlinked
  before the manifest entry (`managed_files.py:1119`), and the last-applied snapshot is
  overwritten before its digest (`1078`); a kill in between leaves an entry that every later
  command refuses.
- Two commands at a time each write back the manifest they loaded (`managed_files.py:1042`,
  `1066`) and lose entries; the theorems about the baseline are for commands one at a time.
- What an administrator writes between the last comparison and the rename as root is lost (`841`).

*Proxies, sign-in and routing.*
- "Another daemon may have won the lifetime lock" (`mcp_proxy_runtime.py:188`): the relay
  looks for the winner's endpoint once, which the winner publishes only after listening. And
  at its deadline a relay terminates its child (`193`), which may already serve another one.
- Without force the provider may return the same token near its expiry to every request
  in turn, each with its own call of the CLI (`gateway_proxy.py:176`).
- The authenticate tool says it is "using the newly available tools" (`mcp_proxy.py:558`),
  but any list sent while `authentication_completed` is set ends its wait (`469`), also one
  the server made before the sign-in.
- `_browser_login` opens a browser after a look that failed for another reason than the
  login; the credential command and Claude Desktop's helper use different lock files
  (`databricks.py:109`), so each may open one.
- A wrapper killed between begin and restore leaves the routed model as the user's default (`v2.py:640`).

*State and agents.*
- Saves that overlap lose each other's changes (`state.py:115`); a running Gemini's refresher
  saves the state of its launch over whatever came after. `BlockKept` is about one command at a time.
- Two commands that take a tool's first backup at once may back ug's own file up
  (`config_io.py:71-75`; `raced` in the model).
- A revert clears only the current workspace's block. A block that was left still says that
  ug manages an agent: configured there again, a guarded agent's file is not backed up, and
  a second revert deletes what the user had written meanwhile.
- A configure that switches the workspace carries the source, the list of available agents
  and the managed records of the block it began with over those of the destination.
- After the MCP registry was reconciled and saved, `_record_unmanaged_configured_agents`
  (`cli.py:1204-1213`) saves the state the configure has held since it began, and puts back the
  list of managed servers that the reconciliation emptied, until the next configure.

*MCP servers and policies.*
- `ug mcp add ... --agents claude`, then the same for gemini, replaces the clients of the record
  (`mcp.py:2160-2171`), so that revert removes the entry from gemini only (`500-502`); entries
  left by `configure --global`, or written before a kill and not yet recorded, are in no list either.
- Pairs keep "some servers on the fallback while others go to its managed file"
  (`mcp.py:1116-1119`), but `fallback_clients` are agents (`1318-1320`) and every changed server
  is written to each: when one server of Claude's falls back, one delivered to its managed
  file is registered at user scope as well, and is in no record there.
- The servers a developer chose are put back only by a configure that itself switches, or with a
  --global one pending (`cli.py:1197`): after a configure of B, `ug claude --workspace A` and a
  configure of A, which is no switch, those chosen in A stay unregistered, though the policy
  "never entangles the developer's own servers" (`mcp.py:1009`).
- A configure that fails after it switched is not resumed by the next, which sees no switch.
- Entries are removed under names that are no longer published (`mcp.py:1616-1625`, `1675`): an agent
  that a policy drops while it keeps the server for another agent keeps its entry, which is in no
  record then, so that a revert leaves it too. `DroppedIsGone` is about names that are gone.
- A configure whose read fails, on a machine managed for another workspace, succeeds and
  moves the selection, and launches are then refused. `SwitchOrStay` is about answered reads.
- `_record_refresh` takes the fingerprint after the read; what was read before another user's install
  counts for the file installed since, as to whether the feature is disabled.

*Skills.*
- "Overwritten directories belong to the new install; only renames leave orphans"
  (`skills_state.py:216`): the batch is recorded in order, so that what one skill leaves
  behind by its new bundle name is deleted even if a later skill of the batch was just
  written there. `ug skills add` after two names were exchanged in the catalog reaches it.
- "A developer's own skills are never touched" (`skills_download.py:424`): a configure takes over
  the record of a skill that the developer added and the administrator lists now.
- `_fetch_bundles_and_write` returns "those that reached disk" (`247`), but a bundle without files
  is among them (`143`, `275`): it is recorded, takes over the record of whatever copy stays
  under that name, and a skill that was renamed loses its old directory with nothing written in
  its place. Agreed to over a user's own directory, it gives a record that names it, so that a
  later refresh or removal takes it. `CopiesAttributed` asks of such a name only that some
  record has it. A bundle with unsafe paths alone clears the directories.
- Nothing locks skills.json (`skills_state.py:89`): commands that overlap, or the stamp of a launch,
  may put back records that another has dropped or drop those it has made. `ClaimsDisjoint`
  says what holds all the same; `CopiesAttributed` is about commands one by one.
- "A retry always converges" (`149`): a reconciliation killed between the directories and
  the record leaves copies without one.

## The proofs

TLAPS checks every theorem for all values of the constants, from the named
assumptions the modules state (kinds of values do not overlap, bounds are natural
numbers, the relays are finitely many). Each proof has one lemma per action that
the action keeps the inductive invariant, and a temporal step that combines them.

| Module | Theorems | Inductive invariant, and why the properties alone do not do |
|---|---|---|
| `ManagedFilesProofs` | `TypeCorrect`; with `Serial`: `BaselineBeforeWrite`, `BaselineForeign`, `RevertLeavesNothing`, `BaselineStays`, `RevertSparesEdits` | What each label of a command may rely on (its `view` is the manifest, its entry exists, its snapshot is readable), and that outside the window between a write and its record every leaf of ug's in a file is owned and recorded with its value (`RecordedIn`). Without the last part a revert could not be shown to remove it. |
| `McpProofs`: `McpBackend` | `TypeCorrect`, `SharedBackend`, `EndpointStays`, `Authenticated`, `IdleStopIsIdle` | A backend between lock and release holds the lock; which connections it can have at each of its labels; and that `active` is the number of connections its coroutines work on, for any finite set of dials. The idle stop looks at the counter only, so it spares sessions only because the count is exact. |
| `McpProofs`: `McpBridge` | `BridgeTypeCorrect`, `OneLogin`, `BooksAgree`, `NothingRunsTwice` | For each request, where it is (`Place`): a call at the server or on its way back, at a sign-in inside the HTTP client, with a task that will retry it, or answered (`CallPlace`); a list that leaves the books before its task answers it (`ListPlace`); the bridge's own tool (`ToolPlace`). What the server has run is on its way back or answered (`RunPlace`), which none of the places with a sign-in are. No browser opens by itself once `attempted` is set, and every browser sets it (`LoginInv`). |
| `TokenProofs`: `TokenCache` | `TypeCorrect`, `SnapshotsAgree`, `RetryIsNew`, `RefreshHasReason` | Generations and tokens only grow, and together; what a thread holds of them is not newer than the cache; and a thread whose request was refused finds, once its refresh is over, a token greater than the refused one. |
| `TokenProofs`: `SignIn` | `SignInTypeCorrect`, `TokensAreFresh`, `OneBrowser` | A token in the memo is at least as new as any that its process has seen (`MemoInv`), and so is the one a thread is about to remember, if it asked in this epoch (`TokenInv`). While a thread asks in an epoch that is over, the memo is empty, since the key's lock lets no other thread fill it (`PastInv`, `HolderInv`). The browser: who looks again holds the lock file (`HolderInv`), and a login that a browser has renewed is live until it is lost (`RenewedInv`), so the second look finds it. |
| `SessionProofs`: `WebSearch` | `TypeCorrect`, `Implementation` | What stands under an id was sent with it, is unanswered, and its callback is not over (`StandingIsOpen`); nothing stands once the output is given up (`GivenUpIsEmpty`); a search that is done has been called back, or the reader is about to register its callback (`DoneIsCalled`); callbacks nest only where the reader waits for them. Each step of the threads then is a step of `SearchAnswers` or none. |
| `SessionProofs`: `ModelSwitch` | `SwitchTypeCorrect`, `DefaultStaysOwn`, `PromptRunsOnce` | Who has a snapshot holds the lock, or failed to write and is on the way to its second attempt (`GuardInv`); if nothing strayed there is one such wrapper, and its snapshot is the user's own (`OwnInv`). The property alone does not exclude a second wrapper that takes a routed model for the user's. Where a prompt is: before a claim in the box, with the hook or at the router, and not run yet in any of them (`FreshInv`); after it where the phase of the loop says (`ReplayInv`). |
| `AgentConfigProofs` | `TypeCorrect`, `OwnSourcesSaved`, `UsersFilesReturned`, `LaunchesObey`, `BlocksKept` | For each command, that every state it holds in memory is `Clean`: its sources are the developer's own, or it is layered and carries those; this is what any later save can write, whatever was saved between. For each agent whose user had a file: it is backed up, and no copy is under way; or it is untouched, no block and no command takes it for managed, and nobody is about to write it (`Backed`, `Unbacked`). The property alone says nothing of blocks that no command has loaded yet. For the last two: while no command has overlapped, one runs at a time and what it holds agrees with what is saved, at each of its labels (`Serial`, `InOrder`). |
| `ManagedPolicyProofs` | `TypeCorrect`, `LaunchesAreGoverned`, `LaunchesAreFresh`, `ConfigureSwitchesOrStays` | An invariant of each user's command (`UserInv`): its shape at each label, what it has read against what is installed, what it has `seen`, where the selection stands. A step of another user changes only what is installed, and with it `steady` and `seen`, which only weakens the claims; so one lemma covers all others. |
| `McpRegistryProofs` | `TypeCorrect`, `ChoicesSurvive`, `SettledHolds`, `SwitchIsSettled`, `DroppedServersGo` | That a command which changes a choice holds the current workspace's block from its first to its last step (`Holding`), and every other saves the destination's own list. For a configure without errors: at each of its steps, which entries it has already dealt with and which it has still in its lists (`Settling`); the two properties speak of its end only. |
| `SkillsProofs` | `TypeCorrect`, `RecordsDisjoint`, `UsersSkillsSpared`, `CopiesRecorded` | Of a batch, that no two of its skills claim one name; of what a command wrote, has yet to write and is about to save, that each replaces what it meets; and that a user's directory can only be among names that were agreed to or that a record the command read holds. For `CopiesRecorded`: while commands follow each other, what is on disk is in a record or among what the command will record at its end, in the order of its batch, or under a name whose last bundle was without files (`Serial`, `Ordered`, `Attributed`). |

`Serial` (commands of `ug` run one at a time) is a constant of `ManagedFiles`; the
theorems that need it say so. `TypeCorrect` holds either way. `GenerationNamesToken` and
`BaselineKept` are proved and in no run.

Every safety and action property that a passing run checks is a theorem. Model-checked only:
`RelayAnswered`, `BackendStops`, `RequestAnswered`, `SearchSettled`, `ServeEnds`,
`RequestSettled`, `SessionEnds`, `PromptSettles` and `CallAnswered`: liveness under
fairness, and ENABLED with it, is out of reach of the prover. Induction over data is out
of its reach too; no proof here needs it. Deadlock freedom is checked where the runs say.

Invariants that had to be strengthened were first checked by TLC, those of `McpBridge` with
a second call as well (7.2 million states). What the proofs found about the models, and
the models now say:

- `SignIn`: what is remembered was one CASE whose guards overlapped, so that the choice between
  them was not the code's; the epoch is now compared first, as in `_remember_token`
  (`databricks.py:1652-1687`). And a helper of Claude Desktop had not been said to have a process
  to itself; with another thread there, what it hands out could be older than that one's token.
- `McpRegistry`: `DroppedIsGone` was false for a policy that goes on publishing a server, but to
  other agents; see the known limits. Its run has such a policy now.
- Lock holders were part of the types of `SignIn` and `ModelSwitch`; they are no types and
  have become invariants that are proved.

## What is left out

- *ManagedFiles*: writes on Windows, the merging of list-valued leaves
  (`managed_files.py:1194-1202`), the records of `settings_passthrough` and `ug_picker`,
  and how the privileged worker talks (a module of its own on the plan): it is marked unusable
  only on end-of-file, so that after an invalid answer the next request may read it (`1542`). An edit in
  the moment between the last comparison and the rename is in the model; it is
  overwritten, and no property claims otherwise.
- *McpBackend*: what a session says to the MCP server (that is `McpBridge`), the
  contents of the handshake beyond whether the secret fits, relays that take
  another runtime directory.
- *TokenCache*: headers, streaming and the HTTP errors that are all one answer here.
  The stored expiry is the token's own, which holds for JWTs; a token without a
  readable expiry gets an hour from each fetch (`gateway_proxy.py:161`).
- *WebSearch*: how a search is made and its answer written; an interrupt is modelled
  where the reader blocks, on its input and in the drain; the order in which workers
  take searches is any.
- *McpBridge*: sessions without a connection or with a personal access token, which
  only forward; the rewriting of `initialize` and of the user agent; the texts of the
  authenticate tool; a request id used again while its first request is open, which
  the protocol forbids; how much of a page of tools came before it.
- *ModelSwitch*: of the settings only `model`; the hook of a prompt that waits behind another
  does not give up; print mode and subagents. What Claude's input box does with a paste
  and an Enter is taken from `tests/test_claude_pty_replay.py:390-470`.
- *SignIn*: other workspaces and profiles, which have keys of their own; budgets are timeouts that
  may strike at any wait, and a spent budget is a transient failure; retries while the
  CLI's own lock is held are one; `DATABRICKS_BEARER` and the custom OAuth client's cache; the
  `auth login` child of a killed helper.
- *AgentConfig*: models, headers and other values of the overlay, model locations, and a
  policy with different sources for its agents; sources named on the command line; the
  self-managed list (a policy that does not apply is `NoPolicy`); hosts of several
  workspaces; what a user's own file keeps when ug merges into it, and edits of it later;
  torn writes, and a restore's write and unlink, which are one step; the machine-wide scope.
- *ManagedPolicy*: dry runs, Windows, edits of the installed file by device management,
  updates of refresh_ts.json lost between a user's commands, and what a document says once
  it is read. An own copy that is empty counts as none.
- *McpRegistry*: commands side by side; clients that are not installed; hosts of several
  workspaces; replacing a whole selection (`--mcp`, the picker); `mcp add --workspace`; the
  skills connection and app servers (`mcp.py:656-675`). One agent stands for the list of
  self-managed ones.
- *Skills*: more than one workspace, base or metastore; a skill's files under both roots are written
  in one step; users edit only while no command runs; which skills are newer is any subset;
  the refresh interval, the file that a damaged manifest is moved to, usage reports, `--path`.
- Components marked `not_modelled` in `PROJECT.json`, each with its reason: those on
  the plan, and those that are sequential formatting, pure input and output, or run
  inside other programs.
