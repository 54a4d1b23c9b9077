----------------------------- MODULE AgentConfig ----------------------------
(***************************************************************************)
(* What ug knows of each workspace (state.json), and the settings files it *)
(* writes for the agents (src/src/ucode/state.py, config_io.py, agents/,   *)
(* and configure, launch and revert in cli.py).                            *)
(*                                                                         *)
(* state.json has a block for every workspace: the agents whose files ug   *)
(* manages, those that are available, and the model source that the        *)
(* developer chose for each.  It is read, changed and written whole, with  *)
(* no lock.  An administrator's policy may name another source: a command  *)
(* then works on a copy of the block with that source layered over it,     *)
(* which reaches the agents' files and is taken off again by every save.   *)
(* Before ug first writes an agent's file it backs the user's own up; a    *)
(* revert restores the backup, or deletes a file that ug is known to       *)
(* manage.  Commands run one after another or side by side and may be      *)
(* killed at any step; the writer of an agent may fail before it is done.  *)
(* A read of the policy (see ManagedPolicy) may give any policy.           *)
(***************************************************************************)
EXTENDS Naturals

CONSTANTS
  Processes, Workspaces, Tools, None,
  Guarded,       \* agents backed up only if no record says that ug manages them
  Refreshing,    \* agents whose file is rewritten while they run, as Gemini's is
  OwnSources,    \* model sources a developer chooses
  AdminSources,  \* and those an administrator names
  Policies,
  Scenarios      \* how many commands and kills there are, whether commands overlap, and
                 \* the workspaces they are about

NoPolicy == [enabled |-> {}, source |-> None]

ASSUME ConstantsAssumption ==
  /\ None \notin Workspaces \cup OwnSources \cup AdminSources
  /\ OwnSources \cap AdminSources = {}
  /\ Guarded \subseteq Tools /\ Refreshing \subseteq Tools \ Guarded
  /\ Policies \subseteq [enabled : SUBSET Tools, source : AdminSources \cup {None}]
  /\ NoPolicy \in Policies
  /\ Scenarios \subseteq [commands : Nat, kills : Nat, overlapping : BOOLEAN,
                            within : SUBSET Workspaces]

VARIABLES
  current, block,  \* state.json
  file, backup,    \* each agent's settings file, and the backup of the user's own
  pc, run,
  scenario, begun, kills,
  theirs,          \* history: the agents whose user had a file before ug,
  touched,         \* those that a revert has restored,
  raced,           \* those that two commands backed up for the first time at once,
  overlapped       \* and whether two commands ever ran at once

saved == <<current, block>>
files == <<file, backup>>
bounds == <<scenario, begun, kills>>
history == <<theirs, touched, raced, overlapped>>
vars == <<saved, files, pc, run, bounds, history>>

Sources == OwnSources \cup AdminSources \cup {None}
Labels == {"idle", "gate", "load", "shared", "policy", "next", "look", "copy", "write", "mark",
           "list", "ensure", "started", "restore"}

NoFile == [by |-> "nobody", ws |-> None, source |-> None]
UsersOwn == [by |-> "user", ws |-> None, source |-> None]
Generated(w, s) == [by |-> "ug", ws |-> w, source |-> s]

Empty == [managed |-> {}, available |-> {}, source |-> [t \in Tools |-> None]]

\* A state in memory: its workspace, its block, and the developer's own sources if an
\* administrator's are layered over them (_managed_overlay).
NoState == [ws |-> None, block |-> Empty, layered |-> FALSE, own |-> Empty.source]

\* What a command holds: `mem` is the state it goes on with, `work` the one it hands to a writer.
NoRun == [kind |-> "none", tool |-> None, mem |-> NoState, work |-> NoState,
          policy |-> NoPolicy, provider |-> None, queue |-> {}, did |-> {},
          setup |-> FALSE,      \* a launch that first configures its agent
          switched |-> FALSE]   \* history: it began from the block of another workspace, or of none

Init ==
  /\ current = None
  /\ block = [w \in Workspaces |-> Empty]
  /\ theirs \in SUBSET Tools
  /\ file = [t \in Tools |-> IF t \in theirs THEN UsersOwn ELSE NoFile]
  /\ backup = [t \in Tools |-> NoFile]
  /\ pc = [p \in Processes |-> "idle"]
  /\ run = [p \in Processes |-> NoRun]
  /\ scenario \in Scenarios /\ begun = 0 /\ kills = 0
  /\ touched = {} /\ raced = {} /\ overlapped = FALSE

-----------------------------------------------------------------------------
(* Loading, layering and saving a state. *)

\* load_state
Loaded ==
  [NoState EXCEPT !.ws = current, !.block = IF current = None THEN Empty ELSE block[current]]

\* resolve_state: a copy with the administrator's source, if it is another one.
Resolve(policy, m, t) ==
  IF policy.source # None /\ policy.source # m.block.source[t]
    THEN [m EXCEPT !.layered = TRUE, !.own = m.block.source,
                   !.block.source[t] = policy.source]
    ELSE m

\* Mistaken form: the layered values are saved.
PersistedAll(m) == m.block

\* _without_managed_overlay
Persisted(m) == IF m.layered THEN [m.block EXCEPT !.source = m.own] ELSE m.block

Save(m) ==
  /\ block' = [block EXCEPT ![m.ws] = Persisted(m)]
  /\ current' = m.ws

\* Gemini's writer also stores the source it wrote; Claude's and Codex's do not.
Marked(r) ==
  LET b == [r.work.block EXCEPT !.managed = @ \cup {r.tool}] IN
    [r.work EXCEPT !.block =
       IF r.tool \in Refreshing /\ r.provider # None
         THEN [b EXCEPT !.source[r.tool] = r.provider] ELSE b]

Go(p, label, r) ==
  /\ pc' = [pc EXCEPT ![p] = label]
  /\ run' = [run EXCEPT ![p] = r]

End(p) == Go(p, "idle", NoRun)

\* A configure goes on to the next agent with its own state.
Resume(p, r) ==
  Go(p, "next", [r EXCEPT !.tool = None, !.work = NoState, !.provider = None])

Busy == {p \in Processes : pc[p] # "idle"}

Begin(p) ==
  /\ pc[p] = "idle" /\ begun < scenario.commands
  /\ Busy = {} \/ scenario.overlapping
  /\ begun' = begun + 1
  /\ overlapped' = (overlapped \/ Busy # {})
  /\ UNCHANGED <<files, scenario, kills, theirs, touched, raced>>

\* A policy that names other agents refuses this one, unless the developer manages it alone:
\* then no policy applies to it.
Refuses(a, t) == a.enabled # {} /\ t \notin a.enabled
Governs(r) == r.policy.enabled # {}

-----------------------------------------------------------------------------
(* ug configure, and the shared state that a launch refreshes as well. *)

\* configure_shared_state loads the current workspace's block and gives it the workspace asked for.
Configure(p, w) ==
  /\ Begin(p)
  /\ UNCHANGED saved
  /\ Go(p, "shared", [NoRun EXCEPT !.kind = "configure", !.mem = [Loaded EXCEPT !.ws = w],
                                   !.switched = (current # w)])

LoadShared(p) ==
  /\ pc[p] = "load"
  /\ UNCHANGED <<saved, files, bounds, history>>
  /\ LET w == run[p].mem.ws IN
       Go(p, "shared", [run[p] EXCEPT !.mem = [Loaded EXCEPT !.ws = w],
                                      !.switched = (current # w)])

\* What a launch hands to its agent's writer.
Prepared(r) ==
  IF r.setup
    THEN [r EXCEPT !.work = r.mem, !.provider = r.mem.block.source[r.tool]]
    ELSE [r EXCEPT !.mem = NoState, !.work = Resolve(r.policy, r.mem, r.tool),
                   !.provider = IF r.policy.source # None THEN r.policy.source ELSE @]

\* After logging in and discovering models.  A configure saves the same state once more at once.
SaveShared(p) ==
  /\ pc[p] = "shared"
  /\ Save(run[p].mem)
  /\ UNCHANGED <<files, bounds, history>>
  /\ IF run[p].kind = "configure" THEN Go(p, "policy", run[p])
     ELSE Go(p, "look", Prepared(run[p]))

\* Login or discovery fails.
SharedFails(p) ==
  /\ pc[p] = "shared"
  /\ UNCHANGED <<saved, files, bounds, history>>
  /\ End(p)

\* The policy that is in force names the agents; those that cannot be installed are left out.
ApplyPolicy(p, a, tools) ==
  /\ pc[p] = "policy"
  /\ a.enabled # {} /\ tools \subseteq a.enabled
  /\ UNCHANGED <<saved, files, bounds, history>>
  /\ Go(p, "next", [run[p] EXCEPT !.policy = a, !.queue = tools])

\* No policy: the developer picks agents, and may choose the source of one.
Pick(p, tools, t, s) ==
  /\ pc[p] = "policy" /\ t \in tools
  /\ LET m == [run[p].mem EXCEPT !.block.source[t] = s] IN
       /\ Save(m)
       /\ UNCHANGED <<files, bounds, history>>
       /\ Go(p, "next", [run[p] EXCEPT !.mem = m, !.queue = tools])

\* The next agent is written from a copy of the state, or without a policy from the state itself.
NextTool(p, t) ==
  /\ pc[p] = "next" /\ t \in run[p].queue
  /\ UNCHANGED <<saved, files, bounds, history>>
  /\ LET r == run[p]
         work == IF Governs(r) THEN Resolve(r.policy, r.mem, t) ELSE r.mem IN
       Go(p, "look", [r EXCEPT !.tool = t, !.queue = @ \ {t}, !.work = work,
                               !.provider = work.block.source[t]])

Configured(p) ==
  /\ pc[p] = "next" /\ run[p].queue = {}
  /\ LET r == run[p] IN
       IF Governs(r) THEN UNCHANGED saved
       ELSE Save([r.mem EXCEPT !.block.available = @ \cup r.did])
  /\ UNCHANGED <<files, bounds, history>>
  /\ End(p)

-----------------------------------------------------------------------------
(* write_tool_config of one agent: backup, file, record. *)

\* Mistaken form: an earlier backup is replaced.
LookOverwriting(p) ==
  /\ pc[p] = "look"
  /\ LET r == run[p]
         copies == /\ ~(r.tool \in Guarded /\ r.tool \in r.work.block.managed)
                   /\ file[r.tool] # NoFile
         other == \E q \in Processes \ {p} : pc[q] = "copy" /\ run[q].tool = r.tool IN
       /\ raced' = IF copies /\ other THEN raced \cup {r.tool} ELSE raced
       /\ UNCHANGED <<saved, files, bounds, theirs, touched, overlapped>>
       /\ Go(p, IF copies THEN "copy" ELSE "write", r)

\* backup_existing_file looks for an earlier backup and for the file before it copies.
Look(p) ==
  /\ pc[p] = "look"
  /\ LET r == run[p]
         copies == /\ ~(r.tool \in Guarded /\ r.tool \in r.work.block.managed)
                   /\ backup[r.tool] = NoFile /\ file[r.tool] # NoFile
         other == \E q \in Processes \ {p} : pc[q] = "copy" /\ run[q].tool = r.tool IN
       /\ raced' = IF copies /\ other THEN raced \cup {r.tool} ELSE raced
       /\ UNCHANGED <<saved, files, bounds, theirs, touched, overlapped>>
       /\ Go(p, IF copies THEN "copy" ELSE "write", r)

Copy(p) ==
  /\ pc[p] = "copy" /\ file[run[p].tool] # NoFile
  /\ backup' = [backup EXCEPT ![run[p].tool] = file[run[p].tool]]
  /\ UNCHANGED <<saved, file, bounds, history>>
  /\ Go(p, "write", run[p])

\* Mistaken form: a file that ug wrote for this workspace is left as it is.
WriteIfForeign(p) ==
  /\ pc[p] = "write"
  /\ LET r == run[p] IN
       file' = [file EXCEPT ![r.tool] =
         IF @.by = "ug" /\ @.ws = r.work.ws THEN @ ELSE Generated(r.work.ws, r.provider)]
  /\ UNCHANGED <<saved, backup, bounds, history>>
  /\ Go(p, "mark", run[p])

Write(p) ==
  /\ pc[p] = "write"
  /\ LET r == run[p] IN
       file' = [file EXCEPT ![r.tool] = Generated(r.work.ws, r.provider)]
  /\ UNCHANGED <<saved, backup, bounds, history>>
  /\ Go(p, "mark", run[p])

\* mark_tool_managed, and the writer's own save.
Mark(p) ==
  /\ pc[p] = "mark"
  /\ LET r == run[p]
         m == Marked(r)
         s == [r EXCEPT !.work = m] IN
       /\ Save(m)
       /\ UNCHANGED <<files, bounds, history>>
       /\ IF r.kind = "configure" /\ ~Governs(r)
            THEN Resume(p, [s EXCEPT !.mem = m, !.did = @ \cup {r.tool}])
          ELSE IF r.kind = "configure" \/ r.setup
            THEN Go(p, "list", [s EXCEPT !.did = {r.tool}])
          ELSE Go(p, "started", s)

\* Mistaken form: the list is not carried to the next agent.
ListForgotten(p) ==
  /\ pc[p] = "list"
  /\ LET r == run[p]
         m == [r.work EXCEPT !.block.available = @ \cup r.did] IN
       /\ Save(m)
       /\ UNCHANGED <<files, bounds, history>>
       /\ IF r.setup THEN Go(p, "ensure", [r EXCEPT !.did = {}])
          ELSE Resume(p, [r EXCEPT !.did = {}])

\* The agent is listed as available; of what its writer did to the copy, a configure carries only
\* this list to the next agent.
List(p) ==
  /\ pc[p] = "list"
  /\ LET r == run[p]
         m == [r.work EXCEPT !.block.available = @ \cup r.did] IN
       /\ Save(m)
       /\ UNCHANGED <<files, bounds, history>>
       /\ IF r.setup
            THEN Go(p, "ensure", [NoRun EXCEPT !.kind = "launch", !.tool = r.tool, !.setup = TRUE])
            ELSE Resume(p, [r EXCEPT !.mem.block.available = m.block.available, !.did = {}])

\* The writer fails, that of a guarded agent perhaps with its file written (a machine-wide file
\* comes after it): a configure goes on with the other agents, a running agent with what it has,
\* and a launch ends.
WriterFails(p) ==
  /\ pc[p] \in {"look", "copy", "write"} \/ (pc[p] = "mark" /\ run[p].tool \in Guarded)
  /\ UNCHANGED <<saved, files, bounds, history>>
  /\ LET r == run[p] IN
       IF r.kind = "configure"
         THEN IF Governs(r) THEN Go(p, "list", r) ELSE Resume(p, r)
       ELSE IF r.kind = "refresh" THEN Go(p, "started", r)
       ELSE End(p)

-----------------------------------------------------------------------------
(* Launches. *)

\* _launch_workspace_state, for a workspace that was asked for or is selected, or else the one
\* that the developer is prompted for.
Launch(p, t, w) ==
  /\ Begin(p)
  /\ current' \in IF current = None THEN {None, w} ELSE {w}
  /\ UNCHANGED block
  /\ Go(p, "gate", [NoRun EXCEPT !.kind = "launch", !.tool = t, !.mem.ws = w,
                                 !.setup = (current' = None \/ t \notin block[w].available)])

\* The policy is read before the agent is set up or, if it need not be, once and for all.
Gate(p, a) ==
  /\ pc[p] = "gate"
  /\ UNCHANGED <<saved, files, bounds, history>>
  /\ LET r == run[p] IN
       IF Refuses(a, r.tool) THEN End(p)
       ELSE IF r.setup THEN Go(p, "load", r)
       ELSE Go(p, "ensure", [r EXCEPT !.policy = a])

\* ensure_provider_state: the saved source, or none if the agent is not available after all.
Ensure(p, a) ==
  /\ pc[p] = "ensure"
  /\ UNCHANGED <<saved, files, bounds, history>>
  /\ LET r == run[p]
         policy == IF r.setup THEN a ELSE r.policy IN
       IF current = None \/ r.tool \notin Loaded.block.available \/ Refuses(policy, r.tool)
         THEN End(p)
         ELSE Go(p, "load", [r EXCEPT !.policy = policy, !.setup = FALSE, !.mem.ws = current,
                                      !.provider = Loaded.block.source[r.tool]])

\* Such an agent's file is written again from the state that the launch left, once before the
\* agent starts, and then by the refresher while it runs.
Refresh(p) ==
  /\ pc[p] = "started" /\ run[p].tool \in Refreshing
  /\ UNCHANGED <<saved, files, bounds, history>>
  /\ LET r == run[p] IN
       Go(p, "look", [r EXCEPT !.kind = IF @ = "launch" THEN "first" ELSE "refresh",
                               !.provider = r.work.block.source[r.tool]])

Exit(p) ==
  /\ pc[p] = "started" /\ ~(run[p].kind = "launch" /\ run[p].tool \in Refreshing)
  /\ UNCHANGED <<saved, files, bounds, history>>
  /\ End(p)

-----------------------------------------------------------------------------
(* ug revert, and kills. *)

Revert(p) ==
  /\ Begin(p)
  /\ UNCHANGED saved
  /\ Go(p, "restore", [NoRun EXCEPT !.kind = "revert", !.mem = Loaded, !.queue = Tools])

\* restore_file
Restore(p, t) ==
  /\ pc[p] = "restore" /\ t \in run[p].queue
  /\ IF backup[t] # NoFile \/ t \in run[p].mem.block.managed
       THEN /\ file' = [file EXCEPT ![t] = backup[t]]
            /\ backup' = [backup EXCEPT ![t] = NoFile]
            /\ touched' = touched \cup {t}
       ELSE UNCHANGED <<files, touched>>
  /\ UNCHANGED <<saved, bounds, theirs, raced, overlapped>>
  /\ Go(p, "restore", [run[p] EXCEPT !.queue = @ \ {t}])

\* clear_state, which knows only the current workspace.
Clear(p) ==
  /\ pc[p] = "restore" /\ run[p].queue = {}
  /\ block' = [w \in Workspaces |-> IF w = current THEN Empty ELSE block[w]]
  /\ current' = None
  /\ UNCHANGED <<files, bounds, history>>
  /\ End(p)

\* Claude Desktop could not be reverted: the state is kept for another revert.
KeepState(p) ==
  /\ pc[p] = "restore" /\ run[p].queue = {}
  /\ UNCHANGED <<saved, files, bounds, history>>
  /\ End(p)

Kill(p) ==
  /\ pc[p] # "idle" /\ kills < scenario.kills
  /\ kills' = kills + 1
  /\ UNCHANGED <<saved, files, scenario, begun, history>>
  /\ End(p)

Start(p) ==
  \/ \E w \in scenario.within : Configure(p, w)
  \/ \E t \in Tools, w \in scenario.within : Launch(p, t, w)
  \/ Revert(p)

Choose(p) ==
  \/ \E a \in Policies : Gate(p, a) \/ Ensure(p, a)
  \/ \E a \in Policies, tools \in SUBSET Tools : ApplyPolicy(p, a, tools)
  \/ \E tools \in SUBSET Tools, t \in Tools, s \in OwnSources \cup {None} : Pick(p, tools, t, s)
  \/ \E t \in Tools : NextTool(p, t) \/ Restore(p, t)

Next == \E p \in Processes :
  \/ Start(p) \/ Choose(p)
  \/ LoadShared(p) \/ SaveShared(p) \/ SharedFails(p) \/ Configured(p)
  \/ Look(p) \/ Copy(p) \/ Write(p) \/ Mark(p) \/ List(p) \/ WriterFails(p)
  \/ Refresh(p) \/ Exit(p) \/ Clear(p) \/ KeepState(p) \/ Kill(p)

Spec == Init /\ [][Next]_vars

-----------------------------------------------------------------------------
(* Properties. *)

Blocks == [managed : SUBSET Tools, available : SUBSET Tools, source : [Tools -> Sources]]
States == [ws : Workspaces \cup {None}, block : Blocks, layered : BOOLEAN,
           own : [Tools -> Sources]]
Files == [by : {"nobody", "user", "ug"}, ws : Workspaces \cup {None}, source : Sources]
Runs == [kind : {"none", "configure", "launch", "first", "refresh", "revert"},
         tool : Tools \cup {None}, mem : States, work : States, policy : Policies,
         provider : Sources, queue : SUBSET Tools, did : SUBSET Tools,
         setup : BOOLEAN, switched : BOOLEAN]

TypeOK ==
  /\ current \in Workspaces \cup {None} /\ block \in [Workspaces -> Blocks]
  /\ file \in [Tools -> Files] /\ backup \in [Tools -> Files]
  /\ pc \in [Processes -> Labels] /\ run \in [Processes -> Runs]
  /\ scenario \in Scenarios /\ begun \in Nat /\ kills \in Nat
  /\ theirs \subseteq Tools /\ touched \subseteq Tools /\ raced \subseteq Tools
  /\ overlapped \in BOOLEAN

\* A source that an administrator named is never saved as a developer's choice, whatever commands
\* run side by side or are killed and whichever of their states is saved last: the next command
\* would take it for the developer's, and the administrator could not withdraw it (save_state;
\* "without overwriting what the developer configured for themselves").
OwnSourcesOnly == \A w \in Workspaces, t \in Tools : block[w].source[t] \in OwnSources \cup {None}

\* The first revert that touches an agent's file gives the user's own file back, however many
\* workspaces were configured or commands killed or overlapping before, unless two commands took
\* its first backup at the same time (backup_existing_file, restore_file).
FirstRevertRestores ==
  [][\A t \in theirs \ raced : t \in touched' \ touched => file'[t] = UsersOwn]_vars

Alone == ~overlapped'

\* While commands run one at a time, killed or not, a workspace never loses an available agent or
\* a chosen source except to a developer's choice, a revert, or a command that began elsewhere:
\* an agent that fails or is written from a copy costs the others nothing (configure_workspace_command).
BlockKept ==
  [][Alone => \A w \in Workspaces :
       \/ /\ block[w].available \subseteq block'[w].available
          /\ block[w].source = block'[w].source
       \/ \E p \in Processes :
            \/ pc[p] = "restore"
            \/ pc[p] = "shared" /\ run[p].switched
            \/ pc[p] = "policy" /\ block[w].available \subseteq block'[w].available]_vars

\* While commands run one at a time, an agent starts with a file of its workspace and of the
\* source that the policy names or, if it names none, that the developer last chose there
\* (_launch_tool).
LaunchObeys ==
  ~overlapped => \A p \in Processes : pc[p] = "started" =>
    LET r == run[p] IN
      file[r.tool] = Generated(r.work.ws,
        IF r.policy.source # None THEN r.policy.source ELSE block[r.work.ws].source[r.tool])

\* What claude.py promises of a backup: a file that only ug wrote is deleted by a revert, and not
\* restored from a snapshot of itself or left.
RevertDeletes ==
  [][\A p \in Processes : Clear(p) => \A t \in Tools : file'[t].by # "ug"]_vars

=============================================================================
