---------------------------- MODULE ManagedPolicy ---------------------------
(***************************************************************************)
(* The workspace policy of a machine (src/src/ucode/managed_config.py and  *)
(* the callers in cli.py).                                                 *)
(*                                                                         *)
(* An administrator may publish a configuration for a workspace.  `ug      *)
(* configure` reads it and installs it, as root, in one file for all users *)
(* of the machine; the file also names the workspace that every launch     *)
(* must use.  A launch never writes the file: it replays what this user's  *)
(* last read said (refresh_ts.json) as long as the file is the same one,   *)
(* and reads again only if nothing was saved.  A run with                  *)
(* UG_SKIP_OS_SETTINGS or --user keeps a copy of its own instead, unless a *)
(* policy is installed for its workspace.  Each user runs one command at a *)
(* time, several users theirs side by side; commands may be killed, tokens *)
(* and reads may fail, and so may the write as root.  The control plane    *)
(* and sudo are external.                                                  *)
(***************************************************************************)
EXTENDS Naturals

CONSTANTS
  Users, Workspaces, Configs, None,
  Disabled,      \* what the control plane says when the feature is off
  Skips,         \* whether runs opt out of machine-wide settings
  MaxCommands, MaxPublications

ASSUME ConstantsAssumption ==
  /\ None \notin Workspaces \cup Configs /\ Disabled \notin Configs \cup {None}
  /\ Skips \subseteq BOOLEAN /\ MaxCommands \in Nat /\ MaxPublications \in Nat

Answers == Configs \cup {None, Disabled}
Outcomes == {"published", "none", "feature_disabled"}
Kinds == {"launch",
          "configure",  \* for Claude Code or Codex, or for every agent
          "other",      \* --agent with one that never installs the policy
          "revert"}
Labels == {"idle", "refresh", "fetch", "apply", "record", "cache", "restore", "clear",
           "refused", "done"}
Stamps == Nat                   \* fingerprints of the installed file; 0 if there is none

VARIABLES
  published,  \* what the control plane answers for each workspace
  machine,    \* the installed policy
  saved,      \* each user's current workspace
  refreshed,  \* refresh_ts.json of each user, by workspace
  stored,     \* each user's own copy of a policy
  pc, run,
  commands, publications, \* history: how many there were
  installs                \* history: the policies installed so far, which tells their files apart

files == <<machine, saved, refreshed, stored>>
counts == <<commands, publications, installs>>
vars == <<files, published, pc, run, counts>>

NoPolicy == [at |-> None, config |-> None, stamp |-> 0]
NoRecord == [outcome |-> "none", stamp |-> None]
NoCopy == [at |-> None, config |-> None, outcome |-> "none"]
Nothing == [config |-> None, disabled |-> FALSE]

\* What a command holds.  The last three fields are history: whether no other command changed
\* the machine's policy, whether the control plane answered, and the configurations that were
\* installed or published for a launch's workspace meanwhile.
NoRun == [kind |-> "launch", w |-> None, skip |-> FALSE, fresh |-> FALSE,
          answer |-> None, result |-> Nothing,
          steady |-> TRUE, answered |-> FALSE, seen |-> {}]

Init ==
  /\ published \in [Workspaces -> Answers]
  /\ machine = NoPolicy
  /\ saved = [u \in Users |-> None]
  /\ refreshed = [u \in Users |-> [w \in Workspaces |-> NoRecord]]
  /\ stored = [u \in Users |-> NoCopy]
  /\ pc = [u \in Users |-> "idle"]
  /\ run = [u \in Users |-> NoRun]
  /\ commands = 0 /\ publications = 0 /\ installs = 0

-----------------------------------------------------------------------------
(* What a policy read from a file is. *)

Installed(w) == IF machine.at = w THEN machine.config ELSE None
Own(u, w) == IF stored[u].at = w THEN stored[u].config ELSE None

\* Mistaken form: the own copy is the fallback of every run.
LoadedAnywhere(u) ==
  IF Installed(run[u].w) # None THEN Installed(run[u].w) ELSE Own(u, run[u].w)

\* load_managed_configuration: a user's own copy counts only where nothing can be installed.
Loaded(u) ==
  IF Installed(run[u].w) # None \/ ~run[u].skip THEN Installed(run[u].w) ELSE Own(u, run[u].w)

\* managed_launch_workspace
Launchable(w) == machine.at \in {None, w} \/ w = None
LaunchWorkspace(w) == IF machine.at # None THEN machine.at ELSE w

AsConfig(a) == IF a \in Configs THEN a ELSE None
AsResult(a) == [config |-> AsConfig(a), disabled |-> a = Disabled]
OutcomeOf(res) ==
  IF res.disabled THEN "feature_disabled"
  ELSE IF res.config # None THEN "published" ELSE "none"

Free(u) == pc[u] = "idle" /\ commands < MaxCommands

Current == [w \in Workspaces |-> {Installed(w), AsConfig(published[w])}]

\* What u goes on to do; the others notice what it changed.
Step(u, label, r) ==
  /\ pc' = [pc EXCEPT ![u] = label]
  /\ run' = [q \in Users |->
       LET s == IF q = u THEN r ELSE run[q] IN
       [s EXCEPT
         !.steady = @ /\ (q = u \/ machine' = machine),
         !.seen = IF s.w = None \/ s.kind # "launch" THEN {}
                  ELSE @ \cup Current[s.w] \cup Current'[s.w]]]

-----------------------------------------------------------------------------
(* ug configure and launches begin. *)

\* A launch takes the workspace it asks for, or the one saved, or the machine's; one that the
\* machine is not managed for is refused.
Launch(u, asked, skip) ==
  /\ Free(u) /\ commands' = commands + 1
  /\ LET sel == IF asked # None THEN asked ELSE saved[u]
         w == LaunchWorkspace(sel) IN
       /\ Launchable(sel) /\ w # None
       /\ saved' = [saved EXCEPT ![u] = w]
       /\ UNCHANGED <<machine, refreshed, stored, published, publications, installs>>
       /\ Step(u, "refresh", [NoRun EXCEPT !.w = w, !.skip = skip])

\* The selection is saved before the policy is read; only a read for --user is fresh when
\* the agent is one that never installs.
Configure(u, w, kind, skip, fresh) ==
  /\ Free(u) /\ commands' = commands + 1
  /\ kind \in {"configure", "other"} /\ (kind = "configure" => fresh)
  /\ kind = "other" => (fresh => skip)
  /\ saved' = [saved EXCEPT ![u] = w]
  /\ UNCHANGED <<machine, refreshed, stored, published, publications, installs>>
  /\ Step(u, IF kind = "configure" THEN "refresh" ELSE "restore",
          [NoRun EXCEPT !.kind = kind, !.w = w, !.skip = skip, !.fresh = fresh])

\* _keep_installed_workspace_selected, before another agent's policy is read, or after an
\* installation that was denied.
PutBack(u) ==
  /\ pc[u] = "restore"
  /\ LET r == run[u]
         elsewhere == machine.at \notin {None, r.w} IN
       /\ saved' = IF elsewhere THEN [saved EXCEPT ![u] = machine.at] ELSE saved
       /\ UNCHANGED <<machine, refreshed, stored, published, counts>>
       /\ Step(u, IF r.kind = "other" /\ ~elsewhere THEN "refresh" ELSE "refused", r)

-----------------------------------------------------------------------------
(* refresh_managed_config *)

OwnOnly(u) == run[u].skip /\ Installed(run[u].w) = None

\* _saved_result: the record of this user, unless the file has changed.
Replays(u) ==
  LET rec == refreshed[u][run[u].w] IN
    /\ rec.stamp = machine.stamp
    /\ Loaded(u) # None \/ rec.outcome # "published"

\* Mistaken form: the saved outcome is believed without a look at what is installed.
ReplayedOutcome(u) ==
  LET said == refreshed[u][run[u].w].outcome IN
    [config |-> IF said = "published" THEN Loaded(u) ELSE None,
     disabled |-> said = "feature_disabled"]

Replayed(u) ==
  [config |-> Loaded(u), disabled |-> refreshed[u][run[u].w].outcome = "feature_disabled"]

\* _saved_user_result
ReplaysOwn(u) ==
  /\ stored[u].at = run[u].w
  /\ stored[u].outcome # "published" \/ stored[u].config # None

ReplayedOwn(u) ==
  [config |-> stored[u].config, disabled |-> stored[u].outcome = "feature_disabled"]

Refresh(u) ==
  /\ pc[u] = "refresh"
  /\ UNCHANGED <<files, published, counts>>
  /\ LET r == run[u] IN
       IF ~r.fresh /\ ~Launchable(r.w) THEN Step(u, "refused", r)
       ELSE IF OwnOnly(u)
         THEN IF ~r.fresh /\ ReplaysOwn(u)
                THEN Step(u, "done", [r EXCEPT !.result = ReplayedOwn(u)])
                ELSE Step(u, "cache", r)
         ELSE IF ~r.fresh /\ Replays(u)
                THEN Step(u, "done", [r EXCEPT !.result = Replayed(u)])
                ELSE Step(u, "fetch", r)

\* No token, or no answer that settles the question: the last policy on disk.
ReadFails(u) ==
  /\ pc[u] \in {"fetch", "cache"}
  /\ UNCHANGED <<files, published, counts>>
  /\ Step(u, "done", [run[u] EXCEPT !.result =
       [config |-> Loaded(u), disabled |-> FALSE]])

Fetch(u) ==
  /\ pc[u] = "fetch"
  /\ UNCHANGED <<files, published, counts>>
  /\ Step(u, "apply", [run[u] EXCEPT !.answer = published[run[u].w], !.answered = TRUE])

\* _refresh_user_cache
Cache(u) ==
  /\ pc[u] = "cache"
  /\ LET r == run[u]
         res == AsResult(published[r.w]) IN
       /\ stored' = [stored EXCEPT ![u] =
            [at |-> r.w, config |-> res.config, outcome |-> OutcomeOf(res)]]
       /\ UNCHANGED <<machine, saved, refreshed, published, counts>>
       /\ Step(u, "done", [r EXCEPT !.result = res, !.answered = TRUE])

\* Mistaken form: only the workspace's own policy is removed.
NeedsWriteOwn(u) ==
  IF AsConfig(run[u].answer) # None
    THEN ~(machine.at = run[u].w /\ machine.config = run[u].answer)
    ELSE machine.at = run[u].w

\* save_managed_state has something to write: only an explicit configure also removes the
\* policy of another workspace.
NeedsWrite(u) ==
  IF AsConfig(run[u].answer) # None
    THEN ~(machine.at = run[u].w /\ machine.config = run[u].answer)
    ELSE machine.at = run[u].w \/ (run[u].fresh /\ machine.at # None)

Writable(u) == run[u].fresh /\ ~run[u].skip

\* Nothing is installed for this workspace and this run cannot, or nothing is to be written.
ApplyRead(u) ==
  /\ pc[u] = "apply"
  /\ LET r == run[u] IN
       /\ (~Writable(u) /\ Loaded(u) = None) \/ ~NeedsWrite(u)
       /\ UNCHANGED <<files, published, counts>>
       /\ Step(u, "record", [r EXCEPT !.result = AsResult(r.answer)])

\* As root: the file is replaced, or removed.
Install(u) ==
  /\ pc[u] = "apply"
  /\ LET r == run[u] IN
       /\ Writable(u) /\ NeedsWrite(u)
       /\ machine' = IF AsConfig(r.answer) = None THEN NoPolicy
                     ELSE [at |-> r.w, config |-> r.answer, stamp |-> installs + 1]
       /\ installs' = IF AsConfig(r.answer) = None THEN installs ELSE installs + 1
       /\ UNCHANGED <<saved, refreshed, stored, published, commands, publications>>
       /\ Step(u, "record", [r EXCEPT !.result = AsResult(r.answer)])

\* No sudo, or its replacement fails.
Denied(u) ==
  /\ pc[u] = "apply" /\ Writable(u) /\ NeedsWrite(u)
  /\ UNCHANGED <<files, published, counts>>
  /\ Step(u, "restore", run[u])

\* A launch finds that the policy has changed: it goes on with the installed one.
KeepInstalled(u) ==
  /\ pc[u] = "apply"
  /\ LET r == run[u]
         old == Loaded(u) IN
       /\ ~Writable(u) /\ old # None /\ NeedsWrite(u)
       /\ UNCHANGED <<files, published, counts>>
       /\ Step(u, "record", [r EXCEPT !.result =
            [config |-> old, disabled |-> r.answer = Disabled]])

\* _record_refresh: with the file as it is now.
Record(u) ==
  /\ pc[u] = "record"
  /\ LET r == run[u] IN
       /\ refreshed' = [refreshed EXCEPT ![u][r.w] =
            [outcome |-> OutcomeOf(r.result), stamp |-> machine.stamp]]
       /\ UNCHANGED <<machine, saved, stored, published, counts>>
       /\ Step(u, "done", r)

-----------------------------------------------------------------------------
(* ug revert, the control plane, and kills. *)

\* revert_machine_policy
Revert(u, skip) ==
  /\ Free(u) /\ commands' = commands + 1
  /\ machine' \in IF skip THEN {machine} ELSE {machine, NoPolicy}
  /\ UNCHANGED <<saved, refreshed, stored, published, publications, installs>>
  /\ Step(u, "clear", [NoRun EXCEPT !.kind = "revert", !.skip = skip])

\* clear_state
Clear(u) ==
  /\ pc[u] = "clear"
  /\ saved' = [saved EXCEPT ![u] = None]
  /\ UNCHANGED <<machine, refreshed, stored, published, counts>>
  /\ Step(u, "done", run[u])

Publish(w, a) ==
  /\ publications < MaxPublications /\ published[w] # a
  /\ published' = [published EXCEPT ![w] = a] /\ publications' = publications + 1
  /\ UNCHANGED <<files, pc, commands, installs>>
  /\ run' = [q \in Users |-> [run[q] EXCEPT !.seen =
       IF run[q].w = w /\ run[q].kind = "launch" THEN @ \cup {AsConfig(a)} ELSE @]]

Kill(u) ==
  /\ pc[u] # "idle"
  /\ pc' = [pc EXCEPT ![u] = "idle"] /\ run' = [run EXCEPT ![u] = NoRun]
  /\ UNCHANGED <<files, published, counts>>

\* A command hands over its result, or its refusal, at once.
Over == {u \in Users : pc[u] \in {"refused", "done"}}

Return(u) ==
  /\ u \in Over
  /\ pc' = [pc EXCEPT ![u] = "idle"] /\ run' = [run EXCEPT ![u] = NoRun]
  /\ UNCHANGED <<files, published, counts>>

Begin(u) ==
  \E skip \in Skips :
    \/ \E asked \in Workspaces \cup {None} : Launch(u, asked, skip)
    \/ \E w \in Workspaces, kind \in Kinds, fresh \in BOOLEAN :
         Configure(u, w, kind, skip, fresh)
    \/ Revert(u, skip)

Next ==
  \/ \E u \in Users : Return(u)
  \/ /\ Over = {}
     /\ \/ \E u \in Users :
             \/ Begin(u) \/ PutBack(u) \/ Refresh(u) \/ ReadFails(u) \/ Fetch(u) \/ Cache(u)
             \/ ApplyRead(u) \/ Install(u) \/ Denied(u) \/ KeepInstalled(u) \/ Record(u)
             \/ Clear(u) \/ Kill(u)
        \/ \E w \in Workspaces, a \in Answers : Publish(w, a)

Spec == Init /\ [][Next]_vars

-----------------------------------------------------------------------------
(* Properties. *)

Run == [kind : Kinds, w : Workspaces \cup {None},
        skip : BOOLEAN, fresh : BOOLEAN, answer : Answers,
        result : [config : Configs \cup {None}, disabled : BOOLEAN],
        steady : BOOLEAN, answered : BOOLEAN,
        seen : SUBSET (Configs \cup {None})]

\* Every variable keeps to its domain, and a policy is installed only with a workspace.
TypeOK ==
  /\ published \in [Workspaces -> Answers]
  /\ machine \in {NoPolicy} \cup [at : Workspaces, config : Configs, stamp : Stamps]
  /\ saved \in [Users -> Workspaces \cup {None}]
  /\ refreshed \in [Users -> [Workspaces ->
       [outcome : Outcomes, stamp : Stamps \cup {None}]]]
  /\ stored \in [Users -> [at : Workspaces \cup {None}, config : Configs \cup {None},
                           outcome : Outcomes]]
  /\ pc \in [Users -> Labels]
  /\ run \in [Users -> Run]
  /\ commands \in 0 .. MaxCommands /\ publications \in 0 .. MaxPublications
  /\ installs \in Nat

\* A launch during which one policy stayed installed for its workspace goes by that policy:
\* whatever this user read before, is published now, or fails, and whether or not the run
\* opts out of machine-wide settings.
InstalledGoverns ==
  \A u \in Users :
    LET r == run[u] IN
      pc[u] = "done" /\ r.kind = "launch" /\ r.steady /\ machine.at = r.w =>
        r.result.config = machine.config

\* No launch (with machine-wide settings) goes by a policy that was neither installed nor
\* published for its workspace at any moment of the launch: a policy that was withdrawn does
\* not come back from a record or a user's copy, nor another workspace's from the file.
NothingStale ==
  \A u \in Users :
    LET r == run[u] IN
      pc[u] = "done" /\ r.kind = "launch" /\ ~r.skip => r.result.config \in r.seen \cup {None}

\* A configure whose read was answered either leaves the machine with just what it read and
\* the selection on its workspace, or, when it could not install it, the selection where the
\* machine's policy is: it never locks its own user out of launches.
SwitchOrStay ==
  \A u \in Users :
    LET r == run[u] IN
      /\ pc[u] \in {"done", "refused"} /\ r.kind \in {"configure", "other"}
      /\ ~r.skip /\ r.steady /\ (r.answered \/ pc[u] = "refused")
      => /\ machine.at \in {None, saved[u]}
         /\ pc[u] = "done" /\ r.kind = "configure" => Installed(r.w) = AsConfig(r.answer)
=============================================================================
