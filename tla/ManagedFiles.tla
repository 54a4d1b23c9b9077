---------------------------- MODULE ManagedFiles ----------------------------
(***************************************************************************)
(* The lifecycle of the root-owned, highest-precedence agent settings      *)
(* files (src/src/ucode/managed_files.py): `ug configure` and launches     *)
(* reconcile the file of a tool, `ug revert` puts back what was there      *)
(* before ug.  Between the two ug keeps, under ~/.ucode/managed-backups,   *)
(* a baseline snapshot, a last-applied snapshot and a manifest with the    *)
(* digests of both.  Administrators and device management edit the same    *)
(* files at any time, a privileged replacement may fail before or after    *)
(* its rename, and a command may be killed between any two file writes.    *)
(*                                                                         *)
(* A settings document is a function from leaves to values; a digest is    *)
(* identified with the text it was computed from; every write is the       *)
(* atomic rename the code uses, so a step below is one file operation      *)
(* together with the reads and decisions that lead to it.                  *)
(***************************************************************************)
EXTENDS Naturals

CONSTANTS
  Tools,        \* agents with an OS-managed settings file
  Procs,        \* ug processes
  Leaves,       \* leaf paths of a settings document
  Overlays,     \* the sets of owned_paths that ug's reconciliations pass
  UgValues,     \* values only ug writes
  AdminValues,  \* values administrators and device management write
  NoValue,      \* a leaf the document does not set
  Absent,       \* a file that does not exist
  NoEntry,      \* a tool without a manifest entry
  Idle,         \* a process that runs no command
  Serial,       \* TRUE: commands run one at a time
  Crashes,      \* TRUE: a command may be killed between two file operations
  FlagFaults,   \* TRUE: restoring the immutable flag may fail after the rename
  LateEdits,    \* TRUE: administrators edit while commands run
  MaxEdits,     \* bound on administrator edits
  MaxCommands   \* bound on ug commands

Values   == UgValues \cup AdminValues \cup {NoValue}
Doc      == [Leaves -> Values]
AdminDoc == [Leaves -> AdminValues \cup {NoValue}]
Contents == Doc \cup {Absent}
\* A manifest entry: the digests of the two snapshots (Absent where the entry
\* names no such file) and the paths ug owns for the revert.
Entry    == [original : Contents, applied : Contents, owned : SUBSET Leaves]
Manifest == [Tools -> Entry \cup {NoEntry}]

Reconciling == {"read", "backup", "save_entry", "check", "replace", "verify",
                "record", "save_applied"}
Reverting   == {"restore", "verify_restore", "unlink_backup",
                "unlink_applied", "drop_entry"}
\* A running command: where it stands and its local variables.  `view` is the
\* manifest it has loaded and will write back whole.
Command == [pc : Reconciling \cup Reverting, tool : Tools,
            paths : SUBSET Leaves, explicit : BOOLEAN,
            current : Contents, desired : Contents,
            attempt : {0, 1}, view : Manifest]

ASSUME ConstantsAssumption ==
  /\ UgValues \cap (AdminValues \cup {NoValue}) = {}
  /\ Absent \notin Doc
  /\ NoEntry \notin Entry
  /\ Idle \notin Command
  /\ Overlays \subseteq SUBSET Leaves
  /\ {Serial, Crashes, FlagFaults, LateEdits} \subseteq BOOLEAN
  /\ MaxEdits \in Nat /\ MaxCommands \in Nat

VARIABLES
  file,         \* the OS-managed file of each tool
  backup,       \* <tool>-managed-settings.backup
  last,         \* <tool>-managed-settings.last-applied
  manifest,     \* managed-backups/manifest.json
  cmd,          \* the command each process runs
  policy,       \* history: the document as if only administrators had written
  interrupted,  \* history: tools with a reconciliation that wrote the file and
                \* ended before its last-applied record was complete
  edits,        \* administrator edits so far
  commands      \* commands so far

vars == <<file, backup, last, manifest, cmd, policy, interrupted, edits,
          commands>>
snapshots == <<backup, last>>
external  == <<policy, edits>>

-----------------------------------------------------------------------------
(* Documents. *)

\* `parser(text) if text is not None else {}`.
Settings(contents) ==
  IF contents = Absent THEN [l \in Leaves |-> NoValue] ELSE contents

\* The overlay a reconciliation applies: it sets or clears the owned leaves
\* and preserves every other one.
Compose(contents, paths, value) ==
  [l \in Leaves |-> IF l \in paths THEN value ELSE Settings(contents)[l]]

\* Mistaken form: owned leaves go back whatever they hold now.
RevertOwnedAlways(current, original, applied, owned) ==
  [l \in Leaves |-> IF l \in owned THEN original[l] ELSE current[l]]

\* An owned leaf that still holds what ug last applied goes back to the
\* baseline; everything else stays.
ThreeWayRevert(current, original, applied, owned) ==
  [l \in Leaves |-> IF l \in owned /\ current[l] = applied[l]
                    THEN original[l] ELSE current[l]]

RevertTarget(current, entry) ==
  IF current = entry.applied THEN entry.original
  ELSE IF current = Absent \/ entry.applied = Absent THEN current
  ELSE ThreeWayRevert(current, Settings(entry.original), entry.applied,
                      entry.owned)

NewEntry(contents) ==
  [original |-> contents, applied |-> Absent, owned |-> {}]

\* Mistaken forms of AppliedEntry: only the last overlay's paths are owned;
\* the entry is built afresh.
OwnLastOverlay(entry, contents, paths) ==
  [entry EXCEPT !.applied = contents, !.owned = paths]

RebuildEntry(entry, contents, paths) ==
  [original |-> contents, applied |-> contents, owned |-> entry.owned \cup paths]

AppliedEntry(entry, contents, paths) ==
  [entry EXCEPT !.applied = contents, !.owned = @ \cup paths]

\* A snapshot the entry names must exist and match its digest.
OriginalReadable(t) ==
  manifest[t].original # Absent => backup[t] = manifest[t].original
AppliedReadable(t) ==
  manifest[t].applied # Absent => last[t] = manifest[t].applied

\* The leaves of a file that hold a value of ug's.
UgLeaves(contents) == {l \in Leaves : Settings(contents)[l] \in UgValues}

-----------------------------------------------------------------------------
(* Control of one command. *)

At(p, label) == cmd[p] # Idle /\ cmd[p].pc = label
GoTo(p, label) == cmd' = [cmd EXCEPT ![p] = [@ EXCEPT !.pc = label]]
Return(p) == cmd' = [cmd EXCEPT ![p] = Idle]
ToolOf(p) == cmd[p].tool

MayStart(p) ==
  /\ cmd[p] = Idle
  /\ Serial => \A q \in Procs : cmd[q] = Idle
  /\ commands < MaxCommands

Init ==
  /\ file \in [Tools -> AdminDoc \cup {Absent}]
  /\ policy = file
  /\ backup = [t \in Tools |-> Absent]
  /\ last = [t \in Tools |-> Absent]
  /\ manifest = [t \in Tools |-> NoEntry]
  /\ cmd = [p \in Procs |-> Idle]
  /\ interrupted = {}
  /\ edits = 0
  /\ commands = 0

-----------------------------------------------------------------------------
(* reconcile_managed_file and the caller that composes its document. *)

\* The caller parses the file, overlays ug's settings and does nothing more
\* when that changes nothing.
StartReconcile(p, t) ==
  /\ MayStart(p)
  /\ \E paths \in Overlays, value \in UgValues \cup {NoValue},
        explicit \in BOOLEAN :
       LET desired == Compose(file[t], paths, value) IN
       /\ desired # Settings(file[t])
       /\ cmd' = [cmd EXCEPT ![p] =
            [pc |-> "read", tool |-> t, paths |-> paths,
             explicit |-> explicit, current |-> Absent, desired |-> desired,
             attempt |-> 0, view |-> manifest]]
  /\ commands' = commands + 1
  /\ UNCHANGED <<file, snapshots, manifest, external, interrupted>>

\* A run that may not prompt repairs an existing file only; a document that
\* is already right is left alone, whatever the manifest says of it.
ReadCurrent(p) ==
  LET t == ToolOf(p) IN
  /\ At(p, "read")
  /\ IF \/ file[t] = Absent /\ ~cmd[p].explicit
        \/ file[t] = cmd[p].desired
     THEN Return(p)
     ELSE cmd' = [cmd EXCEPT ![p] =
                    [@ EXCEPT !.pc = "backup", !.current = file[t]]]
  /\ UNCHANGED <<file, snapshots, manifest, external, interrupted, commands>>

\* Mistaken form: an existing entry is trusted without reading its snapshot.
TrustEntry(p) ==
  LET t == ToolOf(p) IN
  /\ At(p, "backup")
  /\ IF manifest[t] # NoEntry
     THEN GoTo(p, "check") /\ UNCHANGED backup
     ELSE /\ backup' = [backup EXCEPT ![t] = cmd[p].current]
          /\ cmd' = [cmd EXCEPT ![p] =
               [@ EXCEPT !.pc = "save_entry",
                         !.view = [manifest EXCEPT
                                     ![t] = NewEntry(cmd[p].current)]]]
  /\ UNCHANGED <<file, last, manifest, external, interrupted, commands>>

\* Mistaken form: every reconciliation takes a new baseline.
RefreshBaseline(p) ==
  LET t == ToolOf(p) IN
  /\ At(p, "backup")
  /\ backup' = [backup EXCEPT ![t] = cmd[p].current]
  /\ cmd' = [cmd EXCEPT ![p] =
       [@ EXCEPT !.pc = "save_entry",
                 !.view = [manifest EXCEPT ![t] = NewEntry(cmd[p].current)]]]
  /\ UNCHANGED <<file, last, manifest, external, interrupted, commands>>

\* _ensure_backup up to its manifest write: an existing entry keeps its
\* baseline, which must still be readable; the first write saves one.
EnsureBackup(p) ==
  LET t == ToolOf(p) IN
  /\ At(p, "backup")
  /\ \/ /\ manifest[t] # NoEntry
        /\ OriginalReadable(t)
        /\ GoTo(p, "check")
        /\ UNCHANGED backup
     \/ /\ manifest[t] # NoEntry
        /\ ~OriginalReadable(t)
        /\ Return(p)
        /\ UNCHANGED backup
     \/ /\ manifest[t] = NoEntry
        /\ backup' = IF cmd[p].current = Absent THEN backup
                     ELSE [backup EXCEPT ![t] = cmd[p].current]
        /\ cmd' = [cmd EXCEPT ![p] =
             [@ EXCEPT !.pc = "save_entry",
                       !.view = [manifest EXCEPT
                                   ![t] = NewEntry(cmd[p].current)]]]
  /\ UNCHANGED <<file, last, manifest, external, interrupted, commands>>

SaveEntry(p) ==
  /\ At(p, "save_entry")
  /\ manifest' = cmd[p].view
  /\ GoTo(p, "check")
  /\ UNCHANGED <<file, snapshots, external, interrupted, commands>>

\* The last look at the file before the password prompt.
CheckUnchanged(p) ==
  /\ At(p, "check")
  /\ IF file[ToolOf(p)] = cmd[p].current THEN GoTo(p, "replace") ELSE Return(p)
  /\ UNCHANGED <<file, snapshots, manifest, external, interrupted, commands>>

\* The staged document takes the place of the file, or the file is removed,
\* whatever the file holds by then.
Rename(p) == file' = [file EXCEPT ![ToolOf(p)] = cmd[p].desired]

\* managed_replace.sh fails after its rename: the flags of the file that was
\* there do not go back on.
FlagRestoreFails(t) == FlagFaults /\ file[t] # Absent

\* _privileged_replace: the rename happens, or it is denied, or it happens and
\* is reported as a failure.
Replace(p) ==
  LET t == ToolOf(p) IN
  /\ At(p, "replace")
  /\ \/ /\ Rename(p)
        /\ GoTo(p, "verify")
        /\ UNCHANGED interrupted
     \/ /\ Return(p)
        /\ UNCHANGED <<file, interrupted>>
     \/ /\ FlagRestoreFails(t)
        /\ Rename(p)
        /\ Return(p)
        /\ interrupted' = interrupted \cup {t}
  /\ UNCHANGED <<snapshots, manifest, external, commands>>

\* One retry when device management put the exact previous contents back.
Verify(p) ==
  LET t == ToolOf(p) IN
  /\ At(p, "verify")
  /\ \/ /\ file[t] = cmd[p].desired
        /\ GoTo(p, "record")
        /\ UNCHANGED interrupted
     \/ /\ file[t] # cmd[p].desired
        /\ cmd[p].attempt = 0 /\ file[t] = cmd[p].current
        /\ cmd' = [cmd EXCEPT ![p] =
                     [@ EXCEPT !.pc = "replace", !.attempt = 1]]
        /\ UNCHANGED interrupted
     \/ /\ file[t] # cmd[p].desired
        /\ ~(cmd[p].attempt = 0 /\ file[t] = cmd[p].current)
        /\ Return(p)
        /\ interrupted' = interrupted \cup {t}
  /\ UNCHANGED <<file, snapshots, manifest, external, commands>>

\* _record_last_applied up to its manifest write.
RecordApplied(p) ==
  LET t == ToolOf(p) IN
  /\ At(p, "record")
  /\ IF manifest[t] = NoEntry
     THEN /\ Return(p)
          /\ interrupted' = interrupted \cup {t}
          /\ UNCHANGED last
     ELSE /\ last' = [last EXCEPT ![t] = cmd[p].desired]
          /\ cmd' = [cmd EXCEPT ![p] =
               [@ EXCEPT !.pc = "save_applied",
                  !.view = [manifest EXCEPT ![t] =
                    AppliedEntry(manifest[t], cmd[p].desired, cmd[p].paths)]]]
          /\ UNCHANGED interrupted
  /\ UNCHANGED <<file, backup, manifest, external, commands>>

SaveApplied(p) ==
  /\ At(p, "save_applied")
  /\ manifest' = cmd[p].view
  /\ Return(p)
  /\ UNCHANGED <<file, snapshots, external, interrupted, commands>>

-----------------------------------------------------------------------------
(* revert_managed_file. *)

\* Every read of the revert: a tool without an entry, or with a snapshot that
\* is missing or fails its digest, ends the command with no effect.
StartRevert(p, t) ==
  /\ MayStart(p)
  /\ manifest[t] # NoEntry /\ OriginalReadable(t) /\ AppliedReadable(t)
  /\ LET target == RevertTarget(file[t], manifest[t]) IN
     cmd' = [cmd EXCEPT ![p] =
       [pc |-> IF target = file[t] THEN "unlink_backup" ELSE "restore",
        tool |-> t, paths |-> {}, explicit |-> TRUE, current |-> file[t],
        desired |-> target, attempt |-> 0, view |-> manifest]]
  /\ commands' = commands + 1
  /\ UNCHANGED <<file, snapshots, manifest, external, interrupted>>

\* _privileged_replace or _privileged_remove, which may fail before or after
\* they take effect.
Restore(p) ==
  LET t == ToolOf(p) IN
  /\ At(p, "restore")
  /\ \/ /\ Rename(p)
        /\ GoTo(p, "verify_restore")
     \/ /\ Return(p)
        /\ UNCHANGED file
     \/ /\ FlagRestoreFails(t)
        /\ Rename(p)
        /\ Return(p)
  /\ UNCHANGED <<snapshots, manifest, external, interrupted, commands>>

VerifyRestore(p) ==
  /\ At(p, "verify_restore")
  /\ IF file[ToolOf(p)] = cmd[p].desired
     THEN GoTo(p, "unlink_backup") ELSE Return(p)
  /\ UNCHANGED <<file, snapshots, manifest, external, interrupted, commands>>

\* _delete_backup: both snapshots, then the entry of the manifest loaded at
\* the start of the command.
UnlinkBackup(p) ==
  LET t == ToolOf(p) IN
  /\ At(p, "unlink_backup")
  /\ backup' = IF cmd[p].view[t].original = Absent THEN backup
               ELSE [backup EXCEPT ![t] = Absent]
  /\ GoTo(p, "unlink_applied")
  /\ UNCHANGED <<file, last, manifest, external, interrupted, commands>>

UnlinkApplied(p) ==
  LET t == ToolOf(p) IN
  /\ At(p, "unlink_applied")
  /\ last' = IF cmd[p].view[t].applied = Absent THEN last
             ELSE [last EXCEPT ![t] = Absent]
  /\ GoTo(p, "drop_entry")
  /\ UNCHANGED <<file, backup, manifest, external, interrupted, commands>>

DropEntry(p) ==
  /\ At(p, "drop_entry")
  /\ manifest' = [cmd[p].view EXCEPT ![ToolOf(p)] = NoEntry]
  /\ Return(p)
  /\ UNCHANGED <<file, snapshots, external, interrupted, commands>>

-----------------------------------------------------------------------------
(* The environment. *)

Crash(p) ==
  /\ Crashes /\ cmd[p] # Idle
  /\ Return(p)
  /\ interrupted' = IF cmd[p].pc \in {"verify", "record", "save_applied"}
                    THEN interrupted \cup {ToolOf(p)} ELSE interrupted
  /\ UNCHANGED <<file, snapshots, manifest, external, commands>>

AdminMayEdit ==
  /\ LateEdits \/ \A p \in Procs : cmd[p] = Idle
  /\ edits < MaxEdits

\* An administrator changes one leaf of the live file.
AdminEdit(t) ==
  /\ AdminMayEdit
  /\ \E l \in Leaves, v \in AdminValues \cup {NoValue} :
       /\ file' = [file EXCEPT ![t] = [Settings(file[t]) EXCEPT ![l] = v]]
       /\ policy' = [policy EXCEPT
                      ![t] = [Settings(policy[t]) EXCEPT ![l] = v]]
  /\ edits' = edits + 1
  /\ UNCHANGED <<snapshots, manifest, cmd, interrupted, commands>>

AdminRemove(t) ==
  /\ AdminMayEdit
  /\ file' = [file EXCEPT ![t] = Absent]
  /\ policy' = [policy EXCEPT ![t] = Absent]
  /\ edits' = edits + 1
  /\ UNCHANGED <<snapshots, manifest, cmd, interrupted, commands>>

\* Device management pushes its own document again.
AdminPush(t) ==
  /\ AdminMayEdit
  /\ file' = [file EXCEPT ![t] = policy[t]]
  /\ edits' = edits + 1
  /\ UNCHANGED <<snapshots, manifest, cmd, policy, interrupted, commands>>

Step(p) ==
  \/ ReadCurrent(p) \/ EnsureBackup(p) \/ SaveEntry(p) \/ CheckUnchanged(p)
  \/ Replace(p) \/ Verify(p) \/ RecordApplied(p) \/ SaveApplied(p)
  \/ Restore(p) \/ VerifyRestore(p)
  \/ UnlinkBackup(p) \/ UnlinkApplied(p) \/ DropEntry(p)

Next ==
  \/ \E p \in Procs : Step(p) \/ Crash(p)
  \/ \E p \in Procs, t \in Tools : StartReconcile(p, t) \/ StartRevert(p, t)
  \/ \E t \in Tools : AdminEdit(t) \/ AdminRemove(t) \/ AdminPush(t)

Spec == Init /\ [][Next]_vars

-----------------------------------------------------------------------------
(* Properties. *)

TypeOK ==
  /\ file \in [Tools -> Contents]
  /\ backup \in [Tools -> Contents]
  /\ last \in [Tools -> Contents]
  /\ manifest \in Manifest
  /\ cmd \in [Procs -> Command \cup {Idle}]
  /\ policy \in [Tools -> AdminDoc \cup {Absent}]
  /\ interrupted \subseteq Tools
  /\ edits \in Nat /\ commands \in Nat

Writing == {"check", "replace", "verify", "record", "save_applied"}

\* While a reconciliation can write a managed file, the manifest holds the
\* file's baseline and the snapshot it names is readable: no write of ug ever
\* happens before the way back is durable, even after a killed revert.
WriteHasBaseline ==
  \A p \in Procs : cmd[p] # Idle /\ cmd[p].pc \in Writing =>
    manifest[ToolOf(p)] # NoEntry /\ OriginalReadable(ToolOf(p))

\* The baseline ug would restore is never ug's own work: the snapshot that
\* _ensure_backup took holds no value of ug's, however many configures,
\* reverts and edits preceded it, unless a write was cut short.
BaselineIsForeign ==
  \A t \in Tools \ interrupted : manifest[t] # NoEntry =>
    UgLeaves(manifest[t].original) = {}

\* When a tool has no manifest entry, that is before the first configure and
\* after a completed revert, its file holds no setting of ug's: a revert takes
\* out what every reconciliation since the baseline put in, whatever was
\* edited meanwhile, unless a write was cut short.
NothingLeftBehind ==
  \A t \in Tools \ interrupted : manifest[t] = NoEntry =>
    UgLeaves(file[t]) = {}

\* A tool's entry disappears only by the end of that tool's own revert and
\* keeps its first baseline until then (docstring of reconcile_managed_file).
BaselineKept ==
  [][\A t \in Tools : manifest[t] # NoEntry =>
       IF manifest'[t] = NoEntry
       THEN \E p \in Procs : At(p, "drop_entry") /\ ToolOf(p) = t
       ELSE manifest'[t].original = manifest[t].original]_vars

\* A revert that is not raced by an edit leaves every leaf that was changed
\* since ug last applied its document as the administrator set it.
RevertKeepsLaterEdits ==
  [][\A p \in Procs :
       LET t == ToolOf(p) IN
       /\ At(p, "restore") /\ ~UNCHANGED cmd /\ file[t] = cmd[p].current
       /\ manifest[t] # NoEntry /\ manifest[t].applied # Absent
       => \A l \in Leaves :
            Settings(file[t])[l] # manifest[t].applied[l] =>
              Settings(file'[t])[l] = Settings(file[t])[l]]_vars
=============================================================================
