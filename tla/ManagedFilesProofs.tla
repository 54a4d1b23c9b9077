------------------------- MODULE ManagedFilesProofs -------------------------
(***************************************************************************)
(* Type correctness of ManagedFiles for every value of its constants, and  *)
(* its safety properties when commands run one at a time.  The inductive   *)
(* invariant says what each label of a command may rely on, and that the   *)
(* last-applied record accounts for every leaf of ug's in a file outside   *)
(* the window between a write and its record.                              *)
(***************************************************************************)
EXTENDS ManagedFiles, TLAPS

USE DEF Reconciling, Reverting, Writing

-----------------------------------------------------------------------------
(* Facts about documents. *)

\* Every leaf of ug's in a file is owned and has the value the entry records.
RecordedIn(contents, entry) ==
  \A l \in UgLeaves(contents) :
    /\ entry # NoEntry /\ entry.applied # Absent
    /\ entry.applied[l] = Settings(contents)[l]
    /\ l \in entry.owned

\* A file that holds no leaf of ug's which the other does not hold as well.
NoMoreThan(new, old) ==
  \A l \in UgLeaves(new) : l \in UgLeaves(old) /\ Settings(new)[l] = Settings(old)[l]

LEMMA SettingsType ==
  ASSUME NEW c \in Contents
  PROVE  Settings(c) \in Doc
BY DEF Settings, Contents, Doc, Values

\* A composed document is a document, and ug's leaves in it are the ones the
\* reconciliation sets and the ones that were there.
LEMMA ComposeFacts ==
  ASSUME NEW c \in Contents, NEW paths \in SUBSET Leaves, NEW v \in Values
  PROVE  /\ Compose(c, paths, v) \in Doc
         /\ \A l \in UgLeaves(Compose(c, paths, v)) :
              l \in paths \/ l \in UgLeaves(c)
<1>1. Settings(c) \in Doc  BY SettingsType
<1>2. Compose(c, paths, v) \in Doc  BY <1>1 DEF Compose, Doc
<1>3. Compose(c, paths, v) # Absent  BY <1>2, ConstantsAssumption
<1>4. Settings(Compose(c, paths, v)) = Compose(c, paths, v)
  BY <1>3 DEF Settings
<1>5. ASSUME NEW l \in UgLeaves(Compose(c, paths, v)), l \notin paths
      PROVE  l \in UgLeaves(c)
  BY <1>4, <1>5 DEF UgLeaves, Compose
<1> QED  BY <1>2, <1>5

LEMMA RevertTargetType ==
  ASSUME NEW c \in Contents, NEW e \in Entry
  PROVE  RevertTarget(c, e) \in Contents
<1>1. e.original \in Contents /\ e.applied \in Contents  BY DEF Entry
<1>2. Settings(e.original) \in Doc  BY <1>1, SettingsType
<1>3. CASE c # Absent /\ e.applied # Absent
  <2>1. c \in Doc /\ e.applied \in Doc  BY <1>1, <1>3 DEF Contents
  <2>2. ThreeWayRevert(c, Settings(e.original), e.applied, e.owned) \in Doc
    BY <1>2, <2>1 DEF ThreeWayRevert, Doc
  <2> QED  BY <1>1, <2>2 DEF RevertTarget, Contents
<1> QED  BY <1>1, <1>3 DEF RevertTarget

\* Reverting a file whose leaves of ug's are all recorded, to a baseline that
\* has none, leaves none.
LEMMA RevertTargetIsForeign ==
  ASSUME NEW c \in Contents, NEW e \in Entry,
         RecordedIn(c, e), UgLeaves(e.original) = {}
  PROVE  UgLeaves(RevertTarget(c, e)) = {}
<1>0. e.original \in Contents /\ e.applied \in Contents  BY DEF Entry
<1>1. CASE c = e.applied
  BY <1>1 DEF RevertTarget
<1>2. CASE c # e.applied /\ c = Absent
  <2>1. \A l \in Leaves : NoValue \notin UgValues  BY ConstantsAssumption
  <2> QED  BY <1>2, <2>1 DEF RevertTarget, UgLeaves, Settings
<1>3. CASE c # e.applied /\ c # Absent /\ e.applied = Absent
  BY <1>3 DEF RevertTarget, RecordedIn
<1>4. CASE c # e.applied /\ c # Absent /\ e.applied # Absent
  <2> DEFINE r == ThreeWayRevert(c, Settings(e.original), e.applied, e.owned)
  <2>1. RevertTarget(c, e) = r  BY <1>4 DEF RevertTarget
  <2>2. c \in Doc /\ e.applied \in Doc /\ Settings(e.original) \in Doc
    BY <1>0, <1>4, SettingsType DEF Contents
  <2>3. r \in Doc  BY <2>2 DEF ThreeWayRevert, Doc
  <2>4. r # Absent  BY <2>3, ConstantsAssumption
  <2>5. ASSUME NEW l \in Leaves  PROVE r[l] \notin UgValues
    <3>1. Settings(e.original)[l] \notin UgValues  BY DEF UgLeaves
    <3>2. r[l] = IF l \in e.owned /\ c[l] = e.applied[l]
                 THEN Settings(e.original)[l] ELSE c[l]
      BY DEF ThreeWayRevert
    <3>3. c[l] \in UgValues => l \in e.owned /\ c[l] = e.applied[l]
      BY <1>4 DEF RecordedIn, UgLeaves, Settings
    <3> QED  BY <3>1, <3>2, <3>3
  <2> HIDE DEF r
  <2>6. Settings(r) = r  BY <2>4 DEF Settings
  <2> QED  BY <2>1, <2>5, <2>6 DEF UgLeaves
<1> QED  BY <1>1, <1>2, <1>3, <1>4

LEMMA RecordedMonotone ==
  ASSUME NEW new, NEW old, NEW e, NoMoreThan(new, old), RecordedIn(old, e)
  PROVE  RecordedIn(new, e)
BY DEF NoMoreThan, RecordedIn

\* What administrators write holds no value of ug's.
LEMMA AdminDocIsForeign ==
  ASSUME NEW c \in AdminDoc \cup {Absent}
  PROVE  UgLeaves(c) = {} /\ c \in Contents
<1>1. Settings(c) \in AdminDoc  BY DEF Settings, AdminDoc
<1>2. AdminDoc \subseteq Doc  BY DEF AdminDoc, Doc, Values
<1> QED  BY <1>1, <1>2, ConstantsAssumption DEF AdminDoc, UgLeaves, Contents

LEMMA AdminEditFacts ==
  ASSUME NEW c \in Contents, NEW l \in Leaves,
         NEW v \in AdminValues \cup {NoValue}
  PROVE  /\ [Settings(c) EXCEPT ![l] = v] \in Doc
         /\ NoMoreThan([Settings(c) EXCEPT ![l] = v], c)
<1> DEFINE d == [Settings(c) EXCEPT ![l] = v]
<1>1. Settings(c) \in Doc  BY SettingsType
<1>2. d \in Doc  BY <1>1 DEF Doc, Values
<1>3. d # Absent  BY <1>2, ConstantsAssumption
<1>4. Settings(d) = d  BY <1>3 DEF Settings
<1>5. ASSUME NEW k \in Leaves, d[k] \in UgValues
      PROVE  d[k] = Settings(c)[k]
  BY <1>1, <1>5, ConstantsAssumption DEF Doc
<1> HIDE DEF d
<1>6. NoMoreThan(d, c)  BY <1>4, <1>5 DEF NoMoreThan, UgLeaves
<1> QED  BY <1>2, <1>6 DEF d

-----------------------------------------------------------------------------
(* The inductive invariant. *)

\* Commands run one at a time.
OneCommand ==
  \A p, q \in Procs : cmd[p] # Idle /\ cmd[q] # Idle => p = q

Window == {"verify", "record", "save_applied"}
InWindow(t) ==
  \E p \in Procs : cmd[p] # Idle /\ cmd[p].tool = t /\ cmd[p].pc \in Window

\* Between commands, and in a command outside the window, every leaf of ug's
\* in a file is recorded, and the baseline has none.
FileInv(t) ==
  /\ manifest[t] # NoEntry => UgLeaves(manifest[t].original) = {}
  /\ ~InWindow(t) => RecordedIn(file[t], manifest[t])

\* What a reconciliation relies on at its labels.
ReconcileInv(c) ==
  /\ c.pc \in Reconciling => c.desired \in Doc
  /\ c.pc \in Writing => manifest[c.tool] # NoEntry /\ OriginalReadable(c.tool)
  /\ c.pc = "save_entry" =>
       /\ manifest[c.tool] = NoEntry
       /\ c.current # Absent => backup[c.tool] = c.current
       /\ c.view = [manifest EXCEPT ![c.tool] = NewEntry(c.current)]
  /\ c.pc = "save_applied" =>
       c.view = [manifest EXCEPT ![c.tool] =
                  AppliedEntry(manifest[c.tool], c.desired, c.paths)]

\* What a revert relies on.
RevertInv(c) ==
  c.pc \in Reverting => manifest[c.tool] # NoEntry /\ c.view = manifest

\* The leaves of ug's a command of an uninterrupted tool may have in hand.
DesiredOwned(c) ==
  \A l \in UgLeaves(c.desired) :
    l \in c.paths \/ (manifest[c.tool] # NoEntry /\ l \in manifest[c.tool].owned)
CleanInv(c) ==
  /\ c.pc \in Reconciling => DesiredOwned(c)
  /\ c.pc \in {"backup", "save_entry", "check", "replace", "verify"} =>
       RecordedIn(c.current, manifest[c.tool])
  /\ c.pc \in Window => NoMoreThan(file[c.tool], c.desired)
  /\ c.pc \in Reverting => UgLeaves(c.desired) = {}
  /\ c.pc \in {"verify_restore", "unlink_backup", "unlink_applied", "drop_entry"} =>
       UgLeaves(file[c.tool]) = {}

CommandInv(p) ==
  cmd[p] # Idle =>
    /\ ReconcileInv(cmd[p]) /\ RevertInv(cmd[p])
    /\ cmd[p].tool \notin interrupted => CleanInv(cmd[p])

IInv ==
  /\ TypeOK
  /\ OneCommand
  /\ \A t \in Tools \ interrupted : FileInv(t)
  /\ \A p \in Procs : CommandInv(p)

-----------------------------------------------------------------------------
(* Type correctness, for any number of concurrent commands. *)

LEMMA GoToType ==
  ASSUME TypeOK, NEW p \in Procs, cmd[p] # Idle,
         NEW label \in Reconciling \cup Reverting, GoTo(p, label)
  PROVE  cmd' \in [Procs -> Command \cup {Idle}]
<1>1. cmd[p] \in Command  BY DEF TypeOK
<1>2. [cmd[p] EXCEPT !.pc = label] \in Command  BY <1>1 DEF Command
<1> QED  BY <1>2 DEF GoTo, TypeOK

LEMMA ReturnType ==
  ASSUME TypeOK, NEW p \in Procs, Return(p)
  PROVE  cmd' \in [Procs -> Command \cup {Idle}]
BY DEF Return, TypeOK

LEMMA CommandFields ==
  ASSUME TypeOK, NEW p \in Procs, cmd[p] # Idle
  PROVE  /\ cmd[p] \in Command
         /\ cmd[p].tool \in Tools /\ cmd[p].paths \subseteq Leaves
         /\ cmd[p].current \in Contents /\ cmd[p].desired \in Contents
         /\ cmd[p].view \in Manifest /\ cmd[p].pc \in Reconciling \cup Reverting
BY DEF TypeOK, Command

LEMMA EntryType ==
  ASSUME NEW c \in Contents
  PROVE  NewEntry(c) \in Entry
BY DEF NewEntry, Entry, Contents

LEMMA InitType == Init => TypeOK
<1> SUFFICES ASSUME Init PROVE TypeOK  OBVIOUS
<1>1. AdminDoc \cup {Absent} \subseteq Contents  BY AdminDocIsForeign
<1> QED  BY <1>1 DEF Init, TypeOK, Manifest, Contents

LEMMA NextType == TypeOK /\ [Next]_vars => TypeOK'
<1> SUFFICES ASSUME TypeOK, [Next]_vars PROVE TypeOK'  OBVIOUS
<1> USE DEF snapshots, external
<1>1. ASSUME NEW p \in Procs, NEW t \in Tools, StartReconcile(p, t)
      PROVE  TypeOK'
  <2>1. PICK paths \in Overlays, value \in UgValues \cup {NoValue},
             explicit \in BOOLEAN :
          cmd' = [cmd EXCEPT ![p] =
            [pc |-> "read", tool |-> t, paths |-> paths,
             explicit |-> explicit, current |-> Absent,
             desired |-> Compose(file[t], paths, value),
             attempt |-> 0, view |-> manifest]]
    BY <1>1 DEF StartReconcile
  <2>2. file[t] \in Contents /\ paths \in SUBSET Leaves /\ value \in Values
    BY ConstantsAssumption DEF TypeOK, Values
  <2>3. Compose(file[t], paths, value) \in Contents
    BY <2>2, ComposeFacts DEF Contents
  <2>4. Absent \in Contents /\ manifest \in Manifest  BY DEF Contents, TypeOK
  <2>5. [pc |-> "read", tool |-> t, paths |-> paths,
         explicit |-> explicit, current |-> Absent,
         desired |-> Compose(file[t], paths, value),
         attempt |-> 0, view |-> manifest] \in Command
    BY <2>2, <2>3, <2>4 DEF Command
  <2>6. cmd' \in [Procs -> Command \cup {Idle}]  BY <2>1, <2>5 DEF TypeOK
  <2> QED  BY <1>1, <2>6 DEF StartReconcile, TypeOK
<1>2. ASSUME NEW p \in Procs, NEW t \in Tools, StartRevert(p, t)
      PROVE  TypeOK'
  <2> DEFINE target == RevertTarget(file[t], manifest[t])
  <2>1. file[t] \in Contents /\ manifest[t] \in Entry /\ manifest \in Manifest
    BY <1>2 DEF StartRevert, TypeOK, Manifest
  <2>2. target \in Contents  BY <2>1, RevertTargetType
  <2>3. [pc |-> IF target = file[t] THEN "unlink_backup" ELSE "restore",
         tool |-> t, paths |-> {}, explicit |-> TRUE, current |-> file[t],
         desired |-> target, attempt |-> 0, view |-> manifest] \in Command
    BY <2>1, <2>2 DEF Command
  <2>4. cmd' \in [Procs -> Command \cup {Idle}]
    BY <1>2, <2>3 DEF StartRevert, TypeOK
  <2> QED  BY <1>2, <2>4 DEF StartRevert, TypeOK
<1>3. ASSUME NEW p \in Procs, ReadCurrent(p)  PROVE TypeOK'
  <2>1. cmd[p] \in Command /\ file[cmd[p].tool] \in Contents
    BY <1>3, CommandFields DEF ReadCurrent, At, TypeOK
  <2>2. [cmd[p] EXCEPT !.pc = "backup", !.current = file[cmd[p].tool]] \in Command
    BY <2>1 DEF Command
  <2> QED  BY <1>3, <2>2, ReturnType DEF ReadCurrent, TypeOK, ToolOf
<1>4. ASSUME NEW p \in Procs, EnsureBackup(p)  PROVE TypeOK'
  <2> DEFINE t == cmd[p].tool
             new == [manifest EXCEPT ![t] = NewEntry(cmd[p].current)]
  <2>1. cmd[p] # Idle  BY <1>4 DEF EnsureBackup, At
  <2>2. cmd[p] \in Command /\ t \in Tools /\ cmd[p].current \in Contents
    BY <2>1, CommandFields
  <2>3. new \in Manifest  BY <2>2, EntryType DEF TypeOK, Manifest
  <2>4. [cmd[p] EXCEPT !.pc = "save_entry", !.view = new] \in Command
    BY <2>2, <2>3 DEF Command
  <2>5. cmd' \in [Procs -> Command \cup {Idle}]
    <3>1. CASE GoTo(p, "check")  BY <2>1, <3>1, GoToType
    <3>2. CASE Return(p)  BY <3>2, ReturnType
    <3>3. CASE cmd' = [cmd EXCEPT ![p] =
                         [@ EXCEPT !.pc = "save_entry", !.view = new]]
      BY <2>4, <3>3 DEF TypeOK
    <3> QED  BY <1>4, <3>1, <3>2, <3>3 DEF EnsureBackup, ToolOf
  <2>6. backup' \in [Tools -> Contents]
    BY <1>4, <2>2 DEF EnsureBackup, TypeOK, ToolOf
  <2> QED  BY <1>4, <2>5, <2>6 DEF EnsureBackup, TypeOK
<1>5. ASSUME NEW p \in Procs, SaveEntry(p) \/ SaveApplied(p)  PROVE TypeOK'
  <2>1. cmd[p] # Idle /\ manifest' = cmd[p].view
    BY <1>5 DEF SaveEntry, SaveApplied, At
  <2>2. manifest' \in Manifest  BY <2>1, CommandFields
  <2>3. cmd' \in [Procs -> Command \cup {Idle}]
    BY <1>5, <2>1, GoToType, ReturnType DEF SaveEntry, SaveApplied
  <2> QED  BY <1>5, <2>2, <2>3 DEF SaveEntry, SaveApplied, TypeOK
<1>6. ASSUME NEW p \in Procs, CheckUnchanged(p) \/ VerifyRestore(p)
      PROVE  TypeOK'
  <2>1. cmd' \in [Procs -> Command \cup {Idle}]
    BY <1>6, GoToType, ReturnType DEF CheckUnchanged, VerifyRestore, At
  <2> QED  BY <1>6, <2>1 DEF CheckUnchanged, VerifyRestore, TypeOK
<1>7. ASSUME NEW p \in Procs, Replace(p) \/ Restore(p)  PROVE TypeOK'
  <2>1. cmd[p] # Idle  BY <1>7 DEF Replace, Restore, Rename, FlagRestoreFails, At
  <2>2. cmd[p].tool \in Tools /\ cmd[p].desired \in Contents
    BY <2>1, CommandFields
  <2>3. cmd' \in [Procs -> Command \cup {Idle}]
    BY <1>7, <2>1, GoToType, ReturnType DEF Replace, Restore, Rename, FlagRestoreFails
  <2>4. file' \in [Tools -> Contents]
    BY <1>7, <2>2 DEF Replace, Restore, Rename, FlagRestoreFails, TypeOK, ToolOf
  <2>5. interrupted' \subseteq Tools
    BY <1>7, <2>2 DEF Replace, Restore, Rename, FlagRestoreFails, TypeOK, ToolOf
  <2> QED  BY <1>7, <2>3, <2>4, <2>5 DEF Replace, Restore, Rename, FlagRestoreFails, TypeOK
<1>8. ASSUME NEW p \in Procs, Verify(p)  PROVE TypeOK'
  <2>1. cmd[p] # Idle  BY <1>8 DEF Verify, At
  <2>2. cmd[p] \in Command /\ cmd[p].tool \in Tools  BY <2>1, CommandFields
  <2>3. [cmd[p] EXCEPT !.pc = "replace", !.attempt = 1] \in Command
    BY <2>2 DEF Command
  <2>4. cmd' \in [Procs -> Command \cup {Idle}]
    <3>1. CASE GoTo(p, "record")  BY <2>1, <3>1, GoToType
    <3>2. CASE Return(p)  BY <3>2, ReturnType
    <3>3. CASE cmd' = [cmd EXCEPT ![p] =
                         [@ EXCEPT !.pc = "replace", !.attempt = 1]]
      BY <2>3, <3>3 DEF TypeOK
    <3> QED  BY <1>8, <3>1, <3>2, <3>3 DEF Verify
  <2>5. interrupted' \subseteq Tools  BY <1>8, <2>2 DEF Verify, TypeOK, ToolOf
  <2> QED  BY <1>8, <2>4, <2>5 DEF Verify, TypeOK
<1>9. ASSUME NEW p \in Procs, RecordApplied(p)  PROVE TypeOK'
  <2> DEFINE t == cmd[p].tool
             entry == AppliedEntry(manifest[t], cmd[p].desired, cmd[p].paths)
  <2>1. cmd[p] # Idle  BY <1>9 DEF RecordApplied, At
  <2>2. /\ cmd[p] \in Command /\ t \in Tools /\ cmd[p].desired \in Contents
        /\ cmd[p].paths \subseteq Leaves
    BY <2>1, CommandFields
  <2>3. CASE manifest[t] = NoEntry
    BY <1>9, <2>2, <2>3, ReturnType DEF RecordApplied, TypeOK, ToolOf
  <2>4. CASE manifest[t] # NoEntry
    <3>1. manifest[t] \in Entry  BY <2>2, <2>4 DEF TypeOK, Manifest
    <3>2. entry \in Entry  BY <2>2, <3>1 DEF Entry, AppliedEntry
    <3>3. [manifest EXCEPT ![t] = entry] \in Manifest
      BY <3>2 DEF TypeOK, Manifest
    <3>4. [cmd[p] EXCEPT !.pc = "save_applied",
                         !.view = [manifest EXCEPT ![t] = entry]] \in Command
      BY <2>2, <3>3 DEF Command
    <3>5. cmd' = [cmd EXCEPT ![p] = [cmd[p] EXCEPT !.pc = "save_applied",
                         !.view = [manifest EXCEPT ![t] = entry]]]
      BY <1>9, <2>4 DEF RecordApplied, ToolOf
    <3>6. last' \in [Tools -> Contents]
      BY <1>9, <2>2, <2>4 DEF RecordApplied, ToolOf, TypeOK
    <3> HIDE DEF entry
    <3>7. cmd' \in [Procs -> Command \cup {Idle}]
      BY <3>4, <3>5 DEF TypeOK
    <3> QED  BY <1>9, <2>4, <3>6, <3>7 DEF RecordApplied, ToolOf, TypeOK
  <2> QED  BY <2>3, <2>4
<1>10. ASSUME NEW p \in Procs, UnlinkBackup(p) \/ UnlinkApplied(p)
       PROVE  TypeOK'
  <2>1. cmd[p] # Idle  BY <1>10 DEF UnlinkBackup, UnlinkApplied, At
  <2>2. cmd' \in [Procs -> Command \cup {Idle}]
    BY <1>10, <2>1, GoToType DEF UnlinkBackup, UnlinkApplied
  <2>3. Absent \in Contents  BY DEF Contents
  <2>4. backup' \in [Tools -> Contents] /\ last' \in [Tools -> Contents]
    BY <1>10, <2>3 DEF UnlinkBackup, UnlinkApplied, TypeOK
  <2> QED  BY <1>10, <2>2, <2>4 DEF UnlinkBackup, UnlinkApplied, TypeOK
<1>11. ASSUME NEW p \in Procs, DropEntry(p)  PROVE TypeOK'
  <2>1. cmd[p] # Idle  BY <1>11 DEF DropEntry, At
  <2>2. cmd[p].view \in Manifest  BY <2>1, CommandFields
  <2>3. manifest' \in Manifest  BY <1>11, <2>2 DEF DropEntry, Manifest
  <2> QED  BY <1>11, <2>3, ReturnType DEF DropEntry, TypeOK
<1>12. ASSUME NEW p \in Procs, Crash(p)  PROVE TypeOK'
  <2>1. cmd[p].tool \in Tools  BY <1>12, CommandFields DEF Crash
  <2> QED  BY <1>12, <2>1, ReturnType DEF Crash, TypeOK, ToolOf
<1>13. ASSUME NEW t \in Tools, AdminEdit(t)  PROVE TypeOK'
  <2>1. PICK l \in Leaves, v \in AdminValues \cup {NoValue} :
          /\ file' = [file EXCEPT ![t] = [Settings(file[t]) EXCEPT ![l] = v]]
          /\ policy' = [policy EXCEPT
                          ![t] = [Settings(policy[t]) EXCEPT ![l] = v]]
    BY <1>13 DEF AdminEdit
  <2>2. [Settings(file[t]) EXCEPT ![l] = v] \in Contents
    BY AdminEditFacts DEF Contents, TypeOK
  <2>3. [Settings(policy[t]) EXCEPT ![l] = v] \in AdminDoc
    BY DEF TypeOK, AdminDoc, Settings
  <2>4. file' \in [Tools -> Contents]  BY <2>1, <2>2 DEF TypeOK
  <2>5. policy' \in [Tools -> AdminDoc \cup {Absent}]  BY <2>1, <2>3 DEF TypeOK
  <2> QED  BY <1>13, <2>4, <2>5 DEF AdminEdit, TypeOK
<1>14. ASSUME NEW t \in Tools, AdminRemove(t) \/ AdminPush(t)  PROVE TypeOK'
  <2>1. policy[t] \in Contents /\ Absent \in Contents
    BY AdminDocIsForeign DEF TypeOK, Contents
  <2> QED  BY <1>14, <2>1 DEF AdminRemove, AdminPush, TypeOK
<1>15. CASE UNCHANGED vars  BY <1>15 DEF vars, TypeOK
<1> QED
  BY <1>1, <1>2, <1>3, <1>4, <1>5, <1>6, <1>7, <1>8, <1>9, <1>10, <1>11,
     <1>12, <1>13, <1>14, <1>15 DEF Next, Step

\* Every variable keeps its type, whatever commands run concurrently: in
\* particular a reconciliation never composes, and a revert never computes,
\* anything but a document or an absent file.
THEOREM TypeCorrect == Spec => []TypeOK
BY InitType, NextType, PTL DEF Spec

-----------------------------------------------------------------------------
(* How the parts of the invariant carry over a step. *)

LEMMA NotInWindow ==
  ASSUME OneCommand, NEW p \in Procs, cmd[p] # Idle, NEW t,
         cmd[p].pc \notin Window \/ cmd[p].tool # t
  PROVE  ~InWindow(t)
BY DEF OneCommand, InWindow

LEMMA NoneInWindow ==
  ASSUME Serial, NEW p \in Procs, MayStart(p), NEW t
  PROVE  ~InWindow(t)
BY DEF MayStart, InWindow

\* The command that moves is the only one running, before and after.
LEMMA OnlyCommand ==
  ASSUME TypeOK, OneCommand, Serial, NEW p \in Procs, NEW x,
         cmd[p] # Idle \/ MayStart(p), cmd' = [cmd EXCEPT ![p] = x]
  PROVE  /\ cmd'[p] = x
         /\ \A q \in Procs : q # p => cmd'[q] = Idle
BY DEF TypeOK, OneCommand, MayStart

\* A tool outside the window keeps its part of the invariant when its entry
\* stays and its file gains no leaf of ug's.
LEMMA FileKept ==
  ASSUME NEW t \in Tools, FileInv(t), ~InWindow(t),
         manifest'[t] = manifest[t], NoMoreThan(file'[t], file[t])
  PROVE  FileInv(t)'
<1>1. RecordedIn(file'[t], manifest'[t])  BY RecordedMonotone DEF FileInv
<1> QED  BY <1>1 DEF FileInv

LEMMA SameIsNoMore == ASSUME NEW c PROVE NoMoreThan(c, c)
BY DEF NoMoreThan

\* A step of one command: the rest of the invariant follows from what the
\* step establishes for that command and for the files.
LEMMA StepOfCommand ==
  ASSUME TypeOK', NEW p \in Procs,
         \A q \in Procs : q # p => cmd'[q] = Idle,
         CommandInv(p)', \A t \in Tools \ interrupted' : FileInv(t)'
  PROVE  IInv'
<1>1. OneCommand'  BY DEF OneCommand
<1>2. \A q \in Procs : CommandInv(q)'  BY DEF CommandInv
<1> QED  BY <1>1, <1>2 DEF IInv

\* A command that returns outside the window, leaving entries as they are and
\* no file with more leaves of ug's.
LEMMA ReturnKeeps ==
  ASSUME IInv, Serial, TypeOK', NEW p \in Procs, cmd[p] # Idle, Return(p),
         interrupted \subseteq interrupted',
         cmd[p].pc \in Window => cmd[p].tool \in interrupted',
         manifest' = manifest,
         \A t \in Tools \ interrupted' : NoMoreThan(file'[t], file[t])
  PROVE  IInv'
<1>1. cmd' = [cmd EXCEPT ![p] = Idle]  BY DEF Return
<1>2. cmd'[p] = Idle /\ \A q \in Procs : q # p => cmd'[q] = Idle
  BY <1>1, OnlyCommand DEF IInv
<1>3. CommandInv(p)'  BY <1>2 DEF CommandInv
<1>4. ASSUME NEW t \in Tools \ interrupted'  PROVE FileInv(t)'
  <2>1. ~InWindow(t)  BY NotInWindow DEF IInv
  <2>2. FileInv(t)  BY DEF IInv
  <2> QED  BY <2>1, <2>2, FileKept
<1> QED  BY <1>2, <1>3, <1>4, StepOfCommand

\* A command outside the window that moves without touching entries or files.
LEMMA MoveKeeps ==
  ASSUME IInv, Serial, TypeOK', NEW p \in Procs, NEW x,
         \/ MayStart(p)
         \/ cmd[p] # Idle /\ cmd[p].pc \notin Window,
         cmd' = [cmd EXCEPT ![p] = x],
         UNCHANGED <<file, manifest, interrupted>>, CommandInv(p)'
  PROVE  IInv'
<1>1. \A q \in Procs : q # p => cmd'[q] = Idle  BY OnlyCommand DEF IInv
<1>2. ASSUME NEW t \in Tools \ interrupted'  PROVE FileInv(t)'
  <2>1. ~InWindow(t)  BY NotInWindow, NoneInWindow DEF IInv
  <2>2. FileInv(t)  BY DEF IInv
  <2> QED  BY <2>1, <2>2, FileKept, SameIsNoMore
<1> QED  BY <1>1, <1>2, StepOfCommand

-----------------------------------------------------------------------------
(* One lemma per kind of step. *)

LEMMA StartReconcileKeeps ==
  ASSUME IInv, Serial, TypeOK', NEW p \in Procs, NEW t \in Tools,
         StartReconcile(p, t)
  PROVE  IInv'
<1>1. PICK paths \in Overlays, value \in UgValues \cup {NoValue},
           explicit \in BOOLEAN :
        cmd' = [cmd EXCEPT ![p] =
          [pc |-> "read", tool |-> t, paths |-> paths,
           explicit |-> explicit, current |-> Absent,
           desired |-> Compose(file[t], paths, value),
           attempt |-> 0, view |-> manifest]]
  BY DEF StartReconcile
<1> DEFINE desired == Compose(file[t], paths, value)
           c == [pc |-> "read", tool |-> t, paths |-> paths,
                 explicit |-> explicit, current |-> Absent,
                 desired |-> desired, attempt |-> 0, view |-> manifest]
<1>2. file[t] \in Contents /\ paths \in SUBSET Leaves /\ value \in Values
  BY ConstantsAssumption DEF IInv, TypeOK, Values
<1>3. /\ desired \in Doc
      /\ \A l \in UgLeaves(desired) : l \in paths \/ l \in UgLeaves(file[t])
  BY <1>2, ComposeFacts
<1> HIDE DEF desired
<1>4. MayStart(p) /\ UNCHANGED <<file, manifest, interrupted>>
  BY DEF StartReconcile
<1>5. cmd'[p] = c  BY <1>1, <1>4, OnlyCommand DEF IInv, desired
<1>6. /\ cmd'[p] # Idle /\ cmd'[p].pc = "read" /\ cmd'[p].tool = t
      /\ cmd'[p].paths = paths /\ cmd'[p].desired = desired
  <2>1. manifest \in Manifest  BY DEF IInv, TypeOK
  <2>2. c \in Command  BY <1>2, <1>3, <2>1 DEF Command, Contents
  <2> QED  BY <1>5, <2>2, ConstantsAssumption
<1>7. ASSUME t \notin interrupted  PROVE DesiredOwned(cmd[p])'
  <2>1. RecordedIn(file[t], manifest[t])
    BY <1>4, <1>7, NoneInWindow DEF IInv, FileInv
  <2> QED  BY <1>3, <1>4, <1>6, <2>1 DEF DesiredOwned, RecordedIn
<1>8. CommandInv(p)'
  BY <1>3, <1>4, <1>6, <1>7 DEF CommandInv, ReconcileInv, RevertInv, CleanInv, Window
<1> QED  BY <1>1, <1>4, <1>8, MoveKeeps DEF desired

LEMMA StartRevertKeeps ==
  ASSUME IInv, Serial, TypeOK', NEW p \in Procs, NEW t \in Tools,
         StartRevert(p, t)
  PROVE  IInv'
<1> DEFINE target == RevertTarget(file[t], manifest[t])
           c == [pc |-> IF target = file[t] THEN "unlink_backup" ELSE "restore",
                 tool |-> t, paths |-> {}, explicit |-> TRUE,
                 current |-> file[t], desired |-> target, attempt |-> 0,
                 view |-> manifest]
<1>1. /\ MayStart(p) /\ UNCHANGED <<file, manifest, interrupted>>
      /\ manifest[t] # NoEntry /\ cmd' = [cmd EXCEPT ![p] = c]
  BY DEF StartRevert
<1>2. cmd'[p] = c  BY <1>1, OnlyCommand DEF IInv
<1>3. file[t] \in Contents /\ manifest[t] \in Entry
  BY <1>1 DEF IInv, TypeOK, Manifest
<1>4. ASSUME t \notin interrupted  PROVE UgLeaves(target) = {}
  <2>1. RecordedIn(file[t], manifest[t]) /\ UgLeaves(manifest[t].original) = {}
    BY <1>1, <1>4, NoneInWindow DEF IInv, FileInv
  <2> QED  BY <1>3, <2>1, RevertTargetIsForeign
<1> HIDE DEF target
<1>5. CommandInv(p)'
  BY <1>1, <1>2, <1>4 DEF CommandInv, ReconcileInv, RevertInv, CleanInv, Window
<1> QED  BY <1>1, <1>5, MoveKeeps

LEMMA ReadCurrentKeeps ==
  ASSUME IInv, Serial, TypeOK', NEW p \in Procs, ReadCurrent(p)
  PROVE  IInv'
<1> DEFINE t == cmd[p].tool
           c == [cmd[p] EXCEPT !.pc = "backup", !.current = file[t]]
<1>1. /\ cmd[p] # Idle /\ cmd[p].pc = "read"
      /\ UNCHANGED <<file, manifest, interrupted>>
  BY DEF ReadCurrent, At
<1>2. CASE Return(p)
  BY <1>1, <1>2, ReturnKeeps, SameIsNoMore DEF Window
<1>3. CASE cmd' = [cmd EXCEPT ![p] = c]
  <2>1. cmd'[p] = c  BY <1>1, <1>3, OnlyCommand DEF IInv
  <2>2. cmd[p] \in Command /\ t \in Tools  BY <1>1, CommandFields DEF IInv
  <2>3. /\ c.pc = "backup" /\ c.tool = t /\ c.current = file[t]
        /\ c.desired = cmd[p].desired /\ c.paths = cmd[p].paths
        /\ c \in Command /\ c # Idle
    <3>1. file[t] \in Contents  BY <2>2 DEF IInv, TypeOK
    <3> QED  BY <2>2, <3>1, ConstantsAssumption DEF Command
  <2>4. CommandInv(p)  BY DEF IInv
  <2>5. ASSUME t \notin interrupted  PROVE RecordedIn(file[t], manifest[t])
    BY <1>1, <2>2, <2>5, NotInWindow DEF IInv, FileInv, Window
  <2> HIDE DEF c
  <2>6. CommandInv(p)'
    BY <1>1, <2>1, <2>3, <2>4, <2>5
       DEF CommandInv, ReconcileInv, RevertInv, CleanInv, Window, DesiredOwned
  <2> QED  BY <1>1, <1>3, <2>6, MoveKeeps DEF Window
<1> QED  BY <1>2, <1>3 DEF ReadCurrent, ToolOf

\* The command record after a step that moves only its label.
LEMMA GoToFields ==
  ASSUME TypeOK, OneCommand, Serial, NEW p \in Procs, cmd[p] # Idle,
         NEW label \in Reconciling \cup Reverting, GoTo(p, label)
  PROVE  /\ cmd' = [cmd EXCEPT ![p] = [cmd[p] EXCEPT !.pc = label]]
         /\ \A q \in Procs : q # p => cmd'[q] = Idle
         /\ cmd'[p] # Idle /\ cmd'[p].pc = label
         /\ cmd'[p].tool = cmd[p].tool /\ cmd'[p].desired = cmd[p].desired
         /\ cmd'[p].current = cmd[p].current /\ cmd'[p].paths = cmd[p].paths
         /\ cmd'[p].view = cmd[p].view
<1> DEFINE c == [cmd[p] EXCEPT !.pc = label]
<1>1. cmd[p] \in Command  BY CommandFields
<1>2. /\ c \in Command /\ c.pc = label /\ c.tool = cmd[p].tool
      /\ c.desired = cmd[p].desired /\ c.current = cmd[p].current
      /\ c.paths = cmd[p].paths /\ c.view = cmd[p].view
  BY <1>1 DEF Command
<1>3. c # Idle  BY <1>2, ConstantsAssumption
<1>4. cmd' = [cmd EXCEPT ![p] = c]  BY DEF GoTo
<1> HIDE DEF c
<1>5. cmd'[p] = c /\ \A q \in Procs : q # p => cmd'[q] = Idle
  BY <1>4, OnlyCommand
<1> QED  BY <1>2, <1>3, <1>4, <1>5 DEF c

LEMMA EnsureBackupKeeps ==
  ASSUME IInv, Serial, TypeOK', NEW p \in Procs, EnsureBackup(p)
  PROVE  IInv'
<1> DEFINE t == cmd[p].tool
           new == [manifest EXCEPT ![t] = NewEntry(cmd[p].current)]
           c == [cmd[p] EXCEPT !.pc = "save_entry", !.view = new]
<1>1. /\ cmd[p] # Idle /\ cmd[p].pc = "backup"
      /\ UNCHANGED <<file, manifest, interrupted>>
  BY DEF EnsureBackup, At
<1>2. cmd[p] \in Command /\ t \in Tools /\ CommandInv(p)
  BY <1>1, CommandFields DEF IInv
<1>3. CASE manifest[t] # NoEntry /\ OriginalReadable(t) /\ GoTo(p, "check")
           /\ UNCHANGED backup
  <2>1. cmd' = [cmd EXCEPT ![p] = [cmd[p] EXCEPT !.pc = "check"]]
    BY <1>1, <1>3, GoToFields DEF IInv
  <2>2. CommandInv(p)'
    <3>1. /\ cmd'[p] # Idle /\ cmd'[p].pc = "check" /\ cmd'[p].tool = t
          /\ cmd'[p].desired = cmd[p].desired
          /\ cmd'[p].current = cmd[p].current /\ cmd'[p].paths = cmd[p].paths
      BY <1>1, <1>3, GoToFields DEF IInv
    <3> QED
      BY <1>1, <1>2, <1>3, <3>1
         DEF CommandInv, ReconcileInv, RevertInv, CleanInv, Window,
             DesiredOwned, OriginalReadable
  <2> QED  BY <1>1, <2>1, <2>2, MoveKeeps DEF Window
<1>4. CASE Return(p)
  BY <1>1, <1>4, ReturnKeeps, SameIsNoMore DEF Window
<1>5. CASE /\ manifest[t] = NoEntry
           /\ backup' = IF cmd[p].current = Absent THEN backup
                        ELSE [backup EXCEPT ![t] = cmd[p].current]
           /\ cmd' = [cmd EXCEPT ![p] = c]
  <2>1. cmd'[p] = c  BY <1>1, <1>5, OnlyCommand DEF IInv
  <2>2. new \in Manifest
    BY <1>2, EntryType DEF IInv, TypeOK, Manifest, Command
  <2> HIDE DEF new
  <2>3. /\ c.pc = "save_entry" /\ c.tool = t /\ c.current = cmd[p].current
        /\ c.desired = cmd[p].desired /\ c.paths = cmd[p].paths
        /\ c.view = new /\ c # Idle
    <3>1. c \in Command  BY <1>2, <2>2 DEF Command
    <3> QED  BY <1>2, <3>1, ConstantsAssumption DEF Command
  <2>4. cmd[p].current # Absent => backup'[t] = cmd[p].current
    BY <1>2, <1>5 DEF IInv, TypeOK
  <2> HIDE DEF c
  <2>5. ReconcileInv(cmd[p])'
    <3>1. cmd'[p].desired \in Doc
      BY <1>1, <1>2, <2>1, <2>3 DEF CommandInv, ReconcileInv
    <3>2. cmd'[p].view = [manifest' EXCEPT
                            ![cmd'[p].tool] = NewEntry(cmd'[p].current)]
      BY <1>1, <2>1, <2>3 DEF new
    <3> QED  BY <1>1, <1>5, <2>1, <2>3, <2>4, <3>1, <3>2 DEF ReconcileInv
  <2>6. ASSUME cmd'[p].tool \notin interrupted'  PROVE CleanInv(cmd[p])'
    <3>1. CleanInv(cmd[p])
      BY <1>1, <1>2, <2>1, <2>3, <2>6 DEF CommandInv
    <3> QED
      BY <1>1, <2>1, <2>3, <3>1 DEF CleanInv, Window, DesiredOwned
  <2>7. RevertInv(cmd[p])'  BY <2>1, <2>3 DEF RevertInv
  <2>8. CommandInv(p)'  BY <2>5, <2>6, <2>7 DEF CommandInv
  <2> QED  BY <1>1, <1>5, <2>8, MoveKeeps DEF Window
<1> QED  BY <1>3, <1>4, <1>5 DEF EnsureBackup, ToolOf

LEMMA SaveEntryKeeps ==
  ASSUME IInv, Serial, TypeOK', NEW p \in Procs, SaveEntry(p)
  PROVE  IInv'
<1> DEFINE t == cmd[p].tool
           entry == NewEntry(cmd[p].current)
<1>1. /\ cmd[p] # Idle /\ cmd[p].pc = "save_entry" /\ GoTo(p, "check")
      /\ UNCHANGED <<file, backup, interrupted>> /\ manifest' = cmd[p].view
  BY DEF SaveEntry, At, snapshots
<1>2. /\ t \in Tools /\ cmd[p].current \in Contents
      /\ ReconcileInv(cmd[p]) /\ (t \notin interrupted => CleanInv(cmd[p]))
  BY <1>1, CommandFields DEF IInv, CommandInv
<1>3. /\ manifest[t] = NoEntry /\ manifest' = [manifest EXCEPT ![t] = entry]
      /\ cmd[p].current # Absent => backup[t] = cmd[p].current
  BY <1>1, <1>2 DEF ReconcileInv
<1>4. /\ manifest'[t] = entry
      /\ \A s \in Tools : s # t => manifest'[s] = manifest[s]
  BY <1>2, <1>3 DEF IInv, TypeOK, Manifest
<1>5. /\ entry # NoEntry /\ entry.original = cmd[p].current
      /\ entry.owned = {}
  BY <1>2, EntryType, ConstantsAssumption DEF NewEntry
<1>6. /\ cmd'[p] # Idle /\ cmd'[p].pc = "check" /\ cmd'[p].tool = t
      /\ cmd'[p].desired = cmd[p].desired /\ cmd'[p].paths = cmd[p].paths
      /\ cmd'[p].current = cmd[p].current
      /\ \A q \in Procs : q # p => cmd'[q] = Idle
  BY <1>1, GoToFields DEF IInv
<1> HIDE DEF entry
<1>7. ASSUME t \notin interrupted
      PROVE  UgLeaves(cmd[p].current) = {} /\ UgLeaves(file[t]) = {}
  <2>1. RecordedIn(cmd[p].current, NoEntry)
    BY <1>1, <1>2, <1>3, <1>7 DEF CleanInv
  <2>2. RecordedIn(file[t], NoEntry)
    BY <1>1, <1>2, <1>3, <1>7, NotInWindow DEF IInv, FileInv, Window
  <2> QED  BY <2>1, <2>2 DEF RecordedIn
<1>8. ReconcileInv(cmd[p])'
  <2>1. OriginalReadable(t)'
    BY <1>1, <1>3, <1>4, <1>5, <1>6 DEF OriginalReadable
  <2> QED  BY <1>1, <1>2, <1>4, <1>5, <1>6, <2>1 DEF ReconcileInv
<1>9. ASSUME t \notin interrupted  PROVE CleanInv(cmd[p])'
  <2>1. DesiredOwned(cmd[p])'
    BY <1>1, <1>2, <1>3, <1>6, <1>9 DEF CleanInv, DesiredOwned
  <2>2. RecordedIn(cmd'[p].current, manifest'[t])
    BY <1>6, <1>7, <1>9 DEF RecordedIn
  <2> QED  BY <1>6, <2>1, <2>2 DEF CleanInv, Window
<1>10. CommandInv(p)'
  BY <1>1, <1>6, <1>8, <1>9 DEF CommandInv, RevertInv
<1>11. ASSUME NEW s \in Tools \ interrupted'  PROVE FileInv(s)'
  <2>1. CASE s # t
    <3>1. FileInv(s) /\ ~InWindow(s)
      BY <1>1, <2>1, NotInWindow DEF IInv
    <3> QED  BY <1>1, <1>4, <2>1, <3>1, FileKept, SameIsNoMore
  <2>2. CASE s = t
    <3>1. UgLeaves(manifest'[t].original) = {} /\ UgLeaves(file'[t]) = {}
      BY <1>1, <1>4, <1>5, <1>7, <2>2
    <3> QED  BY <2>2, <3>1 DEF FileInv, RecordedIn
  <2> QED  BY <2>1, <2>2
<1> QED  BY <1>6, <1>10, <1>11, StepOfCommand

LEMMA CheckUnchangedKeeps ==
  ASSUME IInv, Serial, TypeOK', NEW p \in Procs, CheckUnchanged(p)
  PROVE  IInv'
<1>1. /\ cmd[p] # Idle /\ cmd[p].pc = "check"
      /\ UNCHANGED <<file, manifest, backup, interrupted>>
  BY DEF CheckUnchanged, At, snapshots
<1>2. CASE Return(p)
  BY <1>1, <1>2, ReturnKeeps, SameIsNoMore DEF Window
<1>3. CASE GoTo(p, "replace")
  <2>1. /\ cmd' = [cmd EXCEPT ![p] = [cmd[p] EXCEPT !.pc = "replace"]]
        /\ cmd'[p] # Idle /\ cmd'[p].pc = "replace"
        /\ cmd'[p].tool = cmd[p].tool
        /\ cmd'[p].desired = cmd[p].desired /\ cmd'[p].paths = cmd[p].paths
        /\ cmd'[p].current = cmd[p].current
    BY <1>1, <1>3, GoToFields DEF IInv
  <2>2. CommandInv(p)  BY DEF IInv
  <2>3. CommandInv(p)'
    BY <1>1, <2>1, <2>2
       DEF CommandInv, ReconcileInv, RevertInv, CleanInv, Window,
           DesiredOwned, OriginalReadable
  <2> QED  BY <1>1, <2>1, <2>3, MoveKeeps DEF Window
<1> QED  BY <1>2, <1>3 DEF CheckUnchanged

LEMMA ReplaceKeeps ==
  ASSUME IInv, Serial, TypeOK', NEW p \in Procs, Replace(p)
  PROVE  IInv'
<1> DEFINE t == cmd[p].tool
<1>1. /\ cmd[p] # Idle /\ cmd[p].pc = "replace"
      /\ UNCHANGED <<manifest, backup>> /\ interrupted \subseteq interrupted'
  BY DEF Replace, Rename, FlagRestoreFails, At, snapshots
<1>2. t \in Tools /\ CommandInv(p)  BY <1>1, CommandFields DEF IInv
<1>3. CASE Return(p) /\ UNCHANGED <<file, interrupted>>
  BY <1>1, <1>3, ReturnKeeps, SameIsNoMore DEF Window
<1>4. CASE Return(p) /\ file' = [file EXCEPT ![t] = cmd[p].desired]
           /\ interrupted' = interrupted \cup {t}
  <2>1. \A s \in Tools \ interrupted' : NoMoreThan(file'[s], file[s])
    BY <1>4, SameIsNoMore DEF IInv, TypeOK
  <2> QED  BY <1>1, <1>4, <2>1, ReturnKeeps DEF Window
<1>5. CASE /\ GoTo(p, "verify") /\ file' = [file EXCEPT ![t] = cmd[p].desired]
           /\ UNCHANGED interrupted
  <2>1. /\ cmd'[p] # Idle /\ cmd'[p].pc = "verify" /\ cmd'[p].tool = t
        /\ cmd'[p].desired = cmd[p].desired /\ cmd'[p].paths = cmd[p].paths
        /\ cmd'[p].current = cmd[p].current
        /\ \A q \in Procs : q # p => cmd'[q] = Idle
    BY <1>1, <1>5, GoToFields DEF IInv
  <2>2. file'[t] = cmd[p].desired  BY <1>2, <1>5 DEF IInv, TypeOK
  <2>3. NoMoreThan(file'[t], cmd'[p].desired)  BY <2>1, <2>2, SameIsNoMore
  <2>4. CommandInv(p)'
    BY <1>1, <1>2, <1>5, <2>1, <2>3
       DEF CommandInv, ReconcileInv, RevertInv, CleanInv, Window,
           DesiredOwned, OriginalReadable
  <2>5. ASSUME NEW s \in Tools \ interrupted'  PROVE FileInv(s)'
    <3>1. FileInv(s)  BY <1>5 DEF IInv
    <3>2. CASE s = t
      <4>1. InWindow(s)'  BY <2>1, <3>2 DEF InWindow, Window
      <4> QED  BY <1>1, <3>1, <4>1 DEF FileInv
    <3>3. CASE s # t
      <4>1. ~InWindow(s) /\ file'[s] = file[s]
        BY <1>1, <1>5, <3>3, NotInWindow DEF IInv, TypeOK
      <4> QED  BY <1>1, <3>1, <4>1, FileKept, SameIsNoMore
    <3> QED  BY <3>2, <3>3
  <2> QED  BY <2>1, <2>4, <2>5, StepOfCommand
<1> QED  BY <1>3, <1>4, <1>5 DEF Replace, Rename, FlagRestoreFails, ToolOf

LEMMA VerifyKeeps ==
  ASSUME IInv, Serial, TypeOK', NEW p \in Procs, Verify(p)
  PROVE  IInv'
<1> DEFINE t == cmd[p].tool
           c == [cmd[p] EXCEPT !.pc = "replace", !.attempt = 1]
<1>1. /\ cmd[p] # Idle /\ cmd[p].pc = "verify"
      /\ UNCHANGED <<file, manifest, backup>>
  BY DEF Verify, At, snapshots
<1>2. cmd[p] \in Command /\ t \in Tools /\ CommandInv(p)
  BY <1>1, CommandFields DEF IInv
<1>3. CASE Return(p) /\ interrupted' = interrupted \cup {t}
  BY <1>1, <1>3, ReturnKeeps, SameIsNoMore
<1>4. ASSUME NEW s \in Tools \ interrupted', s # t, UNCHANGED interrupted
      PROVE  FileInv(s)'
  <2>1. FileInv(s) /\ ~InWindow(s)  BY <1>1, <1>4, NotInWindow DEF IInv
  <2> QED  BY <1>1, <2>1, FileKept, SameIsNoMore
<1>5. CASE GoTo(p, "record") /\ UNCHANGED interrupted
  <2>1. /\ cmd'[p] # Idle /\ cmd'[p].pc = "record" /\ cmd'[p].tool = t
        /\ cmd'[p].desired = cmd[p].desired /\ cmd'[p].paths = cmd[p].paths
        /\ cmd'[p].current = cmd[p].current
        /\ \A q \in Procs : q # p => cmd'[q] = Idle
    BY <1>1, <1>5, GoToFields DEF IInv
  <2>2. CommandInv(p)'
    BY <1>1, <1>2, <1>5, <2>1
       DEF CommandInv, ReconcileInv, RevertInv, CleanInv, Window,
           DesiredOwned, OriginalReadable
  <2>3. ASSUME NEW s \in Tools \ interrupted', s = t  PROVE FileInv(s)'
    <3>1. InWindow(s)'  BY <2>1, <2>3 DEF InWindow, Window
    <3> QED  BY <1>1, <1>5, <2>3, <3>1 DEF IInv, FileInv
  <2> QED  BY <1>4, <1>5, <2>1, <2>2, <2>3, StepOfCommand
<1>6. CASE /\ file[t] = cmd[p].current /\ cmd' = [cmd EXCEPT ![p] = c]
           /\ UNCHANGED interrupted
  <2>1. cmd'[p] = c /\ \A q \in Procs : q # p => cmd'[q] = Idle
    BY <1>1, <1>6, OnlyCommand DEF IInv
  <2>2. /\ cmd'[p] # Idle /\ cmd'[p].pc = "replace" /\ cmd'[p].tool = t
        /\ cmd'[p].desired = cmd[p].desired /\ cmd'[p].paths = cmd[p].paths
        /\ cmd'[p].current = cmd[p].current
    <3>1. c \in Command  BY <1>2 DEF Command
    <3> QED  BY <1>2, <2>1, <3>1, ConstantsAssumption DEF Command
  <2>3. CommandInv(p)'
    BY <1>1, <1>2, <1>6, <2>2
       DEF CommandInv, ReconcileInv, RevertInv, CleanInv, Window,
           DesiredOwned, OriginalReadable
  <2>4. ASSUME NEW s \in Tools \ interrupted', s = t  PROVE FileInv(s)'
    <3>1. FileInv(s) /\ CleanInv(cmd[p])
      BY <1>1, <1>2, <1>6, <2>4 DEF IInv, CommandInv
    <3>2. RecordedIn(file[s], manifest[s])
      BY <1>1, <1>6, <2>4, <3>1 DEF CleanInv
    <3> QED  BY <1>1, <3>1, <3>2 DEF FileInv
  <2> QED  BY <1>4, <1>6, <2>1, <2>3, <2>4, StepOfCommand
<1> QED  BY <1>3, <1>5, <1>6 DEF Verify, ToolOf

LEMMA RecordAppliedKeeps ==
  ASSUME IInv, Serial, TypeOK', NEW p \in Procs, RecordApplied(p)
  PROVE  IInv'
<1> DEFINE t == cmd[p].tool
           entry == AppliedEntry(manifest[t], cmd[p].desired, cmd[p].paths)
           c == [cmd[p] EXCEPT !.pc = "save_applied",
                               !.view = [manifest EXCEPT ![t] = entry]]
<1>1. /\ cmd[p] # Idle /\ cmd[p].pc = "record"
      /\ UNCHANGED <<file, manifest, backup>>
  BY DEF RecordApplied, At
<1>2. cmd[p] \in Command /\ t \in Tools /\ CommandInv(p)
  BY <1>1, CommandFields DEF IInv
<1>3. CASE Return(p) /\ interrupted' = interrupted \cup {t}
  BY <1>1, <1>3, ReturnKeeps, SameIsNoMore
<1>4. CASE cmd' = [cmd EXCEPT ![p] = c] /\ UNCHANGED interrupted
  <2>1. cmd'[p] = c /\ \A q \in Procs : q # p => cmd'[q] = Idle
    BY <1>1, <1>4, OnlyCommand DEF IInv
  <2>2. /\ c.pc = "save_applied" /\ c.tool = t
        /\ c.desired = cmd[p].desired /\ c.paths = cmd[p].paths
        /\ c.current = cmd[p].current
        /\ c.view = [manifest EXCEPT ![t] = entry]
    BY <1>2 DEF Command
  <2>3. c # Idle
    <3>1. manifest[t] \in Entry
      BY <1>1, <1>2 DEF CommandInv, ReconcileInv, IInv, TypeOK, Manifest
    <3>2. entry \in Entry  BY <1>2, <3>1 DEF Entry, AppliedEntry, Command
    <3>3. [manifest EXCEPT ![t] = entry] \in Manifest
      BY <3>2 DEF IInv, TypeOK, Manifest
    <3> HIDE DEF entry
    <3>4. c \in Command  BY <1>2, <3>3 DEF Command
    <3> QED  BY <3>4, ConstantsAssumption
  <2> HIDE DEF c
  <2>4. ReconcileInv(cmd[p])'
    BY <1>1, <1>2, <2>1, <2>2
       DEF CommandInv, ReconcileInv, OriginalReadable
  <2>5. ASSUME t \notin interrupted  PROVE CleanInv(cmd[p])'
    BY <1>1, <1>2, <2>1, <2>2, <2>5
       DEF CommandInv, CleanInv, Window, DesiredOwned
  <2>6. CommandInv(p)'
    BY <1>4, <2>1, <2>2, <2>4, <2>5 DEF CommandInv, RevertInv
  <2>7. ASSUME NEW s \in Tools \ interrupted'  PROVE FileInv(s)'
    <3>1. FileInv(s)  BY <1>4 DEF IInv
    <3>2. CASE s = t
      <4>1. InWindow(s)'  BY <2>1, <2>2, <2>3, <3>2 DEF InWindow, Window
      <4> QED  BY <1>1, <3>1, <4>1 DEF FileInv
    <3>3. CASE s # t
      BY <1>1, <3>1, <3>3, NotInWindow, FileKept, SameIsNoMore DEF IInv
    <3> QED  BY <3>2, <3>3
  <2> QED  BY <2>1, <2>6, <2>7, StepOfCommand
<1> QED  BY <1>3, <1>4 DEF RecordApplied, ToolOf

LEMMA SaveAppliedKeeps ==
  ASSUME IInv, Serial, TypeOK', NEW p \in Procs, SaveApplied(p)
  PROVE  IInv'
<1> DEFINE t == cmd[p].tool
           desired == cmd[p].desired
           entry == AppliedEntry(manifest[t], desired, cmd[p].paths)
<1>1. /\ cmd[p] # Idle /\ cmd[p].pc = "save_applied" /\ Return(p)
      /\ UNCHANGED <<file, backup, interrupted>> /\ manifest' = cmd[p].view
  BY DEF SaveApplied, At, snapshots
<1>2. cmd[p] \in Command /\ t \in Tools /\ CommandInv(p)
  BY <1>1, CommandFields DEF IInv
<1>3. /\ manifest[t] # NoEntry /\ manifest' = [manifest EXCEPT ![t] = entry]
      /\ desired \in Doc
  BY <1>1, <1>2 DEF CommandInv, ReconcileInv
<1>4. /\ manifest'[t] = entry
      /\ \A s \in Tools : s # t => manifest'[s] = manifest[s]
  BY <1>2, <1>3 DEF IInv, TypeOK, Manifest
<1>5. /\ entry # NoEntry /\ entry.original = manifest[t].original
      /\ entry.applied = desired
      /\ entry.owned = manifest[t].owned \cup cmd[p].paths
  <2>1. manifest[t] \in Entry  BY <1>2, <1>3 DEF IInv, TypeOK, Manifest
  <2>2. entry \in Entry  BY <1>2, <2>1 DEF Entry, AppliedEntry, Command
  <2> QED  BY <2>1, <2>2, ConstantsAssumption DEF Entry, AppliedEntry
<1> HIDE DEF entry
<1>6. cmd'[p] = Idle /\ \A q \in Procs : q # p => cmd'[q] = Idle
  BY <1>1, OnlyCommand DEF IInv, Return
<1>7. ASSUME NEW s \in Tools \ interrupted'  PROVE FileInv(s)'
  <2>1. FileInv(s)  BY <1>1 DEF IInv
  <2>2. CASE s = t
    <3>1. NoMoreThan(file[t], desired) /\ DesiredOwned(cmd[p])
      BY <1>1, <1>2, <2>2 DEF CommandInv, CleanInv, Window
    <3>2. Settings(desired) = desired /\ desired # Absent
      BY <1>3, ConstantsAssumption DEF Settings
    <3>3. RecordedIn(file[t], entry)
      BY <1>5, <3>1, <3>2 DEF RecordedIn, NoMoreThan, DesiredOwned
    <3> QED  BY <1>1, <1>3, <1>4, <1>5, <2>1, <2>2, <3>3 DEF FileInv
  <2>3. CASE s # t
    BY <1>1, <1>4, <2>1, <2>3, NotInWindow, FileKept, SameIsNoMore DEF IInv
  <2> QED  BY <2>2, <2>3
<1>8. CommandInv(p)'  BY <1>6 DEF CommandInv
<1> QED  BY <1>6, <1>7, <1>8, StepOfCommand

LEMMA RestoreKeeps ==
  ASSUME IInv, Serial, TypeOK', NEW p \in Procs, Restore(p)
  PROVE  IInv'
<1> DEFINE t == cmd[p].tool
<1>1. /\ cmd[p] # Idle /\ cmd[p].pc = "restore"
      /\ UNCHANGED <<manifest, backup, interrupted>>
  BY DEF Restore, Rename, FlagRestoreFails, At, snapshots
<1>2. t \in Tools /\ CommandInv(p)  BY <1>1, CommandFields DEF IInv
<1>3. ASSUME UNCHANGED file \/ file' = [file EXCEPT ![t] = cmd[p].desired],
             NEW s \in Tools \ interrupted'
      PROVE  NoMoreThan(file'[s], file[s])
  <2>1. CASE file'[s] = file[s]  BY <2>1, SameIsNoMore
  <2>2. CASE s = t /\ file'[s] = cmd[p].desired
    BY <1>1, <1>2, <1>3, <2>2 DEF CommandInv, CleanInv, NoMoreThan
  <2> QED  BY <1>2, <1>3, <2>1, <2>2 DEF IInv, TypeOK
<1>4. CASE Return(p) /\ (UNCHANGED file \/ file' = [file EXCEPT ![t] = cmd[p].desired])
  BY <1>1, <1>3, <1>4, ReturnKeeps DEF Window
<1>5. CASE GoTo(p, "verify_restore") /\ file' = [file EXCEPT ![t] = cmd[p].desired]
  <2>1. /\ cmd'[p] # Idle /\ cmd'[p].pc = "verify_restore" /\ cmd'[p].tool = t
        /\ cmd'[p].desired = cmd[p].desired /\ cmd'[p].view = cmd[p].view
        /\ \A q \in Procs : q # p => cmd'[q] = Idle
    BY <1>1, <1>5, GoToFields DEF IInv
  <2>2. file'[t] = cmd[p].desired  BY <1>2, <1>5 DEF IInv, TypeOK
  <2>3. CommandInv(p)'
    BY <1>1, <1>2, <2>1, <2>2
       DEF CommandInv, ReconcileInv, RevertInv, CleanInv, Window
  <2>4. ASSUME NEW s \in Tools \ interrupted'  PROVE FileInv(s)'
    <3>1. FileInv(s) /\ ~InWindow(s)
      BY <1>1, NotInWindow DEF IInv, Window
    <3> QED  BY <1>1, <1>3, <1>5, <3>1, FileKept
  <2> QED  BY <2>1, <2>3, <2>4, StepOfCommand
<1> QED  BY <1>4, <1>5 DEF Restore, Rename, FlagRestoreFails, ToolOf

LEMMA VerifyRestoreKeeps ==
  ASSUME IInv, Serial, TypeOK', NEW p \in Procs, VerifyRestore(p)
  PROVE  IInv'
<1>1. /\ cmd[p] # Idle /\ cmd[p].pc = "verify_restore"
      /\ UNCHANGED <<file, manifest, backup, interrupted>>
  BY DEF VerifyRestore, At, snapshots
<1>2. CASE Return(p)
  BY <1>1, <1>2, ReturnKeeps, SameIsNoMore DEF Window
<1>3. CASE GoTo(p, "unlink_backup")
  <2>1. /\ cmd' = [cmd EXCEPT ![p] = [cmd[p] EXCEPT !.pc = "unlink_backup"]]
        /\ cmd'[p] # Idle /\ cmd'[p].pc = "unlink_backup"
        /\ cmd'[p].tool = cmd[p].tool /\ cmd'[p].view = cmd[p].view
        /\ cmd'[p].desired = cmd[p].desired
    BY <1>1, <1>3, GoToFields DEF IInv
  <2>2. CommandInv(p)  BY DEF IInv
  <2>3. CommandInv(p)'
    BY <1>1, <2>1, <2>2
       DEF CommandInv, ReconcileInv, RevertInv, CleanInv, Window
  <2> QED  BY <1>1, <2>1, <2>3, MoveKeeps DEF Window
<1> QED  BY <1>2, <1>3 DEF VerifyRestore

\* Whether the file was restored or needed no change, ug's leaves are out of
\* it before the first snapshot goes.
LEMMA UnlinkKeeps ==
  ASSUME IInv, Serial, TypeOK', NEW p \in Procs,
         UnlinkBackup(p) \/ UnlinkApplied(p)
  PROVE  IInv'
<1> DEFINE label == IF UnlinkBackup(p) THEN "unlink_applied" ELSE "drop_entry"
<1>1. /\ cmd[p] # Idle /\ cmd[p].pc \in {"unlink_backup", "unlink_applied"}
      /\ UNCHANGED <<file, manifest, interrupted>> /\ GoTo(p, label)
  BY DEF UnlinkBackup, UnlinkApplied, At
<1>2. label \in {"unlink_applied", "drop_entry"}  OBVIOUS
<1> HIDE DEF label
<1>3. /\ cmd' = [cmd EXCEPT ![p] = [cmd[p] EXCEPT !.pc = label]]
      /\ cmd'[p] # Idle /\ cmd'[p].pc = label
      /\ cmd'[p].tool = cmd[p].tool /\ cmd'[p].view = cmd[p].view
      /\ cmd'[p].desired = cmd[p].desired
  BY <1>1, <1>2, GoToFields DEF IInv
<1>4. CommandInv(p)  BY DEF IInv
<1>5. RevertInv(cmd[p])' /\ ReconcileInv(cmd[p])'
  BY <1>1, <1>2, <1>3, <1>4 DEF CommandInv, ReconcileInv, RevertInv
<1>6. ASSUME cmd'[p].tool \notin interrupted'  PROVE CleanInv(cmd[p])'
  BY <1>1, <1>2, <1>3, <1>4, <1>6 DEF CommandInv, CleanInv, Window
<1>7. CommandInv(p)'  BY <1>5, <1>6 DEF CommandInv
<1> QED  BY <1>1, <1>3, <1>7, MoveKeeps DEF Window

LEMMA DropEntryKeeps ==
  ASSUME IInv, Serial, TypeOK', NEW p \in Procs, DropEntry(p)
  PROVE  IInv'
<1> DEFINE t == cmd[p].tool
<1>1. /\ cmd[p] # Idle /\ cmd[p].pc = "drop_entry" /\ Return(p)
      /\ UNCHANGED <<file, interrupted>>
      /\ manifest' = [cmd[p].view EXCEPT ![t] = NoEntry]
  BY DEF DropEntry, At, ToolOf
<1>2. t \in Tools /\ CommandInv(p)  BY <1>1, CommandFields DEF IInv
<1>3. cmd[p].view = manifest
  BY <1>1, <1>2 DEF CommandInv, RevertInv
<1>4. /\ manifest'[t] = NoEntry
      /\ \A s \in Tools : s # t => manifest'[s] = manifest[s]
  BY <1>1, <1>2, <1>3 DEF IInv, TypeOK, Manifest
<1>5. cmd'[p] = Idle /\ \A q \in Procs : q # p => cmd'[q] = Idle
  BY <1>1, OnlyCommand DEF IInv, Return
<1>6. ASSUME NEW s \in Tools \ interrupted'  PROVE FileInv(s)'
  <2>1. CASE s = t
    <3>1. UgLeaves(file[t]) = {}
      BY <1>1, <1>2, <2>1 DEF CommandInv, CleanInv
    <3> QED  BY <1>1, <1>4, <2>1, <3>1 DEF FileInv, RecordedIn
  <2>2. CASE s # t
    <3>1. FileInv(s) /\ ~InWindow(s)
      BY <1>1, <2>2, NotInWindow DEF IInv
    <3> QED  BY <1>1, <1>4, <2>2, <3>1, FileKept, SameIsNoMore
  <2> QED  BY <2>1, <2>2
<1>7. CommandInv(p)'  BY <1>5 DEF CommandInv
<1> QED  BY <1>5, <1>6, <1>7, StepOfCommand

LEMMA CrashKeeps ==
  ASSUME IInv, Serial, TypeOK', NEW p \in Procs, Crash(p)
  PROVE  IInv'
<1>1. /\ cmd[p] # Idle /\ Return(p) /\ UNCHANGED <<file, manifest>>
      /\ interrupted \subseteq interrupted'
      /\ cmd[p].pc \in Window => cmd[p].tool \in interrupted'
  BY DEF Crash, Window, ToolOf
<1> QED  BY <1>1, ReturnKeeps, SameIsNoMore

\* An administrator adds no value of ug's to any file.
LEMMA AdminKeeps ==
  ASSUME IInv, TypeOK', NEW t \in Tools,
         AdminEdit(t) \/ AdminRemove(t) \/ AdminPush(t)
  PROVE  IInv'
<1>1. UNCHANGED <<manifest, backup, cmd, interrupted>>
  BY DEF AdminEdit, AdminRemove, AdminPush, snapshots
<1>2. PICK new \in Contents :
        file' = [file EXCEPT ![t] = new] /\ NoMoreThan(new, file[t])
  <2>1. CASE AdminEdit(t)
    <3>1. PICK l \in Leaves, v \in AdminValues \cup {NoValue} :
            file' = [file EXCEPT ![t] = [Settings(file[t]) EXCEPT ![l] = v]]
      BY <2>1 DEF AdminEdit
    <3> QED  BY <3>1, AdminEditFacts DEF IInv, TypeOK, Contents
  <2>2. CASE AdminRemove(t) \/ AdminPush(t)
    <3>1. PICK new \in AdminDoc \cup {Absent} : file' = [file EXCEPT ![t] = new]
      BY <2>2 DEF AdminRemove, AdminPush, IInv, TypeOK
    <3> QED  BY <3>1, AdminDocIsForeign DEF NoMoreThan
  <2> QED  BY <2>1, <2>2
<1>3. ASSUME NEW s \in Tools  PROVE NoMoreThan(file'[s], file[s])
  <2>1. CASE s = t  BY <1>2, <2>1 DEF IInv, TypeOK
  <2>2. CASE s # t
    <3>1. file'[s] = file[s]  BY <1>2, <2>2 DEF IInv, TypeOK
    <3> QED  BY <3>1, SameIsNoMore
  <2> QED  BY <2>1, <2>2
<1>4. ASSUME NEW s \in Tools \ interrupted'  PROVE FileInv(s)'
  <2>1. FileInv(s)  BY <1>1 DEF IInv
  <2>2. CASE InWindow(s)
    BY <1>1, <2>1, <2>2 DEF FileInv, InWindow
  <2>3. CASE ~InWindow(s)
    BY <1>1, <1>3, <2>1, <2>3, FileKept
  <2> QED  BY <2>2, <2>3
<1>5. ASSUME NEW p \in Procs  PROVE CommandInv(p)'
  <2>1. SUFFICES ASSUME cmd[p] # Idle
                 PROVE  /\ ReconcileInv(cmd[p])' /\ RevertInv(cmd[p])'
                        /\ cmd[p].tool \notin interrupted => CleanInv(cmd[p])'
    BY <1>1 DEF CommandInv
  <2>2. CommandInv(p) /\ cmd[p].tool \in Tools
    BY <2>1, CommandFields DEF IInv
  <2>3. ReconcileInv(cmd[p])' /\ RevertInv(cmd[p])'
    BY <1>1, <2>1, <2>2
       DEF CommandInv, ReconcileInv, RevertInv, OriginalReadable
  <2>4. ASSUME cmd[p].tool \notin interrupted  PROVE CleanInv(cmd[p])'
    <3>1. CleanInv(cmd[p])  BY <2>1, <2>2, <2>4 DEF CommandInv
    <3>2. NoMoreThan(file'[cmd[p].tool], file[cmd[p].tool])  BY <1>3, <2>2
    <3>3. NoMoreThan(file[cmd[p].tool], cmd[p].desired) =>
            NoMoreThan(file'[cmd[p].tool], cmd[p].desired)
      BY <3>2 DEF NoMoreThan
    <3>4. UgLeaves(file[cmd[p].tool]) = {} => UgLeaves(file'[cmd[p].tool]) = {}
      BY <3>2 DEF NoMoreThan
    <3> QED  BY <1>1, <3>1, <3>3, <3>4 DEF CleanInv, DesiredOwned
  <2> QED  BY <2>3, <2>4
<1>6. OneCommand'  BY <1>1 DEF IInv, OneCommand
<1> QED  BY <1>4, <1>5, <1>6 DEF IInv

LEMMA StutterKeeps == ASSUME IInv, UNCHANGED vars PROVE IInv'
<1>1. UNCHANGED <<file, backup, last, manifest, cmd, policy, interrupted,
                  edits, commands>>
  BY DEF vars
<1>2. TypeOK' /\ OneCommand'  BY <1>1 DEF IInv, TypeOK, OneCommand
<1>3. \A t \in Tools \ interrupted' : FileInv(t)'
  BY <1>1 DEF IInv, FileInv, InWindow
<1>4. ASSUME NEW p \in Procs  PROVE CommandInv(p)'
  BY <1>1 DEF IInv, CommandInv, ReconcileInv, RevertInv, CleanInv,
              DesiredOwned, OriginalReadable
<1> QED  BY <1>2, <1>3, <1>4 DEF IInv

LEMMA InitIInv == Init => IInv
<1> SUFFICES ASSUME Init PROVE IInv  OBVIOUS
<1>1. TypeOK  BY InitType
<1>2. OneCommand /\ \A p \in Procs : CommandInv(p)
  BY DEF Init, OneCommand, CommandInv
<1>3. ASSUME NEW t \in Tools  PROVE FileInv(t)
  <2>1. manifest[t] = NoEntry /\ file[t] \in AdminDoc \cup {Absent}
    BY DEF Init
  <2> QED  BY <2>1, AdminDocIsForeign DEF FileInv, RecordedIn
<1> QED  BY <1>1, <1>2, <1>3 DEF IInv

LEMMA NextIInv == Serial /\ IInv /\ [Next]_vars => IInv'
<1> SUFFICES ASSUME Serial, IInv, [Next]_vars PROVE IInv'  OBVIOUS
<1>1. TypeOK'  BY NextType DEF IInv
<1>2. ASSUME NEW p \in Procs, Step(p)  PROVE IInv'
  BY <1>1, <1>2, ReadCurrentKeeps, EnsureBackupKeeps, SaveEntryKeeps,
     CheckUnchangedKeeps, ReplaceKeeps, VerifyKeeps, RecordAppliedKeeps,
     SaveAppliedKeeps, RestoreKeeps, VerifyRestoreKeeps, UnlinkKeeps,
     DropEntryKeeps DEF Step
<1>3. ASSUME NEW p \in Procs, Crash(p)  PROVE IInv'
  BY <1>1, <1>3, CrashKeeps
<1>4. ASSUME NEW p \in Procs, NEW t \in Tools,
             StartReconcile(p, t) \/ StartRevert(p, t)
      PROVE  IInv'
  BY <1>1, <1>4, StartReconcileKeeps, StartRevertKeeps
<1>5. ASSUME NEW t \in Tools, AdminEdit(t) \/ AdminRemove(t) \/ AdminPush(t)
      PROVE  IInv'
  BY <1>1, <1>5, AdminKeeps
<1>6. CASE UNCHANGED vars  BY <1>6, StutterKeeps
<1> QED  BY <1>2, <1>3, <1>4, <1>5, <1>6 DEF Next

LEMMA Invariance == Serial => (Spec => []IInv)
<1> SUFFICES ASSUME Serial PROVE Spec => []IInv  OBVIOUS
<1>1. Init => IInv  BY InitIInv
<1>2. IInv /\ [Next]_vars => IInv'  BY NextIInv
<1> QED  BY <1>1, <1>2, PTL DEF Spec

-----------------------------------------------------------------------------
(* What follows when commands run one at a time. *)

\* Whenever a reconciliation can write a managed file, its baseline is
\* recorded and readable, whatever crashes, faults and edits came before.
THEOREM BaselineBeforeWrite == Serial => (Spec => []WriteHasBaseline)
<1>1. IInv => WriteHasBaseline
  BY DEF IInv, CommandInv, ReconcileInv, WriteHasBaseline, ToolOf
<1> QED  BY <1>1, Invariance, PTL

\* The baseline of a tool whose writes were all recorded is never ug's work.
THEOREM BaselineForeign == Serial => (Spec => []BaselineIsForeign)
<1>1. IInv => BaselineIsForeign
  BY DEF IInv, FileInv, BaselineIsForeign
<1> QED  BY <1>1, Invariance, PTL

\* A tool without an entry, whose writes were all recorded, has no setting of
\* ug's in its file: revert undoes every sequence of reconciliations.
THEOREM RevertLeavesNothing == Serial => (Spec => []NothingLeftBehind)
<1>1. ASSUME IInv, NEW t \in Tools \ interrupted, manifest[t] = NoEntry
      PROVE  UgLeaves(file[t]) = {}
  <2>1. ~InWindow(t)
    BY <1>1 DEF InWindow, Window, IInv, CommandInv, ReconcileInv
  <2> QED  BY <1>1, <2>1 DEF IInv, FileInv, RecordedIn
<1>2. IInv => NothingLeftBehind  BY <1>1 DEF NothingLeftBehind
<1> QED  BY <1>2, Invariance, PTL

\* A baseline, once recorded, stays until the end of its own tool's revert.
THEOREM BaselineStays == Serial => (Spec => BaselineKept)
<1> DEFINE Kept == \A t \in Tools : manifest[t] # NoEntry =>
             IF manifest'[t] = NoEntry
             THEN \E p \in Procs : At(p, "drop_entry") /\ ToolOf(p) = t
             ELSE manifest'[t].original = manifest[t].original
<1>1. ASSUME IInv, [Next]_vars  PROVE Kept
  <2>1. CASE manifest' = manifest  BY <2>1
  <2>2. ASSUME NEW p \in Procs, SaveEntry(p)  PROVE Kept
    <3>1. /\ cmd[p] # Idle /\ cmd[p].pc = "save_entry"
          /\ manifest' = cmd[p].view
      BY <2>2 DEF SaveEntry, At
    <3>2. /\ manifest[cmd[p].tool] = NoEntry
          /\ manifest' = [manifest EXCEPT
                            ![cmd[p].tool] = NewEntry(cmd[p].current)]
      BY <1>1, <3>1 DEF IInv, CommandInv, ReconcileInv
    <3> QED  BY <1>1, <3>2 DEF IInv, TypeOK, Manifest
  <2>3. ASSUME NEW p \in Procs, SaveApplied(p)  PROVE Kept
    <3> DEFINE t == cmd[p].tool
               entry == AppliedEntry(manifest[t], cmd[p].desired, cmd[p].paths)
    <3>1. /\ cmd[p] # Idle /\ cmd[p].pc = "save_applied"
          /\ manifest' = cmd[p].view
      BY <2>3 DEF SaveApplied, At
    <3>2. /\ manifest[t] # NoEntry
          /\ manifest' = [manifest EXCEPT ![t] = entry]
      BY <1>1, <3>1 DEF IInv, CommandInv, ReconcileInv
    <3>3. cmd[p] \in Command /\ t \in Tools
      BY <1>1, <3>1, CommandFields DEF IInv
    <3>4. manifest[t] \in Entry
      BY <1>1, <3>2, <3>3 DEF IInv, TypeOK, Manifest
    <3>5. entry \in Entry /\ entry.original = manifest[t].original
      BY <3>3, <3>4 DEF Entry, AppliedEntry, Command
    <3>6. entry # NoEntry  BY <3>5, ConstantsAssumption
    <3> HIDE DEF entry
    <3> QED  BY <1>1, <3>2, <3>3, <3>5, <3>6 DEF IInv, TypeOK, Manifest
  <2>4. ASSUME NEW p \in Procs, DropEntry(p)  PROVE Kept
    <3>1. /\ At(p, "drop_entry") /\ cmd[p] # Idle /\ cmd[p].pc = "drop_entry"
          /\ manifest' = [cmd[p].view EXCEPT ![cmd[p].tool] = NoEntry]
      BY <2>4 DEF DropEntry, At, ToolOf
    <3>2. cmd[p].view = manifest
      BY <1>1, <3>1 DEF IInv, CommandInv, RevertInv
    <3>3. ASSUME NEW s \in Tools, s # cmd[p].tool
          PROVE  manifest'[s] = manifest[s]
      BY <1>1, <3>1, <3>2, <3>3 DEF IInv, TypeOK, Manifest
    <3>4. \E q \in Procs : At(q, "drop_entry") /\ ToolOf(q) = cmd[p].tool
      BY <3>1 DEF ToolOf
    <3>5. manifest'[cmd[p].tool] = NoEntry
      BY <1>1, <3>1, <3>2, CommandFields DEF IInv, TypeOK, Manifest
    <3>6. ASSUME NEW t \in Tools, manifest[t] # NoEntry
          PROVE  IF manifest'[t] = NoEntry
                 THEN \E q \in Procs : At(q, "drop_entry") /\ ToolOf(q) = t
                 ELSE manifest'[t].original = manifest[t].original
      <4>1. CASE t = cmd[p].tool  BY <3>4, <3>5, <4>1
      <4>2. CASE t # cmd[p].tool  BY <3>3, <3>6, <4>2
      <4> QED  BY <4>1, <4>2
    <3> QED  BY <3>6
  <2>5. manifest' = manifest \/ \E p \in Procs :
           SaveEntry(p) \/ SaveApplied(p) \/ DropEntry(p)
    BY <1>1
       DEF Next, Step, vars, ReadCurrent, EnsureBackup, CheckUnchanged,
           Replace, Verify, RecordApplied, Restore, VerifyRestore,
           UnlinkBackup, UnlinkApplied, Crash, StartReconcile, StartRevert,
           AdminEdit, AdminRemove, AdminPush, snapshots
  <2> QED  BY <2>1, <2>2, <2>3, <2>4, <2>5
<1>2. IInv /\ [Next]_vars => [Kept]_vars  BY <1>1
<1> HIDE DEF Kept
<1>3. Serial => (Spec => [][Kept]_vars)  BY <1>2, Invariance, PTL DEF Spec
<1> QED  BY <1>3 DEF BaselineKept, Kept

-----------------------------------------------------------------------------
(* What a revert writes. *)

\* A revert about to write has computed its document from the entry there is.
TargetInv ==
  \A p \in Procs : cmd[p] # Idle /\ cmd[p].pc = "restore" =>
    cmd[p].desired = RevertTarget(cmd[p].current, manifest[cmd[p].tool])

\* A leaf that does not hold what ug last applied is left alone.
LEMMA RevertTargetKeeps ==
  ASSUME NEW c \in Contents, NEW e \in Entry, e.applied # Absent,
         NEW l \in Leaves, Settings(c)[l] # e.applied[l]
  PROVE  Settings(RevertTarget(c, e))[l] = Settings(c)[l]
<1>1. e.applied \in Doc  BY DEF Entry, Contents
<1>2. c # e.applied  BY DEF Settings
<1>3. CASE c = Absent  BY <1>2, <1>3 DEF RevertTarget
<1>4. CASE c # Absent
  <2> DEFINE r == ThreeWayRevert(c, Settings(e.original), e.applied, e.owned)
  <2>1. RevertTarget(c, e) = r  BY <1>2, <1>4 DEF RevertTarget
  <2>2. Settings(e.original) \in Doc /\ c \in Doc
    BY <1>4, SettingsType DEF Entry, Contents
  <2>3. r \in Doc  BY <1>1, <2>2 DEF ThreeWayRevert, Doc
  <2>4. Settings(r) = r /\ Settings(c) = c
    BY <1>4, <2>3, ConstantsAssumption DEF Settings
  <2>5. r[l] = c[l]  BY <2>4 DEF ThreeWayRevert
  <2> QED  BY <2>1, <2>4, <2>5
<1> QED  BY <1>3, <1>4

\* A step of a command leads to no label where a revert is about to write, and
\* changes no other command.
LEMMA StepLeavesRestore ==
  ASSUME TypeOK, NEW q \in Procs, Step(q)
  PROVE  /\ cmd[q] # Idle
         /\ \A p \in Procs : p # q => cmd'[p] = cmd[p]
         /\ cmd'[q] = Idle \/ cmd'[q].pc # "restore"
<1>1. cmd \in [Procs -> Command \cup {Idle}]  BY DEF TypeOK
<1>2. CASE ReadCurrent(q) \/ EnsureBackup(q)
  BY <1>1, <1>2 DEF ReadCurrent, EnsureBackup, At, GoTo, Return, Command
<1>3. CASE SaveEntry(q) \/ CheckUnchanged(q) \/ Replace(q)
  BY <1>1, <1>3 DEF SaveEntry, CheckUnchanged, Replace, At, GoTo, Return, Command
<1>4. CASE Verify(q) \/ RecordApplied(q) \/ SaveApplied(q)
  BY <1>1, <1>4 DEF Verify, RecordApplied, SaveApplied, At, GoTo, Return, Command
<1>5. CASE Restore(q) \/ VerifyRestore(q)
  BY <1>1, <1>5 DEF Restore, VerifyRestore, At, GoTo, Return, Command
<1>6. CASE UnlinkBackup(q) \/ UnlinkApplied(q) \/ DropEntry(q)
  BY <1>1, <1>6 DEF UnlinkBackup, UnlinkApplied, DropEntry, At, GoTo, Return, Command
<1> QED  BY <1>2, <1>3, <1>4, <1>5, <1>6 DEF Step

LEMMA NextTargetInv == Serial /\ IInv /\ TargetInv /\ [Next]_vars => TargetInv'
<1> SUFFICES ASSUME Serial, IInv, TargetInv, [Next]_vars,
                    NEW p \in Procs, cmd'[p] # Idle, cmd'[p].pc = "restore"
             PROVE  cmd'[p].desired =
                      RevertTarget(cmd'[p].current, manifest'[cmd'[p].tool])
  BY DEF TargetInv
<1> USE DEF IInv
<1>1. CASE UNCHANGED <<cmd, manifest>>  BY <1>1 DEF TargetInv
<1>2. ASSUME NEW q \in Procs, Step(q)  PROVE FALSE
  <2>1. p # q  BY <1>2, StepLeavesRestore
  <2>2. cmd[q] # Idle /\ cmd[p] # Idle  BY <1>2, <2>1, StepLeavesRestore
  <2> QED  BY <2>1, <2>2 DEF OneCommand
<1>3. ASSUME NEW q \in Procs, Crash(q)  PROVE FALSE
  <2>1. cmd[q] # Idle /\ cmd' = [cmd EXCEPT ![q] = Idle]  BY <1>3 DEF Crash, Return
  <2>2. p # q /\ cmd[p] # Idle  BY <2>1 DEF TypeOK
  <2> QED  BY <2>1, <2>2 DEF OneCommand
<1>4. ASSUME NEW q \in Procs, NEW t \in Tools, StartReconcile(q, t)  PROVE FALSE
  <2>1. cmd[p] = Idle  BY <1>4 DEF StartReconcile, MayStart
  <2> QED  BY <1>4, <2>1 DEF StartReconcile, TypeOK
<1>5. ASSUME NEW q \in Procs, NEW t \in Tools, StartRevert(q, t)
      PROVE  cmd'[p].desired =
               RevertTarget(cmd'[p].current, manifest'[cmd'[p].tool])
  <2>1. cmd[p] = Idle /\ manifest' = manifest  BY <1>5 DEF StartRevert, MayStart
  <2>2. p = q  BY <1>5, <2>1 DEF StartRevert, TypeOK
  <2>3. /\ cmd'[p].desired = RevertTarget(file[t], manifest[t])
        /\ cmd'[p].current = file[t] /\ cmd'[p].tool = t
    BY <1>5, <2>2 DEF StartRevert, TypeOK
  <2> QED  BY <2>1, <2>3
<1>6. ASSUME NEW t \in Tools, AdminEdit(t) \/ AdminRemove(t) \/ AdminPush(t)
      PROVE  UNCHANGED <<cmd, manifest>>
  BY <1>6 DEF AdminEdit, AdminRemove, AdminPush
<1>7. CASE UNCHANGED vars  BY <1>1, <1>7 DEF vars
<1> QED  BY <1>1, <1>2, <1>3, <1>4, <1>5, <1>6, <1>7 DEF Next

\* A revert that is not raced by an edit undoes only what still holds the value
\* ug last applied.
THEOREM RevertSparesEdits == Serial => (Spec => RevertKeepsLaterEdits)
<1> DEFINE Spared == \A p \in Procs :
             LET t == ToolOf(p) IN
             /\ At(p, "restore") /\ ~UNCHANGED cmd /\ file[t] = cmd[p].current
             /\ manifest[t] # NoEntry /\ manifest[t].applied # Absent
             => \A l \in Leaves :
                  Settings(file[t])[l] # manifest[t].applied[l] =>
                    Settings(file'[t])[l] = Settings(file[t])[l]
<1>1. ASSUME IInv, TargetInv, [Next]_vars, Serial  PROVE Spared
  <2> SUFFICES ASSUME NEW p \in Procs, At(p, "restore"), ~UNCHANGED cmd,
                      file[ToolOf(p)] = cmd[p].current,
                      manifest[ToolOf(p)] # NoEntry,
                      manifest[ToolOf(p)].applied # Absent,
                      NEW l \in Leaves,
                      Settings(file[ToolOf(p)])[l] # manifest[ToolOf(p)].applied[l]
               PROVE  Settings(file'[ToolOf(p)])[l] = Settings(file[ToolOf(p)])[l]
    OBVIOUS
  <2> DEFINE t == ToolOf(p)
  <2>1. cmd[p] # Idle /\ cmd[p].pc = "restore"  BY DEF At
  <2>2. t \in Tools /\ file[t] \in Contents /\ manifest[t] \in Entry
    BY <1>1, <2>1, CommandFields DEF IInv, TypeOK, Manifest, ToolOf
  <2>3. cmd[p].desired = RevertTarget(file[t], manifest[t])
    BY <1>1, <2>1 DEF TargetInv, ToolOf
  <2>4. Settings(cmd[p].desired)[l] = Settings(file[t])[l]
    BY <2>2, <2>3, RevertTargetKeeps
  <2>5. file' = file \/ file' = [file EXCEPT ![t] = cmd[p].desired]
    <3>1. ASSUME NEW q \in Procs, Step(q) \/ Crash(q)  PROVE q = p
      <4>1. cmd[q] # Idle
        BY <1>1, <3>1, StepLeavesRestore DEF IInv, Crash
      <4> QED  BY <1>1, <2>1, <4>1 DEF IInv, OneCommand
    <3>2. ASSUME Step(p)  PROVE Restore(p)
      BY <2>1, <3>2 DEF Step, At, ReadCurrent, EnsureBackup, SaveEntry,
         CheckUnchanged, Replace, Verify, RecordApplied, SaveApplied,
         VerifyRestore, UnlinkBackup, UnlinkApplied, DropEntry
    <3>3. ASSUME Restore(p) \/ Crash(p)
          PROVE  file' = file \/ file' = [file EXCEPT ![t] = cmd[p].desired]
      BY <3>3 DEF Restore, Rename, Crash
    <3>4. ASSUME NEW q \in Procs, NEW s \in Tools,
                 StartReconcile(q, s) \/ StartRevert(q, s)
          PROVE  file' = file
      BY <3>4 DEF StartReconcile, StartRevert
    <3>5. ASSUME NEW s \in Tools, AdminEdit(s) \/ AdminRemove(s) \/ AdminPush(s)
          PROVE  FALSE
      BY <3>5 DEF AdminEdit, AdminRemove, AdminPush
    <3>6. ~UNCHANGED vars  BY DEF vars
    <3> QED  BY <1>1, <3>1, <3>2, <3>3, <3>4, <3>5, <3>6 DEF Next
  <2>6. CASE file' = file  BY <2>6
  <2>7. CASE file' = [file EXCEPT ![t] = cmd[p].desired]
    <3>1. file'[t] = cmd[p].desired  BY <1>1, <2>2, <2>7 DEF IInv, TypeOK
    <3> QED  BY <2>4, <3>1
  <2> QED  BY <2>5, <2>6, <2>7
<1> SUFFICES ASSUME Serial PROVE Spec => RevertKeepsLaterEdits  OBVIOUS
<1>2. IInv /\ TargetInv /\ [Next]_vars => [Spared]_vars  BY <1>1
<1>3. Init => TargetInv  BY DEF Init, TargetInv
<1>4. IInv /\ TargetInv /\ [Next]_vars => TargetInv'  BY NextTargetInv
<1>5. Spec => []IInv  BY Invariance
<1> HIDE DEF Spared
<1>6. Spec => [][Spared]_vars  BY <1>2, <1>3, <1>4, <1>5, PTL DEF Spec
<1> QED  BY <1>6 DEF RevertKeepsLaterEdits, Spared
=============================================================================
