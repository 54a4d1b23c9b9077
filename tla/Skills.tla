------------------------------- MODULE Skills -------------------------------
(***************************************************************************)
(* Skills downloaded from Unity Catalog (src/src/ucode/skills_download.py  *)
(* and skills_state.py), for one workspace and one base, the home          *)
(* directory.                                                              *)
(*                                                                         *)
(* A skill is written to a directory under each of two roots.  The         *)
(* directory has the name that the bundle claims, which is not unique and  *)
(* may change in the catalog; a user may have a skill of his own there.    *)
(* skills.json records what ug wrote: it is read, changed and replaced     *)
(* whole, without a lock.  `ug skills add` and `remove` are the user's,    *)
(* `ug configure` makes the directories match what the administrator       *)
(* lists, and a launch refreshes what the user added.  A bundle may have   *)
(* no files: it is then recorded like any other, and what its directory    *)
(* held stays.  Two commands may run at a time and be killed anywhere; a   *)
(* user edits the directories when none runs.  Users and the catalog are   *)
(* external.                                                               *)
(***************************************************************************)
EXTENDS Naturals, Sequences, FiniteSets

CONSTANTS
  Skill,       \* in the catalog, by full name
  Bundles,     \* names that directories may have
  Roots,
  Processes,
  None, Authored,
  Ops,
  Scenarios    \* how many commands and edits there are, whether commands overlap, and
               \* whether they may be killed and files fail

ASSUME ConstantsAssumption ==
  /\ IsFiniteSet(Skill)
  /\ None # Authored /\ {None, Authored} \cap Skill = {} /\ None \notin Roots
  /\ Ops \subseteq {"add", "remove", "configure", "launch"}
  /\ Scenarios \subseteq [commands : Nat, edits : Nat, overlapping : BOOLEAN, mishaps : BOOLEAN]

Content == {None, Authored} \cup Skill    \* nothing, the user's own, or ug's copy of a skill
Record == [fqn : Skill, bundle : Bundles, managed : BOOLEAN]
Refs == [fqn : Skill, bundle : Bundles]
Labels == {"idle", "stamp", "sweep", "delete", "forget", "forgotten", "check", "write", "save"}

VARIABLES
  dirs,      \* what each bundle name's directory holds under each root
  records,   \* skill_downloads of skills.json
  name,      \* the catalog: the bundle name of each skill
  listed,    \* the skills that the administrator lists
  pc, run,
  clean,     \* history: no kill, no failure and no overlap of commands so far
  emptied,   \* history: the names whose last install was of a bundle without files
  scenario, commands, edits

outside == <<name, listed, scenario>>
vars == <<dirs, records, outside, pc, run, clean, emptied, commands, edits>>

\* What a command holds: the records it read, those to delete or forget, the skills asked
\* for, the names whose replacement was agreed to, what it is to write and has written, and
\* the manifest it is about to replace.
NoRun == [op |-> "none", held |-> {}, drop |-> {}, want |-> {}, agreed |-> {},
          todo |-> << >>, written |-> << >>, base |-> {}]

Init ==
  /\ dirs \in [Bundles -> [Roots -> {None, Authored}]]
  /\ records = {}
  /\ name \in [Skill -> Bundles]
  /\ listed \in SUBSET Skill
  /\ pc = [p \in Processes |-> "idle"] /\ run = [p \in Processes |-> NoRun]
  /\ clean = TRUE /\ emptied = {}
  /\ scenario \in Scenarios /\ commands = 0 /\ edits = 0

-----------------------------------------------------------------------------
Exists(b) == \E r \in Roots : dirs[b][r] # None
Ref(s) == [fqn |-> s, bundle |-> name[s]]
BundlesOf(S) == {x.bundle : x \in S}
FqnsOf(S) == {x.fqn : x \in S}

Goes(p, label, r) ==
  /\ pc' = [pc EXCEPT ![p] = label]
  /\ run' = [run EXCEPT ![p] = IF label = "idle" THEN NoRun ELSE r]

\* _load: a manifest that cannot be read or parsed is read as empty.
Readings == IF scenario.mishaps THEN {records, {}} ELSE {records}

Start(p, seen, label, r) ==
  /\ pc[p] = "idle" /\ commands < scenario.commands
  /\ scenario.overlapping \/ \A q \in Processes : pc[q] = "idle"
  /\ commands' = commands + 1
  /\ clean' = (clean /\ seen = records /\ \A q \in Processes : pc[q] = "idle")
  /\ UNCHANGED <<dirs, records, outside, emptied, edits>>
  /\ Goes(p, label, r)

Kept == UNCHANGED <<outside, emptied, commands, edits>>

Removed(S) == [b \in Bundles |-> [r \in Roots |->
                 IF b \in BundlesOf(S) THEN None ELSE dirs[b][r]]]

-----------------------------------------------------------------------------
(* How commands begin. *)

Add(p, S) ==
  /\ S # {}
  /\ Start(p, records, "check", [NoRun EXCEPT !.op = "add", !.want = S])

Personal(seen) == {r \in seen : ~r.managed}

\* remove_downloaded_skills_command: only what was recorded and is not managed.
RemoveSkills(p, S) ==
  /\ S # {} /\ S \subseteq Personal(records)
  /\ Start(p, records, "delete", [NoRun EXCEPT !.op = "remove", !.held = S, !.drop = S])

Stale(seen) == {r \in seen : r.managed /\ r.fqn \notin listed}

\* reconcile_managed_skills: nothing is removed when the list cannot be read.
Configure(p, readable) ==
  /\ readable \/ scenario.mishaps
  /\ \E seen \in Readings :
       LET gone == IF readable THEN Stale(seen) ELSE {} IN
         Start(p, seen, IF gone = {} THEN "check" ELSE "delete",
               [NoRun EXCEPT !.op = "configure", !.held = seen, !.drop = gone,
                             !.want = IF readable THEN listed ELSE {}])

\* refresh_downloaded_skills_on_launch, when one is due, replaces the manifest to stamp it ...
Launch(p) ==
  \E seen \in Readings :
    Start(p, seen, "stamp", [NoRun EXCEPT !.op = "launch", !.base = seen])

Stamp(p) ==
  /\ pc[p] = "stamp"
  /\ records' = run[p].base
  /\ UNCHANGED <<dirs, clean>> /\ Kept
  /\ Goes(p, "sweep", [run[p] EXCEPT !.base = {}])

\* ... then forgets what the user has deleted.
Sweep(p) ==
  /\ pc[p] = "sweep"
  /\ \E seen \in Readings :
       LET gone == {r \in Personal(seen) : ~Exists(r.bundle)} IN
         /\ Goes(p, IF gone = {} THEN "check" ELSE "forget",
                 [run[p] EXCEPT !.held = Personal(seen), !.drop = gone])
         /\ clean' = (clean /\ seen = records)
  /\ UNCHANGED <<dirs, records>> /\ Kept

-----------------------------------------------------------------------------
(* remove_downloads and forget. *)

Delete(p) ==
  /\ pc[p] = "delete"
  /\ \E stuck \in IF scenario.mishaps THEN SUBSET run[p].drop ELSE {{}} :
       /\ dirs' = Removed(run[p].drop \ stuck)
       /\ clean' = (clean /\ stuck = {})
  /\ UNCHANGED records /\ Kept
  /\ Goes(p, "forget", run[p])

Forget(p) ==
  /\ pc[p] = "forget"
  /\ \E seen \in Readings :
       /\ Goes(p, "forgotten", [run[p] EXCEPT !.base = seen])
       /\ clean' = (clean /\ seen = records)
  /\ UNCHANGED <<dirs, records>> /\ Kept

Forgotten(p) ==
  /\ pc[p] = "forgotten"
  /\ records' = {r \in run[p].base : r.fqn \notin FqnsOf(run[p].drop)}
  /\ UNCHANGED <<dirs, clean>> /\ Kept
  /\ Goes(p, IF run[p].op = "remove" THEN "idle" ELSE "check", run[p])

-----------------------------------------------------------------------------
(* Which skills are written, and in which order. *)

\* _reject_bundle_name_collisions: of those that claim one name, the first.
Winners(S) ==
  {K \in SUBSET S : \A x \in S : \E y \in K : K \cap {z \in S : z.bundle = x.bundle} = {y}}

Orders(K) ==
  {q \in [1 .. Cardinality(K) -> K] : \A i, j \in DOMAIN q : q[i] = q[j] => i = j}

\* should_download_skill: the user is asked about a directory that exists.
CheckAdd(p) ==
  /\ pc[p] = "check" /\ run[p].op = "add"
  /\ \E K \in Winners({Ref(s) : s \in run[p].want}) :
       \E agreed \in SUBSET {b \in BundlesOf(K) : Exists(b)} :
         \E q \in Orders({x \in K : Exists(x.bundle) => x.bundle \in agreed}) :
           Goes(p, "write", [run[p] EXCEPT !.agreed = agreed, !.todo = q])
  /\ UNCHANGED <<dirs, records, clean>> /\ Kept

Missing(x) == ~Exists(x.bundle)

CheckConfigure(p) ==
  /\ pc[p] = "check" /\ run[p].op = "configure"
  /\ \E K \in Winners({Ref(s) : s \in run[p].want}) :
       \E q \in Orders({x \in K : Missing(x)}) :
         Goes(p, "write", [run[p] EXCEPT !.todo = q])
  /\ UNCHANGED <<dirs, records, clean>> /\ Kept

\* Mistaken form: a renamed skill is written over what is there.
RefreshableAny(r) == TRUE

\* _reject_renames_onto_existing_skills
Refreshable(r) == name[r.fqn] = r.bundle \/ ~Exists(name[r.fqn])

\* Of the user's downloads, those that are newer in the catalog or partly missing, in time.
CheckLaunch(p) ==
  /\ pc[p] = "check" /\ run[p].op = "launch"
  /\ \E S \in SUBSET {r \in run[p].held \ run[p].drop : Refreshable(r)} :
       \E K \in Winners({Ref(r.fqn) : r \in S}) :
         \E q \in Orders(K) : Goes(p, "write", [run[p] EXCEPT !.todo = q])
  /\ UNCHANGED <<dirs, records, clean>> /\ Kept

-----------------------------------------------------------------------------
(* write_skill and record_downloads. *)

\* The roots are cleared and filled one after the other; of a bundle none of whose paths is
\* safe nothing is filled.  A bundle without files touches no root, and counts as written.
Write(p) ==
  /\ pc[p] = "write" /\ run[p].todo # << >>
  /\ LET x == Head(run[p].todo) IN
       /\ \/ \E made \in {x.fqn, None} :
               /\ dirs' = [dirs EXCEPT ![x.bundle] = [r \in Roots |-> made]]
               /\ emptied' = emptied \ {x.bundle}
          \/ dirs' = dirs /\ emptied' = emptied \cup {x.bundle}
       /\ Goes(p, "write", [run[p] EXCEPT !.todo = Tail(@), !.written = Append(@, x)])
  /\ UNCHANGED <<records, outside, clean, commands, edits>>

\* The bundle cannot be fetched, or a root cannot be written: the skill is skipped.
Skip(p) ==
  /\ pc[p] = "write" /\ run[p].todo # << >> /\ scenario.mishaps
  /\ LET x == Head(run[p].todo) IN
       \E done \in SUBSET Roots, cleared \in Roots \cup {None} :
         /\ dirs' = [dirs EXCEPT ![x.bundle] = [r \in Roots |->
              IF r \in done THEN x.fqn ELSE IF r = cleared THEN None ELSE @[r]]]
         /\ clean' = (clean /\ dirs' = dirs)
  /\ UNCHANGED records /\ Kept
  /\ Goes(p, "write", [run[p] EXCEPT !.todo = Tail(@)])

\* Mistaken form: an install replaces only the record of its skill.
ReplacesOwn(x, r) == x.fqn = r.fqn

\* The records that installs replace: each one's own, and the one of its directories.
Replaces(x, r) == x.fqn = r.fqn \/ x.bundle = r.bundle

\* Mistaken form: what a renamed skill leaves behind is kept.
NoOrphans(q, base) == {}

\* The directories that are deleted: those that a skill had before, unless another install
\* has overwritten them, as far as those before it in the batch are concerned.
Orphans(q, base) ==
  {r \in base : \E i \in DOMAIN q :
     /\ q[i].fqn = r.fqn /\ q[i].bundle # r.bundle
     /\ \A j \in 1 .. i - 1 : q[j].bundle # r.bundle}

Installs(p) == {run[p].written[i] : i \in DOMAIN run[p].written}

Recorded(p, base) ==
  {r \in base : \A x \in Installs(p) : ~Replaces(x, r)}
    \cup {[fqn |-> x.fqn, bundle |-> x.bundle, managed |-> run[p].op = "configure"] :
            x \in Installs(p)}

Load(p) ==
  /\ pc[p] = "write" /\ run[p].todo = << >>
  /\ IF run[p].written = << >>
       THEN Goes(p, "idle", NoRun) /\ UNCHANGED <<dirs, clean>>
       ELSE \E seen \in Readings :
              /\ Goes(p, "save", [run[p] EXCEPT !.base = seen])
              /\ dirs' = Removed(Orphans(run[p].written, seen))
              /\ clean' = (clean /\ seen = records)
  /\ UNCHANGED records /\ Kept

Save(p) ==
  /\ pc[p] = "save"
  /\ records' = Recorded(p, run[p].base)
  /\ UNCHANGED <<dirs, clean>> /\ Kept
  /\ Goes(p, "idle", NoRun)

Kill(p) ==
  /\ scenario.mishaps /\ pc[p] # "idle"
  /\ clean' = FALSE
  /\ UNCHANGED <<dirs, records>> /\ Kept
  /\ Goes(p, "idle", NoRun)

-----------------------------------------------------------------------------
(* The user's own edits, and the catalog. *)

Quiet == edits < scenario.edits /\ edits' = edits + 1 /\ \A p \in Processes : pc[p] = "idle"

Edit(b, r, c) ==
  /\ Quiet /\ c \in {None, Authored} /\ c # dirs[b][r]
  /\ dirs' = [dirs EXCEPT ![b][r] = c]
  /\ UNCHANGED <<records, outside, pc, run, clean, emptied, commands>>

Rename(s, b) ==
  /\ Quiet /\ name[s] # b /\ name' = [name EXCEPT ![s] = b]
  /\ UNCHANGED <<dirs, records, listed, scenario, pc, run, clean, emptied, commands>>

List(S) ==
  /\ Quiet /\ listed # S /\ listed' = S
  /\ UNCHANGED <<dirs, records, name, scenario, pc, run, clean, emptied, commands>>

Begin(p) ==
  \/ "add" \in Ops /\ \E S \in SUBSET Skill : Add(p, S)
  \/ "remove" \in Ops /\ \E S \in SUBSET Personal(records) : RemoveSkills(p, S)
  \/ "configure" \in Ops /\ \E readable \in BOOLEAN : Configure(p, readable)
  \/ "launch" \in Ops /\ Launch(p)

Next ==
  \/ \E p \in Processes :
       \/ Begin(p) \/ Stamp(p) \/ Sweep(p) \/ Delete(p) \/ Forget(p) \/ Forgotten(p)
       \/ CheckAdd(p) \/ CheckConfigure(p) \/ CheckLaunch(p)
       \/ Write(p) \/ Skip(p) \/ Load(p) \/ Save(p) \/ Kill(p)
  \/ \E b \in Bundles, r \in Roots, c \in Content : Edit(b, r, c)
  \/ \E s \in Skill, b \in Bundles : Rename(s, b)
  \/ \E S \in SUBSET Skill : List(S)

Spec == Init /\ [][Next]_vars

-----------------------------------------------------------------------------
(* Properties. *)

Run == [op : Ops \cup {"none"}, held : SUBSET Record, drop : SUBSET Record,
        want : SUBSET Skill, agreed : SUBSET Bundles, todo : Seq(Refs), written : Seq(Refs),
        base : SUBSET Record]

\* Every variable keeps to its domain.
TypeOK ==
  /\ dirs \in [Bundles -> [Roots -> Content]]
  /\ records \subseteq Record
  /\ name \in [Skill -> Bundles] /\ listed \subseteq Skill
  /\ pc \in [Processes -> Labels] /\ run \in [Processes -> Run]
  /\ clean \in BOOLEAN /\ emptied \subseteq Bundles
  /\ scenario \in Scenarios /\ commands \in Nat /\ edits \in Nat

\* No two records name one skill or one directory, whatever commands overlap or are killed:
\* so a removal takes the directories of one download, and of all of it.
ClaimsDisjoint ==
  \A r, s \in records : r # s => r.fqn # s.fqn /\ r.bundle # s.bundle

\* A directory that its user authored is only replaced or deleted by a command if its user
\* agreed to it, or a record that the command read names that directory.
AuthoredSpared ==
  [][\A b \in Bundles, r \in Roots :
       dirs[b][r] = Authored /\ dirs'[b][r] # Authored =>
         \/ edits' # edits
         \/ \E p \in Processes :
              b \in run[p].agreed \cup BundlesOf(run[p].held \cup records)]_vars

\* As long as commands run one by one to their end, a record names the directory of every
\* copy that ug wrote, so it will be removed; and that record is of the copy's own skill, so
\* it will be refreshed and listed as what it is, unless the last install under that name was
\* of a bundle without files, which takes over the record and leaves the copy.
CopiesAttributed ==
  clean /\ (\A p \in Processes : pc[p] = "idle") =>
    \A b \in Bundles, r \in Roots :
      dirs[b][r] \notin {None, Authored} =>
        \E x \in records : x.bundle = b /\ (x.fqn = dirs[b][r] \/ b \in emptied)

=============================================================================
