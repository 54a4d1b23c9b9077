---------------------------- MODULE SkillsProofs ----------------------------
(***************************************************************************)
(* The safety properties of Skills for every catalog, every set of roots   *)
(* and every number of commands that overlap, fail and are killed.  That   *)
(* records stay disjoint rests on the batch of a command: of the skills    *)
(* that claim one name only one is written, and what a batch records       *)
(* replaces every record it meets.  That what users author is spared rests *)
(* on a fact about time: users edit between commands, so a directory that  *)
(* did not exist when a command checked is not a user's when it writes.    *)
(* That every copy has its record is about commands that run one by one    *)
(* (Serial): what a command has deleted or written by each of its steps    *)
(* makes up for what the records do not say yet.                           *)
(***************************************************************************)
EXTENDS Skills, FiniteSetTheorems, SequenceTheorems, TLAPS

USE ConstantsAssumption

-----------------------------------------------------------------------------
(* The inductive invariant. *)

ImageOf(q) == {q[i] : i \in DOMAIN q}

\* No two members name one skill or one directory.
Disjoint(S) == \A x, y \in S : x # y => x.fqn # y.fqn /\ x.bundle # y.bundle

\* What a command writes and has written.
Batch(r) == ImageOf(r.todo) \cup ImageOf(r.written)

Sound(label, r) ==
  /\ r \in Run
  /\ label \notin {"write", "save"} => r.written = << >>
  /\ label \in {"stamp", "sweep"} => r.todo = << >>
  /\ r.drop \subseteq r.held
  /\ Disjoint(r.base) /\ Disjoint(Batch(r))

\* The names whose replacement a command can answer for.
Known(r) == r.agreed \cup BundlesOf(r.held)

\* What a command is yet to write are no directories of the user's that it does not know of.
Spares(r, held) == \A x \in ImageOf(r.todo), root \in Roots :
  held[x.bundle][root] = Authored => x.bundle \in Known(r)

IInv ==
  /\ TypeOK
  /\ Disjoint(records)
  /\ \A p \in Processes : Sound(pc[p], run[p])
  /\ \A p \in Processes : pc[p] = "idle" => run[p] = NoRun
  /\ \A p \in Processes : Spares(run[p], dirs)

-----------------------------------------------------------------------------
(* Lemmas. *)

LEMMA EmptyRunSound == (\A l : Sound(l, NoRun)) /\ NoRun \in Run /\ ImageOf(NoRun.todo) = {}
<1>1. << >> \in Seq(Refs)
  BY EmptySeq
<1>2. NoRun \in Run
  BY <1>1 DEF NoRun, Run
<1>3. ImageOf(<< >>) = {}
  BY DEF ImageOf
<1> QED
  BY <1>2, <1>3 DEF Sound, NoRun, Disjoint, Batch

\* What a sequence gives and takes.
LEMMA ImageTail ==
  ASSUME NEW S, NEW q \in Seq(S), q # << >>
  PROVE  /\ Head(q) \in ImageOf(q) /\ Head(q) \in S /\ Tail(q) \in Seq(S)
         /\ ImageOf(Tail(q)) \subseteq ImageOf(q)
<1>1. /\ Len(q) \in Nat /\ Len(q) # 0 /\ Tail(q) \in Seq(S) /\ DOMAIN q = 1 .. Len(q)
      /\ Len(Tail(q)) = Len(q) - 1 /\ DOMAIN Tail(q) = 1 .. Len(Tail(q))
      /\ \A i \in 1 .. Len(Tail(q)) : Tail(q)[i] = q[i + 1]
  BY HeadTailProperties, LenProperties, EmptySeq
<1>2. Head(q) = q[1] /\ Head(q) \in S
  BY HeadTailProperties
<1> QED
  BY <1>1, <1>2 DEF ImageOf

LEMMA ImageAppend ==
  ASSUME NEW S, NEW q \in Seq(S), NEW x \in S
  PROVE  Append(q, x) \in Seq(S) /\ ImageOf(Append(q, x)) = ImageOf(q) \cup {x}
<1>1. /\ Len(q) \in Nat /\ DOMAIN q = 1 .. Len(q) /\ Append(q, x) \in Seq(S)
      /\ DOMAIN Append(q, x) = 1 .. Len(q) + 1
      /\ \A i \in 1 .. Len(q) : Append(q, x)[i] = q[i]
      /\ Append(q, x)[Len(q) + 1] = x
  BY AppendProperties, LenProperties
<1>2. ImageOf(Append(q, x)) \subseteq ImageOf(q) \cup {x}
  BY <1>1 DEF ImageOf
<1>3. \A i \in 1 .. Len(q) : i \in 1 .. Len(q) + 1 /\ Append(q, x)[i] = q[i]
  BY <1>1
<1>4. ImageOf(q) \subseteq ImageOf(Append(q, x))
  BY <1>1, <1>3 DEF ImageOf
<1>5. x \in ImageOf(Append(q, x))
  BY <1>1 DEF ImageOf
<1> QED
  BY <1>1, <1>2, <1>4, <1>5

LEMMA DisjointSubset ==
  ASSUME NEW S, NEW T \in SUBSET S, Disjoint(S)
  PROVE  Disjoint(T)
  BY DEF Disjoint

\* Winners claim different names, and a set of references to skills has each skill once.
LEMMA WinnersDisjoint ==
  ASSUME TypeOK, NEW T \in SUBSET Skill, NEW K \in Winners({Ref(s) : s \in T})
  PROVE  /\ K \in SUBSET {Ref(s) : s \in T} /\ K \in SUBSET Refs
         /\ IsFiniteSet(K) /\ Disjoint(K)
<1> DEFINE R == {Ref(s) : s \in T}
           f == [s \in T |-> Ref(s)]
<1>1. R \subseteq Refs /\ K \subseteq R
  BY DEF TypeOK, Ref, Refs, Winners
<1>2. IsFiniteSet(R)
  <2>1. f \in Surjection(T, R)
    BY DEF Surjection
  <2>2. IsFiniteSet(T)
    BY FS_Subset
  <2> QED
    BY <2>1, <2>2, FS_Surjection
<1>3. ASSUME NEW x \in K, NEW y \in K, x # y
      PROVE  x.fqn # y.fqn /\ x.bundle # y.bundle
  <2>1. x.fqn # y.fqn
    BY <1>1, <1>3 DEF Ref
  <2>2. PICK z \in K : K \cap {v \in R : v.bundle = x.bundle} = {z}
    BY <1>1, <1>3 DEF Winners
  <2>3. x = z
    BY <1>1, <2>2
  <2>4. x.bundle # y.bundle
    BY <1>1, <1>3, <2>2, <2>3
  <2> QED
    BY <2>1, <2>4
<1> QED
  BY <1>1, <1>2, <1>3, FS_Subset DEF Disjoint

\* An order of a set of references is a sequence of them.
LEMMA OrderIsSequence ==
  ASSUME NEW K \in SUBSET Refs, IsFiniteSet(K), NEW L \in SUBSET K, NEW q \in Orders(L)
  PROVE  q \in Seq(Refs) /\ ImageOf(q) \subseteq L
<1>1. IsFiniteSet(L) /\ Cardinality(L) \in Nat
  BY FS_Subset, FS_CardinalityType
<1>2. q \in [1 .. Cardinality(L) -> L]
  BY DEF Orders
<1>3. q \in [1 .. Cardinality(L) -> Refs]
  BY <1>2
<1>4. q \in Seq(Refs)
  BY <1>1, <1>3, IsASeq
<1> QED
  BY <1>2, <1>4 DEF ImageOf

\* A step of one command keeps what is said of all, if it writes nothing as a user would.
LEMMA StepKeeps ==
  ASSUME IInv, NEW p \in Processes, NEW label \in Labels, NEW r, Goes(p, label, r),
         Sound(label, r), Spares(r, dirs),
         dirs' \in [Bundles -> [Roots -> Content]],
         \A b \in Bundles, root \in Roots : dirs'[b][root] = Authored => dirs[b][root] = Authored,
         records' \subseteq Record, Disjoint(records'), clean' \in BOOLEAN,
         commands' \in Nat, emptied' \subseteq Bundles, UNCHANGED <<outside, edits>>
  PROVE  IInv'
<1>1. /\ pc' \in [Processes -> Labels] /\ run' \in [Processes -> Run]
      /\ \A q \in Processes : Sound(pc'[q], run'[q])
      /\ \A q \in Processes : pc'[q] = "idle" => run'[q] = NoRun
  BY EmptyRunSound DEF Goes, IInv, TypeOK, Sound
<1>2. \A q \in Processes : Spares(run'[q], dirs)
  BY EmptyRunSound DEF Goes, IInv, TypeOK, Spares
<1>3. \A q \in Processes : Spares(run'[q], dirs')
  <2> SUFFICES ASSUME NEW q \in Processes, NEW x \in ImageOf(run'[q].todo), NEW root \in Roots,
                      dirs'[x.bundle][root] = Authored
               PROVE  x.bundle \in Known(run'[q])
    BY DEF Spares
  <2>1. x \in Refs
    <3>1. run'[q].todo \in Seq(Refs)
      BY <1>1 DEF Run
    <3>2. /\ Len(run'[q].todo) \in Nat /\ DOMAIN run'[q].todo = 1 .. Len(run'[q].todo)
      BY <3>1, LenProperties
    <3> QED
      BY <3>1, <3>2, ElementOfSeq DEF ImageOf
  <2>2. dirs[x.bundle][root] = Authored
    BY <2>1 DEF Refs
  <2> QED
    BY <1>2, <2>2 DEF Spares
<1>4. TypeOK'
  BY <1>1 DEF IInv, TypeOK, outside
<1> QED
  BY <1>1, <1>3, <1>4 DEF IInv

\* Commands begin with nothing in hand to write.
LEMMA StartKeeps ==
  ASSUME IInv, NEW p \in Processes, NEW seen, NEW label \in Labels, NEW r,
         Start(p, seen, label, r), r \in Run, r.drop \subseteq r.held, r.todo = << >>,
         r.written = << >>, Disjoint(r.base)
  PROVE  IInv'
<1>1. Sound(label, r) /\ Spares(r, dirs)
  <2>1. Disjoint(Batch(r)) /\ ImageOf(r.todo) = {}
    BY DEF Disjoint, Batch, ImageOf
  <2> QED
    BY <2>1 DEF Sound, Spares
<1>2. commands' \in Nat
  BY DEF Start, IInv, TypeOK
<1>3. clean' \in BOOLEAN
  BY DEF Start
<1>4. /\ UNCHANGED <<dirs, records, outside, emptied, edits>> /\ Goes(p, label, r)
  BY DEF Start
<1>5. /\ dirs' \in [Bundles -> [Roots -> Content]] /\ records' \subseteq Record
      /\ Disjoint(records') /\ emptied' \subseteq Bundles
  BY <1>4 DEF IInv, TypeOK
<1> QED
  BY <1>1, <1>2, <1>3, <1>4, <1>5, StepKeeps

\* Deleting directories makes none a user's.
LEMMA RemovedTyped ==
  ASSUME TypeOK, NEW S
  PROVE  /\ Removed(S) \in [Bundles -> [Roots -> Content]]
         /\ \A b \in Bundles, root \in Roots :
              /\ Removed(S)[b][root] = Authored => dirs[b][root] = Authored
              /\ Removed(S)[b][root] # dirs[b][root] => b \in BundlesOf(S)
  BY DEF Removed, TypeOK, Content

-----------------------------------------------------------------------------
(* The invariant is kept. *)

LEMMA InitIInv == Init => IInv
<1> SUFFICES ASSUME Init PROVE IInv
  OBVIOUS
<1>1. NoRun \in Run
  BY EmptyRunSound
<1>2. TypeOK
  BY <1>1 DEF Init, TypeOK, Content, Labels
<1>3. \A p \in Processes : Spares(run[p], dirs)
  BY EmptyRunSound DEF Init, Spares
<1> QED
  BY <1>2, <1>3, EmptyRunSound DEF Init, IInv, Disjoint

\* What a command reads of the manifest.
LEMMA ReadingsSound ==
  ASSUME IInv, NEW seen \in Readings
  PROVE  /\ seen \subseteq records /\ seen \subseteq Record /\ Disjoint(seen)
         /\ Personal(seen) \subseteq seen /\ Stale(seen) \subseteq seen
<1>1. seen \subseteq records
  BY DEF Readings
<1> QED
  BY <1>1, DisjointSubset DEF IInv, TypeOK, Personal, Stale

LEMMA BeginKeeps ==
  ASSUME IInv, NEW p \in Processes, Begin(p)
  PROVE  IInv'
<1>1. records \in Readings /\ listed \subseteq Skill
  BY DEF IInv, TypeOK, Readings
<1>2. NoRun \in Run
  BY EmptyRunSound
<1>3. /\ NoRun.todo = << >> /\ NoRun.written = << >> /\ NoRun.base = {} /\ NoRun.drop = {}
      /\ NoRun.held = {} /\ Disjoint({})
  BY DEF NoRun, Disjoint
<1>4. CASE "add" \in Ops /\ \E S \in SUBSET Skill : Add(p, S)
  <2> PICK S \in SUBSET Skill : Add(p, S)
    BY <1>4
  <2> DEFINE r == [NoRun EXCEPT !.op = "add", !.want = S]
  <2>1. /\ r \in Run /\ r.drop \subseteq r.held /\ r.todo = << >> /\ r.written = << >>
        /\ Disjoint(r.base)
    BY <1>2, <1>3, <1>4 DEF Run
  <2>2. Start(p, records, "check", r)
    BY DEF Add
  <2> HIDE DEF r
  <2> QED
    BY <2>1, <2>2, StartKeeps DEF Labels
<1>5. CASE "remove" \in Ops /\ \E S \in SUBSET Personal(records) : RemoveSkills(p, S)
  <2> PICK S \in SUBSET Personal(records) : RemoveSkills(p, S)
    BY <1>5
  <2> DEFINE r == [NoRun EXCEPT !.op = "remove", !.held = S, !.drop = S]
  <2>1. S \subseteq Record
    BY <1>1, ReadingsSound
  <2>2. /\ r \in Run /\ r.drop \subseteq r.held /\ r.todo = << >> /\ r.written = << >>
        /\ Disjoint(r.base)
    BY <1>2, <1>3, <1>5, <2>1 DEF Run
  <2>3. Start(p, records, "delete", r)
    BY DEF RemoveSkills
  <2> HIDE DEF r
  <2> QED
    BY <2>2, <2>3, StartKeeps DEF Labels
<1>6. CASE "configure" \in Ops /\ \E readable \in BOOLEAN : Configure(p, readable)
  <2> PICK readable \in BOOLEAN, seen \in Readings :
        LET gone == IF readable THEN Stale(seen) ELSE {} IN
          Start(p, seen, IF gone = {} THEN "check" ELSE "delete",
                [NoRun EXCEPT !.op = "configure", !.held = seen, !.drop = gone,
                              !.want = IF readable THEN listed ELSE {}])
    BY <1>6 DEF Configure
  <2> DEFINE gone == IF readable THEN Stale(seen) ELSE {}
             label == IF gone = {} THEN "check" ELSE "delete"
             r == [NoRun EXCEPT !.op = "configure", !.held = seen, !.drop = gone,
                                !.want = IF readable THEN listed ELSE {}]
  <2>1. seen \subseteq Record /\ gone \subseteq seen
    BY ReadingsSound
  <2>2. /\ r \in Run /\ r.drop \subseteq r.held /\ r.todo = << >> /\ r.written = << >>
        /\ Disjoint(r.base)
    BY <1>1, <1>2, <1>3, <1>6, <2>1 DEF Run
  <2>3. Start(p, seen, label, r)
    OBVIOUS
  <2>4. label \in Labels
    BY DEF Labels
  <2> HIDE DEF r, label
  <2> QED
    BY <2>2, <2>3, <2>4, StartKeeps
<1>7. CASE "launch" \in Ops /\ Launch(p)
  <2> PICK seen \in Readings :
        Start(p, seen, "stamp", [NoRun EXCEPT !.op = "launch", !.base = seen])
    BY <1>7 DEF Launch
  <2> DEFINE r == [NoRun EXCEPT !.op = "launch", !.base = seen]
  <2>1. /\ r \in Run /\ r.drop \subseteq r.held /\ r.todo = << >> /\ r.written = << >>
        /\ Disjoint(r.base)
    BY <1>2, <1>3, <1>7, ReadingsSound DEF Run
  <2>2. Start(p, seen, "stamp", r)
    OBVIOUS
  <2> HIDE DEF r
  <2> QED
    BY <2>1, <2>2, StartKeeps DEF Labels
<1> QED
  BY <1>4, <1>5, <1>6, <1>7 DEF Begin

\* A command goes on with the directories and records as they are.
LEMMA GoOnKeeps ==
  ASSUME IInv, NEW p \in Processes, NEW label \in Labels, NEW r, Goes(p, label, r),
         Sound(label, r), Spares(r, dirs), UNCHANGED <<dirs, records>>, clean' \in BOOLEAN, Kept
  PROVE  IInv'
<1>1. /\ dirs' \in [Bundles -> [Roots -> Content]] /\ records' \subseteq Record
      /\ Disjoint(records') /\ clean' \in BOOLEAN /\ commands' \in Nat
      /\ emptied' \subseteq Bundles /\ UNCHANGED <<outside, edits>>
      /\ \A b \in Bundles, root \in Roots : dirs'[b][root] = Authored => dirs[b][root] = Authored
  BY DEF IInv, TypeOK, Kept
<1> QED
  BY <1>1, StepKeeps

LEMMA DeleteKeeps ==
  ASSUME IInv, NEW p \in Processes, Delete(p)
  PROVE  IInv'
<1> PICK stuck \in SUBSET run[p].drop : /\ dirs' = Removed(run[p].drop \ stuck)
                                        /\ clean' = (clean /\ stuck = {})
  BY DEF Delete
<1>1. /\ Goes(p, "forget", run[p]) /\ UNCHANGED records /\ Kept /\ "forget" \in Labels
  BY DEF Delete, Labels
<1>2. /\ dirs' \in [Bundles -> [Roots -> Content]]
      /\ \A b \in Bundles, root \in Roots : dirs'[b][root] = Authored => dirs[b][root] = Authored
  BY RemovedTyped DEF IInv
<1>3. /\ records' \subseteq Record /\ Disjoint(records') /\ commands' \in Nat
      /\ emptied' \subseteq Bundles /\ UNCHANGED <<outside, edits>>
      /\ Sound("forget", run[p]) /\ Spares(run[p], dirs)
  BY <1>1 DEF IInv, TypeOK, Kept, Delete, Sound
<1>4. clean' \in BOOLEAN
  OBVIOUS
<1> QED
  BY <1>1, <1>2, <1>3, <1>4, StepKeeps

\* A command takes the records it is about to change.
LEMMA LoadsSound ==
  ASSUME IInv, NEW p \in Processes, NEW label, Sound(label, run[p]), NEW seen \in Readings
  PROVE  /\ Sound(label, [run[p] EXCEPT !.base = seen])
         /\ Spares([run[p] EXCEPT !.base = seen], dirs)
<1>1. seen \subseteq Record /\ Disjoint(seen)
  BY ReadingsSound
<1>2. run[p] \in Run /\ Spares(run[p], dirs)
  BY DEF IInv, Sound
<1> DEFINE r == [run[p] EXCEPT !.base = seen]
<1>3. /\ r \in Run /\ r.base = seen /\ r.todo = run[p].todo /\ r.written = run[p].written
      /\ r.held = run[p].held /\ r.drop = run[p].drop /\ r.agreed = run[p].agreed
  BY <1>1, <1>2 DEF Run
<1> HIDE DEF r
<1>4. Sound(label, r) /\ Spares(r, dirs)
  BY <1>1, <1>2, <1>3 DEF Sound, Batch, Spares, Known
<1> QED
  BY <1>4 DEF r

\* A launch writes back the records that it read, and reads them again.
LEMMA StampKeeps ==
  ASSUME IInv, NEW p \in Processes, Stamp(p) \/ Sweep(p)
  PROVE  IInv'
<1>1. /\ run[p] \in Run /\ Sound(pc[p], run[p]) /\ run[p].todo = << >> /\ Disjoint(run[p].base)
      /\ run[p].base \subseteq Record /\ run[p].written = << >> /\ Kept /\ UNCHANGED dirs
      /\ pc[p] \in {"stamp", "sweep"}
  BY DEF Stamp, Sweep, IInv, Sound, Run
<1>2. /\ dirs' \in [Bundles -> [Roots -> Content]] /\ commands' \in Nat
      /\ emptied' \subseteq Bundles
      /\ UNCHANGED <<outside, edits>>
      /\ \A b \in Bundles, root \in Roots : dirs'[b][root] = Authored => dirs[b][root] = Authored
  BY <1>1 DEF IInv, TypeOK, Kept
<1>3. CASE Stamp(p)
  <2> DEFINE r == [run[p] EXCEPT !.base = {}]
  <2>1. Goes(p, "sweep", r) /\ records' = run[p].base /\ clean' = clean
    BY <1>3 DEF Stamp
  <2>2. /\ r \in Run /\ r.todo = << >> /\ r.written = << >> /\ r.base = {}
        /\ r.drop = run[p].drop /\ r.held = run[p].held
    BY <1>1 DEF Run
  <2>3. r.drop \subseteq r.held /\ Disjoint(r.base)
          /\ ImageOf(r.todo) = {} /\ ImageOf(r.written) = {}
    BY <1>1, <2>2 DEF Sound, Disjoint, ImageOf
  <2> HIDE DEF r
  <2>4. Sound("sweep", r) /\ Spares(r, dirs)
    BY <2>2, <2>3 DEF Sound, Spares, Batch, Disjoint
  <2>5. records' \subseteq Record /\ Disjoint(records') /\ clean' \in BOOLEAN
    BY <1>1, <2>1 DEF IInv, TypeOK
  <2> QED
    BY <1>2, <2>1, <2>4, <2>5, StepKeeps DEF Labels
<1>4. CASE Sweep(p)
  <2> PICK seen \in Readings :
        LET gone == {x \in Personal(seen) : ~Exists(x.bundle)} IN
          /\ Goes(p, IF gone = {} THEN "check" ELSE "forget",
                  [run[p] EXCEPT !.held = Personal(seen), !.drop = gone])
          /\ clean' = (clean /\ seen = records)
    BY <1>4 DEF Sweep
  <2> DEFINE gone == {x \in Personal(seen) : ~Exists(x.bundle)}
             label == IF gone = {} THEN "check" ELSE "forget"
             r == [run[p] EXCEPT !.held = Personal(seen), !.drop = gone]
  <2>1. Goes(p, label, r) /\ clean' \in BOOLEAN /\ label \in {"check", "forget"}
    OBVIOUS
  <2>2. Personal(seen) \subseteq Record /\ gone \subseteq Personal(seen)
    BY ReadingsSound
  <2>3. /\ r \in Run /\ r.todo = << >> /\ r.written = << >> /\ r.base = run[p].base
        /\ r.drop \subseteq r.held
    BY <1>1, <2>2 DEF Run
  <2> HIDE DEF r, label
  <2>4. ImageOf(r.todo) = {} /\ ImageOf(r.written) = {}
    BY <2>3 DEF ImageOf
  <2>5. Sound(label, r) /\ Spares(r, dirs)
    BY <1>1, <2>1, <2>3, <2>4 DEF Sound, Spares, Batch, Disjoint
  <2>6. UNCHANGED records
    BY <1>4 DEF Sweep
  <2> QED
    BY <1>1, <2>1, <2>5, <2>6, GoOnKeeps DEF Labels
<1> QED
  BY <1>3, <1>4

LEMMA ForgetKeeps ==
  ASSUME IInv, NEW p \in Processes, Forget(p) \/ Forgotten(p)
  PROVE  IInv'
<1>1. CASE Forget(p)
  <2> PICK seen \in Readings : /\ Goes(p, "forgotten", [run[p] EXCEPT !.base = seen])
                               /\ clean' = (clean /\ seen = records)
    BY <1>1 DEF Forget
  <2> DEFINE r == [run[p] EXCEPT !.base = seen]
  <2>1. Goes(p, "forgotten", r) /\ UNCHANGED <<dirs, records>> /\ Kept /\ clean' \in BOOLEAN
    BY <1>1 DEF Forget
  <2>2. Sound("forgotten", run[p])
    BY <1>1 DEF Forget, IInv, Sound
  <2>3. Sound("forgotten", r) /\ Spares(r, dirs)
    BY <2>2, LoadsSound
  <2> HIDE DEF r
  <2> QED
    BY <2>1, <2>3, GoOnKeeps DEF Labels
<1>2. CASE Forgotten(p)
  <2> DEFINE label == IF run[p].op = "remove" THEN "idle" ELSE "check"
  <2>1. Goes(p, label, run[p]) /\ UNCHANGED <<dirs, clean>> /\ Kept /\ label \in Labels
    BY <1>2 DEF Forgotten, Labels
  <2>2. Sound(label, run[p]) /\ Spares(run[p], dirs)
    BY <1>2 DEF IInv, Forgotten, Sound
  <2>3. records' \in SUBSET run[p].base
    BY <1>2 DEF Forgotten
  <2>4. records' \subseteq Record /\ Disjoint(records')
    BY <2>2, <2>3, DisjointSubset DEF Sound, Run
  <2>5. /\ dirs' \in [Bundles -> [Roots -> Content]] /\ clean' \in BOOLEAN
        /\ commands' \in Nat /\ emptied' \subseteq Bundles /\ UNCHANGED <<outside, edits>>
        /\ \A b \in Bundles, root \in Roots : dirs'[b][root] = Authored => dirs[b][root] = Authored
    BY <2>1 DEF IInv, TypeOK, Kept
  <2> HIDE DEF label
  <2> QED
    BY <2>1, <2>2, <2>4, <2>5, StepKeeps
<1> QED
  BY <1>1, <1>2

\* A check settles what is written: one download for a name and for a skill, and none over
\* what exists unless the command knows of it.
LEMMA CheckedKeeps ==
  ASSUME IInv, NEW p \in Processes, pc[p] = "check",
         NEW K \in SUBSET Refs, IsFiniteSet(K), Disjoint(K),
         NEW L \in SUBSET K, NEW q \in Orders(L), NEW agreed \in SUBSET Bundles,
         \A x \in L : Exists(x.bundle) => x.bundle \in agreed \cup BundlesOf(run[p].held),
         NEW r, r = [run[p] EXCEPT !.agreed = agreed, !.todo = q], Goes(p, "write", r),
         UNCHANGED <<dirs, records, clean>>, Kept
  PROVE  IInv'
<1>2. q \in Seq(Refs) /\ ImageOf(q) \subseteq L
  BY OrderIsSequence
<1>3. Sound("check", run[p]) /\ run[p] \in Run
  BY DEF IInv, Sound
<1>4. /\ r \in Run /\ r.todo = q /\ r.written = << >> /\ r.agreed = agreed
      /\ r.held = run[p].held /\ r.drop = run[p].drop /\ r.base = run[p].base
  BY <1>2, <1>3 DEF Sound, Run
<1>5. ImageOf(r.written) = {}
  BY <1>4 DEF ImageOf
<1>6. Disjoint(Batch(r))
  BY <1>2, <1>4, <1>5 DEF Disjoint, Batch
<1>7. Sound("write", r)
  BY <1>3, <1>4, <1>6 DEF Sound
<1>8. Spares(r, dirs)
  <2> SUFFICES ASSUME NEW x \in ImageOf(q), NEW root \in Roots,
                      dirs[x.bundle][root] = Authored
               PROVE  x.bundle \in agreed \cup BundlesOf(run[p].held)
    BY <1>4 DEF Spares, Known
  <2>1. Exists(x.bundle)
    BY DEF Exists
  <2> QED
    BY <1>2, <2>1
<1>9. clean' \in BOOLEAN
  BY DEF IInv, TypeOK
<1> QED
  BY <1>7, <1>8, <1>9, GoOnKeeps DEF Labels

LEMMA CheckKeeps ==
  ASSUME IInv, NEW p \in Processes, CheckAdd(p) \/ CheckConfigure(p) \/ CheckLaunch(p)
  PROVE  IInv'
<1>1. /\ run[p] \in Run /\ run[p].want \subseteq Skill /\ run[p].held \subseteq Record
      /\ run[p].agreed \subseteq Bundles
  BY DEF IInv, TypeOK, Run
<1>2. pc[p] = "check" /\ UNCHANGED <<dirs, records, clean>> /\ Kept
  BY DEF CheckAdd, CheckConfigure, CheckLaunch
<1>3. CASE CheckAdd(p)
  <2>1. PICK K \in Winners({Ref(s) : s \in run[p].want}) :
          \E agreed \in SUBSET {b \in BundlesOf(K) : Exists(b)} :
            \E q \in Orders({x \in K : Exists(x.bundle) => x.bundle \in agreed}) :
              Goes(p, "write", [run[p] EXCEPT !.agreed = agreed, !.todo = q])
    BY <1>3 DEF CheckAdd
  <2>2. PICK agreed \in SUBSET {b \in BundlesOf(K) : Exists(b)} :
          \E q \in Orders({x \in K : Exists(x.bundle) => x.bundle \in agreed}) :
            Goes(p, "write", [run[p] EXCEPT !.agreed = agreed, !.todo = q])
    BY <2>1
  <2>3. K \in SUBSET Refs /\ IsFiniteSet(K) /\ Disjoint(K) /\ agreed \in SUBSET Bundles
    BY <1>1, WinnersDisjoint DEF IInv, BundlesOf, Refs
  <2> DEFINE L == {x \in K : Exists(x.bundle) => x.bundle \in agreed}
  <2>4. /\ L \in SUBSET K
        /\ \A x \in L : Exists(x.bundle) => x.bundle \in agreed \cup BundlesOf(run[p].held)
    OBVIOUS
  <2>5. PICK q \in Orders(L) : Goes(p, "write", [run[p] EXCEPT !.agreed = agreed, !.todo = q])
    BY <2>2
  <2> HIDE DEF L
  <2> QED
    BY <1>1, <1>2, <2>3, <2>4, <2>5, CheckedKeeps
<1>4. CASE CheckConfigure(p)
  <2>1. PICK K \in Winners({Ref(s) : s \in run[p].want}) :
          \E q \in Orders({x \in K : Missing(x)}) :
            Goes(p, "write", [run[p] EXCEPT !.todo = q])
    BY <1>4 DEF CheckConfigure
  <2>2. PICK q \in Orders({x \in K : Missing(x)}) :
          Goes(p, "write", [run[p] EXCEPT !.todo = q])
    BY <2>1
  <2> DEFINE r == [run[p] EXCEPT !.todo = q]
  <2>3. r = [run[p] EXCEPT !.agreed = run[p].agreed, !.todo = q] /\ Goes(p, "write", r)
    BY <1>1, <2>2 DEF Run
  <2> DEFINE L == {x \in K : Missing(x)}
  <2>4. /\ L \in SUBSET K
        /\ \A x \in L : Exists(x.bundle) => x.bundle \in run[p].agreed \cup BundlesOf(run[p].held)
    BY DEF Missing
  <2>5. q \in Orders(L)
    BY <2>2
  <2>6. K \in SUBSET Refs /\ IsFiniteSet(K) /\ Disjoint(K)
    BY <1>1, WinnersDisjoint DEF IInv
  <2> HIDE DEF L, r
  <2> QED
    BY <1>1, <1>2, <2>3, <2>4, <2>5, <2>6, CheckedKeeps
<1>5. CASE CheckLaunch(p)
  <2>1. PICK S \in SUBSET {r \in run[p].held \ run[p].drop : Refreshable(r)} :
          \E K \in Winners({Ref(r.fqn) : r \in S}) :
            \E q \in Orders(K) : Goes(p, "write", [run[p] EXCEPT !.todo = q])
    BY <1>5 DEF CheckLaunch
  <2>2. FqnsOf(S) \subseteq Skill /\ {Ref(r.fqn) : r \in S} = {Ref(s) : s \in FqnsOf(S)}
    BY <1>1 DEF FqnsOf, Record
  <2>3. PICK K \in Winners({Ref(s) : s \in FqnsOf(S)}) :
          \E q \in Orders(K) : Goes(p, "write", [run[p] EXCEPT !.todo = q])
    BY <2>1, <2>2
  <2>4. PICK q \in Orders(K) : Goes(p, "write", [run[p] EXCEPT !.todo = q])
    BY <2>3
  <2> DEFINE r == [run[p] EXCEPT !.todo = q]
  <2>5. r = [run[p] EXCEPT !.agreed = run[p].agreed, !.todo = q] /\ Goes(p, "write", r)
    BY <1>1, <2>4 DEF Run
  <2>6. /\ K \in SUBSET Refs /\ IsFiniteSet(K) /\ Disjoint(K)
        /\ K \in SUBSET {Ref(s) : s \in FqnsOf(S)}
    BY <2>2, WinnersDisjoint DEF IInv
  <2>7. ASSUME NEW x \in K, Exists(x.bundle)
        PROVE  x.bundle \in BundlesOf(run[p].held)
    <3>1. PICK e \in S : x = Ref(e.fqn)
      BY <2>6 DEF FqnsOf
    <3>2. name[e.fqn] = e.bundle
      BY <2>1, <2>7, <3>1 DEF Refreshable, Ref
    <3> QED
      BY <3>1, <3>2 DEF Ref, BundlesOf
  <2>8. /\ K \in SUBSET K
        /\ \A x \in K : Exists(x.bundle) => x.bundle \in run[p].agreed \cup BundlesOf(run[p].held)
    BY <2>7
  <2> HIDE DEF r
  <2> QED
    BY <1>1, <1>2, <2>4, <2>5, <2>6, <2>8, CheckedKeeps
<1> QED
  BY <1>3, <1>4, <1>5

\* A download is written where the command knows what it replaces.
LEMMA WriteKeeps ==
  ASSUME IInv, NEW p \in Processes, Write(p) \/ Skip(p)
  PROVE  IInv'
<1> DEFINE x == Head(run[p].todo)
<1>1. /\ pc[p] = "write" /\ run[p].todo # << >> /\ run[p] \in Run /\ Sound("write", run[p])
      /\ UNCHANGED <<records, outside, commands, edits>> /\ Spares(run[p], dirs)
  BY DEF Write, Skip, Kept, IInv, Sound
<1>2. /\ x \in ImageOf(run[p].todo) /\ x \in Refs /\ Tail(run[p].todo) \in Seq(Refs)
      /\ ImageOf(Tail(run[p].todo)) \subseteq ImageOf(run[p].todo)
  BY <1>1, ImageTail DEF Run
<1>3. /\ Append(run[p].written, x) \in Seq(Refs)
      /\ ImageOf(Append(run[p].written, x)) = ImageOf(run[p].written) \cup {x}
  BY <1>1, <1>2, ImageAppend DEF Run
<1>4. ASSUME NEW r, r \in {[run[p] EXCEPT !.todo = Tail(@), !.written = Append(@, x)],
                           [run[p] EXCEPT !.todo = Tail(@)]}
      PROVE  Sound("write", r) /\ Spares(r, dirs)
  <2>1. /\ r \in Run /\ r.todo = Tail(run[p].todo) /\ r.base = run[p].base
        /\ r.held = run[p].held /\ r.drop = run[p].drop /\ r.agreed = run[p].agreed
        /\ r.written \in {run[p].written, Append(run[p].written, x)}
    BY <1>1, <1>2, <1>3, <1>4 DEF Run
  <2>2. Batch(r) \subseteq Batch(run[p])
    BY <1>2, <1>3, <2>1 DEF Batch
  <2>3. Sound("write", r)
    BY <1>1, <2>1, <2>2, DisjointSubset DEF Sound
  <2>4. Spares(r, dirs)
    BY <1>1, <1>2, <2>1 DEF Spares, Known
  <2> QED
    BY <2>3, <2>4
<1>5. /\ records' \subseteq Record /\ Disjoint(records') /\ commands' \in Nat
      /\ UNCHANGED <<outside, edits>>
  BY <1>1 DEF IInv, TypeOK
<1>6. /\ dirs \in [Bundles -> [Roots -> Content]] /\ clean \in BOOLEAN /\ x.fqn \in Skill
      /\ x.bundle \in Bundles
  BY <1>2 DEF IInv, TypeOK, Refs
<1>7. CASE Write(p)
  <2>1. /\ \/ /\ \E made \in {x.fqn, None} :
                   dirs' = [dirs EXCEPT ![x.bundle] = [r \in Roots |-> made]]
              /\ emptied' = emptied \ {x.bundle}
           \/ dirs' = dirs /\ emptied' = emptied \cup {x.bundle}
        /\ Goes(p, "write", [run[p] EXCEPT !.todo = Tail(@), !.written = Append(@, x)])
        /\ UNCHANGED clean
    BY <1>7 DEF Write
  <2>2. /\ dirs' \in [Bundles -> [Roots -> Content]]
        /\ \A b \in Bundles, root \in Roots : dirs'[b][root] = Authored => dirs[b][root] = Authored
    <3>1. CASE dirs' = dirs
      BY <1>6, <3>1
    <3>2. CASE \E made \in {x.fqn, None} :
                 dirs' = [dirs EXCEPT ![x.bundle] = [r \in Roots |-> made]]
      BY <1>6, <3>2 DEF Content
    <3> QED
      BY <2>1, <3>1, <3>2
  <2>4. emptied' \subseteq Bundles
    BY <1>6, <2>1 DEF IInv, TypeOK
  <2> DEFINE r == [run[p] EXCEPT !.todo = Tail(@), !.written = Append(@, x)]
  <2>3. Sound("write", r) /\ Spares(r, dirs) /\ Goes(p, "write", r)
    BY <1>4, <2>1
  <2> HIDE DEF r, x
  <2> QED
    BY <1>5, <1>6, <2>1, <2>2, <2>3, <2>4, StepKeeps DEF Labels
<1>8. CASE Skip(p)
  <2>1. PICK done \in SUBSET Roots, cleared \in Roots \cup {None} :
          /\ dirs' = [dirs EXCEPT ![x.bundle] = [r \in Roots |->
               IF r \in done THEN x.fqn ELSE IF r = cleared THEN None ELSE @[r]]]
          /\ clean' = (clean /\ dirs' = dirs)
    BY <1>8 DEF Skip
  <2>2. /\ dirs' \in [Bundles -> [Roots -> Content]]
        /\ \A b \in Bundles, root \in Roots : dirs'[b][root] = Authored => dirs[b][root] = Authored
    BY <1>6, <2>1 DEF Content
  <2> DEFINE r == [run[p] EXCEPT !.todo = Tail(@)]
  <2>3. Sound("write", r) /\ Spares(r, dirs) /\ Goes(p, "write", r)
    BY <1>4, <1>8 DEF Skip
  <2>4. clean' \in BOOLEAN /\ emptied' \subseteq Bundles
    BY <1>8, <2>1 DEF Skip, Kept, IInv, TypeOK
  <2> HIDE DEF r, x
  <2> QED
    BY <1>5, <2>2, <2>3, <2>4, StepKeeps DEF Labels
<1> QED
  BY <1>7, <1>8

\* Every install of a batch replaces the records that it meets.
LEMMA RecordedDisjoint ==
  ASSUME IInv, NEW p \in Processes, pc[p] = "save"
  PROVE  Recorded(p, run[p].base) \subseteq Record /\ Disjoint(Recorded(p, run[p].base))
<1> DEFINE base == run[p].base
           new == {[fqn |-> x.fqn, bundle |-> x.bundle, managed |-> run[p].op = "configure"] :
                     x \in Installs(p)}
<1>1. run[p] \in Run /\ Disjoint(base) /\ Disjoint(Batch(run[p])) /\ base \subseteq Record
  BY DEF IInv, Sound, Run
<1>2. Installs(p) \subseteq Batch(run[p])
  BY DEF Installs, Batch, ImageOf
<1>3. Installs(p) \subseteq Refs
  <2>1. run[p].written \in Seq(Refs)
    BY <1>1 DEF Run
  <2>2. DOMAIN run[p].written = 1 .. Len(run[p].written)
    BY <2>1, LenProperties
  <2> QED
    BY <2>1, <2>2, ElementOfSeq DEF Installs
<1>4. Recorded(p, base) \subseteq Record
  <2>1. ASSUME NEW x \in Installs(p), NEW m \in BOOLEAN
        PROVE  [fqn |-> x.fqn, bundle |-> x.bundle, managed |-> m] \in Record
    BY <1>3, <2>1 DEF Record, Refs
  <2>2. (run[p].op = "configure") \in BOOLEAN
    OBVIOUS
  <2>3. new \subseteq Record
    BY <2>1, <2>2, Zenon
  <2> QED
    BY <1>1, <2>3, Zenon DEF Recorded
<1>5. ASSUME NEW x \in Recorded(p, base), NEW y \in Recorded(p, base), x # y
      PROVE  x.fqn # y.fqn /\ x.bundle # y.bundle
  <2>1. CASE x \in new /\ y \in new
    <3>1. PICK v \in Installs(p), w \in Installs(p) :
            /\ x = [fqn |-> v.fqn, bundle |-> v.bundle, managed |-> run[p].op = "configure"]
            /\ y = [fqn |-> w.fqn, bundle |-> w.bundle, managed |-> run[p].op = "configure"]
      BY <2>1
    <3>2. v # w
      BY <1>5, <3>1
    <3> QED
      BY <1>1, <1>2, <3>1, <3>2 DEF Disjoint
  <2>2. CASE x \notin new \/ y \notin new
    <3>1. \A v \in new : \E w \in Installs(p) : v.fqn = w.fqn /\ v.bundle = w.bundle
      OBVIOUS
    <3>2. \A v \in Recorded(p, base) \ new : v \in base /\ \A w \in Installs(p) : ~Replaces(w, v)
      BY DEF Recorded
    <3>3. \A v \in new, w \in Recorded(p, base) \ new : v.fqn # w.fqn /\ v.bundle # w.bundle
      BY <3>1, <3>2 DEF Replaces
    <3> HIDE DEF new
    <3>4. CASE x \in new \/ y \in new
      BY <2>2, <3>3, <3>4
    <3>5. CASE x \notin new /\ y \notin new
      BY <1>1, <1>5, <3>2, <3>5 DEF Disjoint
    <3> QED
      BY <3>4, <3>5
  <2> QED
    BY <2>1, <2>2
<1> QED
  BY <1>4, <1>5 DEF Disjoint

LEMMA RecordKeeps ==
  ASSUME IInv, NEW p \in Processes, Load(p) \/ Save(p) \/ Kill(p)
  PROVE  IInv'
<1>0. Spares(NoRun, dirs) /\ Sound("idle", NoRun)
  BY EmptyRunSound DEF Spares
<1>1. CASE Load(p) /\ run[p].written = << >>
  <2>1. /\ Goes(p, "idle", NoRun) /\ UNCHANGED <<dirs, records>> /\ Kept
        /\ clean' \in BOOLEAN
    BY <1>1 DEF Load, IInv, TypeOK
  <2> QED
    BY <1>0, <2>1, GoOnKeeps DEF Labels
<1>2. CASE Load(p) /\ run[p].written # << >>
  <2> PICK seen \in Readings : /\ Goes(p, "save", [run[p] EXCEPT !.base = seen])
                               /\ dirs' = Removed(Orphans(run[p].written, seen))
                               /\ clean' = (clean /\ seen = records)
    BY <1>2 DEF Load
  <2> DEFINE r == [run[p] EXCEPT !.base = seen]
  <2>1. /\ Goes(p, "save", r) /\ UNCHANGED records /\ Kept /\ clean' \in BOOLEAN
        /\ dirs' = Removed(Orphans(run[p].written, seen))
    BY <1>2 DEF Load
  <2>5. Sound("save", run[p])
    BY <1>2 DEF Load, IInv, Sound
  <2>2. Sound("save", r) /\ Spares(r, dirs)
    BY <2>5, LoadsSound
  <2>3. /\ dirs' \in [Bundles -> [Roots -> Content]]
        /\ \A b \in Bundles, root \in Roots : dirs'[b][root] = Authored => dirs[b][root] = Authored
    BY <2>1, RemovedTyped DEF IInv
  <2>4. /\ records' \subseteq Record /\ Disjoint(records') /\ clean' \in BOOLEAN
        /\ commands' \in Nat /\ emptied' \subseteq Bundles /\ UNCHANGED <<outside, edits>>
    BY <2>1 DEF IInv, TypeOK, Kept
  <2> HIDE DEF r
  <2> QED
    BY <2>1, <2>2, <2>3, <2>4, StepKeeps DEF Labels
<1>3. CASE Save(p)
  <2>1. /\ Goes(p, "idle", NoRun) /\ UNCHANGED <<dirs, clean>> /\ Kept
        /\ records' \subseteq Record /\ Disjoint(records')
    BY <1>3, RecordedDisjoint DEF Save
  <2>2. /\ dirs' \in [Bundles -> [Roots -> Content]] /\ clean' \in BOOLEAN
        /\ commands' \in Nat /\ emptied' \subseteq Bundles /\ UNCHANGED <<outside, edits>>
        /\ \A b \in Bundles, root \in Roots : dirs'[b][root] = Authored => dirs[b][root] = Authored
    BY <2>1 DEF IInv, TypeOK, Kept
  <2> QED
    BY <1>0, <2>1, <2>2, StepKeeps DEF Labels
<1>4. CASE Kill(p)
  <2>1. Goes(p, "idle", NoRun) /\ UNCHANGED <<dirs, records>> /\ Kept /\ clean' = FALSE
    BY <1>4 DEF Kill
  <2>2. /\ dirs' \in [Bundles -> [Roots -> Content]] /\ clean' \in BOOLEAN
        /\ records' \subseteq Record /\ Disjoint(records')
        /\ commands' \in Nat /\ emptied' \subseteq Bundles /\ UNCHANGED <<outside, edits>>
        /\ \A b \in Bundles, root \in Roots : dirs'[b][root] = Authored => dirs[b][root] = Authored
    BY <2>1 DEF IInv, TypeOK, Kept
  <2> QED
    BY <1>0, <2>1, <2>2, StepKeeps DEF Labels
<1> QED
  BY <1>1, <1>2, <1>3, <1>4

\* Users and administrators act when no command has anything to write.
LEMMA EditKeeps ==
  ASSUME IInv, \/ \E b \in Bundles, root \in Roots, c \in Content : Edit(b, root, c)
               \/ \E s \in Skill, b \in Bundles : Rename(s, b)
               \/ \E S \in SUBSET Skill : List(S)
  PROVE  IInv'
<1>1. /\ Quiet /\ UNCHANGED <<records, scenario, pc, run, clean, emptied, commands>>
  BY DEF Edit, Rename, List, outside
<1>2. edits' \in Nat
  BY <1>1 DEF Quiet, IInv, TypeOK
<1>3. /\ dirs' \in [Bundles -> [Roots -> Content]] /\ name' \in [Skill -> Bundles]
      /\ listed' \subseteq Skill
  <2>1. CASE \E b \in Bundles, root \in Roots, c \in Content : Edit(b, root, c)
    BY <2>1 DEF Edit, IInv, TypeOK, outside
  <2>2. CASE \E s \in Skill, b \in Bundles : Rename(s, b)
    BY <2>2 DEF Rename, IInv, TypeOK
  <2>3. CASE \E S \in SUBSET Skill : List(S)
    BY <2>3 DEF List, IInv, TypeOK
  <2> QED
    BY <2>1, <2>2, <2>3
<1>4. TypeOK'
  BY <1>1, <1>2, <1>3 DEF IInv, TypeOK
<1>5. \A p \in Processes : run'[p] = NoRun
  BY <1>1 DEF Quiet, IInv
<1>6. \A p \in Processes : Spares(run'[p], dirs')
  BY <1>5, EmptyRunSound DEF Spares
<1>7. Disjoint(records') /\ \A p \in Processes : Sound(pc'[p], run'[p])
  BY <1>1, <1>5, EmptyRunSound DEF IInv
<1> QED
  BY <1>4, <1>5, <1>6, <1>7 DEF IInv

LEMMA NextIInv == IInv /\ [Next]_vars => IInv'
<1> SUFFICES ASSUME IInv, [Next]_vars PROVE IInv'
  OBVIOUS
<1>1. CASE \E p \in Processes : Begin(p)
  BY <1>1, BeginKeeps
<1>2. CASE \E p \in Processes : Stamp(p) \/ Sweep(p) \/ Delete(p) \/ Forget(p) \/ Forgotten(p)
  BY <1>2, StampKeeps, DeleteKeeps, ForgetKeeps
<1>3. CASE \E p \in Processes : CheckAdd(p) \/ CheckConfigure(p) \/ CheckLaunch(p)
  BY <1>3, CheckKeeps
<1>4. CASE \E p \in Processes : Write(p) \/ Skip(p)
  BY <1>4, WriteKeeps
<1>5. CASE \E p \in Processes : Load(p) \/ Save(p) \/ Kill(p)
  BY <1>5, RecordKeeps
<1>6. CASE \/ \E b \in Bundles, r \in Roots, c \in Content : Edit(b, r, c)
           \/ \E s \in Skill, b \in Bundles : Rename(s, b)
           \/ \E S \in SUBSET Skill : List(S)
  BY <1>6, EditKeeps
<1>7. CASE UNCHANGED vars
  <2>1. UNCHANGED <<dirs, records, outside, pc, run, clean, emptied, commands, edits>>
    BY <1>7 DEF vars
  <2>2. TypeOK'
    BY <2>1 DEF IInv, TypeOK, outside
  <2> QED
    BY <2>1, <2>2 DEF IInv
<1> QED
  BY <1>1, <1>2, <1>3, <1>4, <1>5, <1>6, <1>7 DEF Next

THEOREM Invariance == Spec => []IInv
  BY InitIInv, NextIInv, PTL DEF Spec

-----------------------------------------------------------------------------
(* What users author. *)

\* The directories of one step that are no longer a user's.
Taken(b, r) == dirs[b][r] = Authored /\ dirs'[b][r] # Authored

Answered(b) ==
  \/ edits' # edits
  \/ \E p \in Processes : b \in run[p].agreed \cup BundlesOf(run[p].held \cup records)

LEMMA NextSpares ==
  ASSUME IInv, [Next]_vars, NEW b \in Bundles, NEW r \in Roots, Taken(b, r)
  PROVE  Answered(b)
<1> USE DEF Answered, BundlesOf
<1>0. UNCHANGED dirs => FALSE
  BY DEF Taken
<1>1. CASE \E p \in Processes : Begin(p) \/ Stamp(p) \/ Sweep(p) \/ Forget(p) \/ Forgotten(p)
  BY <1>0, <1>1
     DEF Begin, Add, RemoveSkills, Configure, Launch, Start, Stamp, Sweep, Forget, Forgotten
<1>2. CASE \E p \in Processes : CheckAdd(p) \/ CheckConfigure(p) \/ CheckLaunch(p)
  BY <1>0, <1>2 DEF CheckAdd, CheckConfigure, CheckLaunch
<1>3. CASE \E p \in Processes : Save(p) \/ Kill(p)
  BY <1>0, <1>3 DEF Save, Kill
<1>4. ASSUME NEW p \in Processes, Delete(p) PROVE Answered(b)
  <2>1. PICK stuck \in SUBSET run[p].drop : dirs' = Removed(run[p].drop \ stuck)
    BY <1>4 DEF Delete
  <2>2. b \in BundlesOf(run[p].drop)
    BY <2>1, RemovedTyped DEF Taken, IInv
  <2>3. run[p].drop \subseteq run[p].held
    BY DEF IInv, Sound
  <2> QED
    BY <2>2, <2>3
<1>5. ASSUME NEW p \in Processes, Write(p) \/ Skip(p) PROVE Answered(b)
  <2> DEFINE x == Head(run[p].todo)
  <2>1. run[p].todo # << >> /\ run[p].todo \in Seq(Refs) /\ Spares(run[p], dirs)
    BY <1>5 DEF Write, Skip, IInv, Sound, Run
  <2>2. x \in ImageOf(run[p].todo) /\ x \in Refs
    BY <2>1, ImageTail
  <2>3. \E d : dirs' = [dirs EXCEPT ![x.bundle] = d]
    BY <1>0, <1>5 DEF Write, Skip
  <2>4. b = x.bundle
    BY <2>2, <2>3 DEF Taken, IInv, TypeOK, Refs
  <2>5. b \in Known(run[p])
    BY <2>1, <2>2, <2>4 DEF Taken, Spares
  <2> QED
    BY <2>5 DEF Known
<1>6. ASSUME NEW p \in Processes, Load(p) PROVE Answered(b)
  <2>1. PICK seen \in Readings : dirs' = Removed(Orphans(run[p].written, seen))
    BY <1>0, <1>6 DEF Load
  <2>2. b \in BundlesOf(Orphans(run[p].written, seen))
    BY <2>1, RemovedTyped DEF Taken, IInv
  <2>3. seen \subseteq records
    BY ReadingsSound
  <2> QED
    BY <2>2, <2>3 DEF Orphans
<1>7. CASE \/ \E c \in Bundles, root \in Roots, d \in Content : Edit(c, root, d)
           \/ \E s \in Skill, c \in Bundles : Rename(s, c)
           \/ \E S \in SUBSET Skill : List(S)
  <2>1. edits' = edits + 1 /\ edits \in Nat
    BY <1>7 DEF Edit, Rename, List, Quiet, IInv, TypeOK
  <2> QED
    BY <2>1
<1>8. CASE UNCHANGED vars
  BY <1>0, <1>8 DEF vars
<1> QED
  BY <1>1, <1>2, <1>3, <1>4, <1>5, <1>6, <1>7, <1>8 DEF Next

-----------------------------------------------------------------------------
(* The theorems. *)

\* Every variable keeps to its domain, for any catalog, roots, commands and mishaps.
THEOREM TypeCorrect == Spec => []TypeOK
<1>1. IInv => TypeOK
  BY DEF IInv
<1> QED
  BY <1>1, Invariance, PTL

\* No two records of skills.json name one skill or one directory, whatever commands overlap,
\* fail or are killed between any two of their steps.
THEOREM RecordsDisjoint == Spec => []ClaimsDisjoint
<1>1. IInv => ClaimsDisjoint
  BY DEF IInv, Disjoint, ClaimsDisjoint
<1> QED
  BY <1>1, Invariance, PTL

\* What a user authored is replaced or deleted only where he agreed or a record names its
\* directory, for any catalog, however its bundles are renamed and however commands overlap.
THEOREM UsersSkillsSpared == Spec => AuthoredSpared
<1> DEFINE Step == \A b \in Bundles, r \in Roots : Taken(b, r) => Answered(b)
<1>1. IInv /\ [Next]_vars => [Step]_vars
  BY NextSpares
<1>2. Spec => [][Step]_vars
  BY <1>1, Invariance, PTL DEF Spec
<1>3. [Step]_vars => [\A b \in Bundles, r \in Roots :
        dirs[b][r] = Authored /\ dirs'[b][r] # Authored =>
          \/ edits' # edits
          \/ \E p \in Processes :
               b \in run[p].agreed \cup BundlesOf(run[p].held \cup records)]_vars
  BY DEF Taken, Answered
<1> QED
  BY <1>2, <1>3, PTL DEF AuthoredSpared

-----------------------------------------------------------------------------
(* Commands that run one by one to their end. *)

\* Every copy in the directories d has in R its directory, and its skill unless an empty bundle
\* was the last install under its name.
Attributed(d, R, E) ==
  \A b \in Bundles, root \in Roots : d[b][root] \notin {None, Authored} =>
    \E x \in R : x.bundle = b /\ (x.fqn = d[b][root] \/ b \in E)

Unmet(R, W) == {y \in R : \A x \in W : ~Replaces(x, y)}

\* What the only command that runs finds in the records R, the directories d and the names E
\* of empty bundles: what it is to forget is deleted before, and what it has written it has yet
\* to record.
Ordered(label, r, R, d, E) ==
  /\ label \in {"stamp", "sweep", "delete", "forget", "forgotten", "check"} => Attributed(d, R, E)
  /\ label \in {"delete", "forget", "forgotten"} => r.drop \subseteq R
  /\ label \in {"forget", "forgotten"} =>
       \A x \in r.drop, root \in Roots : d[x.bundle][root] = None
  /\ label \in {"stamp", "forgotten", "save"} => r.base = R
  /\ label = "write" =>
       /\ Attributed(d, R \cup ImageOf(r.written), E)
       /\ \A x \in ImageOf(r.written), root \in Roots :
            d[x.bundle][root] \in {None, x.fqn} \/ x.bundle \in E
  /\ label = "save" => Attributed(d, Unmet(R, ImageOf(r.written)) \cup ImageOf(r.written), E)

Serial == clean =>
  /\ \A x, y \in Processes : pc[x] # "idle" /\ pc[y] # "idle" => x = y
  /\ \A x \in Processes : Ordered(pc[x], run[x], records, dirs, emptied)
  /\ (\A x \in Processes : pc[x] = "idle") => Attributed(dirs, records, emptied)

LEMMA InitSerial == Init => Serial
<1>1. Init => Attributed(dirs, records, emptied)
  BY DEF Init, Attributed
<1> QED
  BY <1>1 DEF Init, Serial, Ordered

LEMMA AttributedMore ==
  ASSUME NEW d, NEW R, NEW S, NEW E, Attributed(d, R, E),
         \A x \in R : \E y \in S : y.fqn = x.fqn /\ y.bundle = x.bundle
  PROVE  Attributed(d, S, E)
<1> SUFFICES ASSUME NEW b \in Bundles, NEW root \in Roots, d[b][root] \notin {None, Authored}
             PROVE  \E x \in S : x.bundle = b /\ (x.fqn = d[b][root] \/ b \in E)
  BY DEF Attributed
<1>1. PICK x \in R : x.bundle = b /\ (x.fqn = d[b][root] \/ b \in E)
  BY DEF Attributed
<1> QED
  BY <1>1

\* Deleting directories leaves what is attributed elsewhere.
LEMMA AttributedRemoved ==
  ASSUME TypeOK, NEW R, NEW S, NEW E, Attributed(dirs, R, E)
  PROVE  /\ Attributed(Removed(S), R, E)
         /\ \A x \in S, root \in Roots : x.bundle \in Bundles => Removed(S)[x.bundle][root] = None
  BY DEF Attributed, Removed, BundlesOf

\* A step of a command that has begun: it goes on, or it ends and leaves every copy attributed.
LEMMA OrderKeeps ==
  ASSUME IInv, Serial, NEW p \in Processes, NEW label, NEW r, Goes(p, label, r), pc[p] # "idle",
         clean' => clean,
         clean' => IF label = "idle" THEN Attributed(dirs', records', emptied')
                   ELSE Ordered(label, r, records', dirs', emptied')
  PROVE  Serial'
<1>1. /\ pc \in [Processes -> Labels] /\ run \in [Processes -> Run]
      /\ pc' = [pc EXCEPT ![p] = label]
      /\ run' = [run EXCEPT ![p] = IF label = "idle" THEN NoRun ELSE r]
  BY DEF IInv, TypeOK, Goes
<1>2. \A q \in Processes : pc'[q] = (IF q = p THEN label ELSE pc[q])
  BY <1>1
<1>3. label # "idle" => run'[p] = r
  BY <1>1
<1>4. SUFFICES ASSUME clean'
               PROVE  /\ \A x, y \in Processes : pc'[x] # "idle" /\ pc'[y] # "idle" => x = y
                      /\ \A x \in Processes : Ordered(pc'[x], run'[x], records', dirs', emptied')
                      /\ (\A x \in Processes : pc'[x] = "idle") => Attributed(dirs', records', emptied')
  BY DEF Serial
<1>5. \A q \in Processes : q # p => pc'[q] = "idle"
  BY <1>2, <1>4 DEF Serial
<1>6. \A q \in Processes : Ordered("idle", run'[q], records', dirs', emptied')
  BY DEF Ordered
<1>7. Ordered(pc'[p], run'[p], records', dirs', emptied')
  <2>1. CASE label = "idle"
    BY <1>2, <1>6, <2>1
  <2>2. CASE label # "idle"
    BY <1>2, <1>3, <1>4, <2>2
  <2> QED
    BY <2>1, <2>2
<1>8. \A q \in Processes : Ordered(pc'[q], run'[q], records', dirs', emptied')
  <2> HIDE DEF Ordered
  <2> TAKE q \in Processes
  <2> QED
    BY <1>5, <1>6, <1>7
<1>9. (\A x \in Processes : pc'[x] = "idle") => Attributed(dirs', records', emptied')
  BY <1>2, <1>4
<1> QED
  BY <1>5, <1>8, <1>9

\* A command begins when every copy is attributed.
LEMMA StartOrder ==
  ASSUME IInv, Serial, NEW p \in Processes, NEW seen, NEW label, NEW r,
         Start(p, seen, label, r), label # "idle",
         clean' /\ seen = records /\ Attributed(dirs, records, emptied) =>
           Ordered(label, r, records, dirs, emptied)
  PROVE  Serial'
<1>1. /\ pc \in [Processes -> Labels] /\ run \in [Processes -> Run]
      /\ pc' = [pc EXCEPT ![p] = label] /\ run' = [run EXCEPT ![p] = r]
      /\ dirs' = dirs /\ records' = records /\ emptied' = emptied
      /\ clean' = (clean /\ seen = records /\ \A q \in Processes : pc[q] = "idle")
  BY DEF IInv, TypeOK, Goes, Start
<1>2. \A q \in Processes : pc'[q] = (IF q = p THEN label ELSE pc[q])
  BY <1>1
<1>3. run'[p] = r
  BY <1>1
<1>4. SUFFICES ASSUME clean'
               PROVE  /\ \A x, y \in Processes : pc'[x] # "idle" /\ pc'[y] # "idle" => x = y
                      /\ \A x \in Processes : Ordered(pc'[x], run'[x], records, dirs, emptied)
  BY <1>1, <1>2 DEF Serial
<1>5. \A q \in Processes : q # p => pc'[q] = "idle"
  BY <1>1, <1>2, <1>4
<1>6. \A q \in Processes : Ordered("idle", run'[q], records, dirs, emptied)
  BY DEF Ordered
<1>7. Ordered(label, r, records, dirs, emptied)
  BY <1>1, <1>4 DEF Serial
<1>8. \A q \in Processes : Ordered(pc'[q], run'[q], records, dirs, emptied)
  <2> HIDE DEF Ordered
  <2> TAKE q \in Processes
  <2> QED
    BY <1>2, <1>3, <1>5, <1>6, <1>7
<1> QED
  BY <1>5, <1>8

LEMMA BeginOrder ==
  ASSUME IInv, Serial, NEW p \in Processes, Begin(p)
  PROVE  Serial'
<1>1. \A R : Personal(R) \subseteq R /\ Stale(R) \subseteq R
  BY DEF Personal, Stale
<1>2. CASE "add" \in Ops /\ \E S \in SUBSET Skill : Add(p, S)
  <2> PICK S \in SUBSET Skill : Add(p, S)
    BY <1>2
  <2> DEFINE r == [NoRun EXCEPT !.op = "add", !.want = S]
  <2>1. Start(p, records, "check", r)
    BY DEF Add
  <2> HIDE DEF r
  <2>2. Attributed(dirs, records, emptied) => Ordered("check", r, records, dirs, emptied)
    BY DEF Ordered
  <2> QED
    BY <2>1, <2>2, StartOrder
<1>3. CASE "remove" \in Ops /\ \E S \in SUBSET Personal(records) : RemoveSkills(p, S)
  <2> PICK S \in SUBSET Personal(records) : RemoveSkills(p, S)
    BY <1>3
  <2> DEFINE r == [NoRun EXCEPT !.op = "remove", !.held = S, !.drop = S]
  <2>1. Start(p, records, "delete", r)
    BY DEF RemoveSkills
  <2>2. r.drop \subseteq records
    BY <1>1 DEF NoRun
  <2> HIDE DEF r
  <2>3. Attributed(dirs, records, emptied) => Ordered("delete", r, records, dirs, emptied)
    BY <2>2 DEF Ordered
  <2> QED
    BY <2>1, <2>3, StartOrder
<1>4. CASE "configure" \in Ops /\ \E readable \in BOOLEAN : Configure(p, readable)
  <2> PICK readable \in BOOLEAN, seen \in Readings :
        LET gone == IF readable THEN Stale(seen) ELSE {} IN
          Start(p, seen, IF gone = {} THEN "check" ELSE "delete",
                [NoRun EXCEPT !.op = "configure", !.held = seen, !.drop = gone,
                              !.want = IF readable THEN listed ELSE {}])
    BY <1>4 DEF Configure
  <2> DEFINE gone == IF readable THEN Stale(seen) ELSE {}
             label == IF gone = {} THEN "check" ELSE "delete"
             r == [NoRun EXCEPT !.op = "configure", !.held = seen, !.drop = gone,
                                !.want = IF readable THEN listed ELSE {}]
  <2>1. Start(p, seen, label, r)
    OBVIOUS
  <2>2. r.drop \subseteq seen /\ label \in {"check", "delete"}
    BY <1>1 DEF NoRun
  <2> HIDE DEF r, label
  <2>3. seen = records /\ Attributed(dirs, records, emptied) =>
          Ordered(label, r, records, dirs, emptied)
    BY <2>2 DEF Ordered
  <2> QED
    BY <2>1, <2>2, <2>3, StartOrder
<1>5. CASE "launch" \in Ops /\ Launch(p)
  <2> PICK seen \in Readings :
        Start(p, seen, "stamp", [NoRun EXCEPT !.op = "launch", !.base = seen])
    BY <1>5 DEF Launch
  <2> DEFINE r == [NoRun EXCEPT !.op = "launch", !.base = seen]
  <2>1. Start(p, seen, "stamp", r) /\ r.base = seen
    BY DEF NoRun
  <2> HIDE DEF r
  <2>2. seen = records /\ Attributed(dirs, records, emptied) =>
          Ordered("stamp", r, records, dirs, emptied)
    BY <2>1 DEF Ordered
  <2> QED
    BY <2>1, <2>2, StartOrder
<1> QED
  BY <1>2, <1>3, <1>4, <1>5 DEF Begin

\* What a launch writes back first is what it read.
LEMMA StampOrder ==
  ASSUME IInv, Serial, NEW p \in Processes, Stamp(p) \/ Sweep(p)
  PROVE  Serial'
<1>1. /\ pc[p] \in {"stamp", "sweep"} /\ run[p] \in Run /\ UNCHANGED <<dirs, emptied>>
  BY DEF Stamp, Sweep, Kept, IInv, Sound
<1>2. clean => Ordered(pc[p], run[p], records, dirs, emptied)
  BY DEF Serial
<1>3. CASE Stamp(p)
  <2> DEFINE r == [run[p] EXCEPT !.base = {}]
  <2>1. pc[p] = "stamp" /\ Goes(p, "sweep", r) /\ records' = run[p].base /\ clean' = clean
    BY <1>3 DEF Stamp
  <2> HIDE DEF r
  <2>2. ASSUME clean' PROVE Ordered("sweep", r, records', dirs', emptied')
    <3>1. records' = records /\ Attributed(dirs, records, emptied)
      BY <1>2, <2>1, <2>2 DEF Ordered
    <3> QED
      BY <1>1, <3>1 DEF Ordered
  <2> QED
    BY <1>1, <2>1, <2>2, OrderKeeps
<1>4. CASE Sweep(p)
  <2> PICK seen \in Readings :
        LET gone == {x \in Personal(seen) : ~Exists(x.bundle)} IN
          /\ Goes(p, IF gone = {} THEN "check" ELSE "forget",
                  [run[p] EXCEPT !.held = Personal(seen), !.drop = gone])
          /\ clean' = (clean /\ seen = records)
    BY <1>4 DEF Sweep
  <2> DEFINE gone == {x \in Personal(seen) : ~Exists(x.bundle)}
             label == IF gone = {} THEN "check" ELSE "forget"
             r == [run[p] EXCEPT !.held = Personal(seen), !.drop = gone]
  <2>1. Goes(p, label, r) /\ label \in {"check", "forget"} /\ clean' = (clean /\ seen = records)
    OBVIOUS
  <2>2. /\ r.drop \subseteq seen
        /\ \A x \in r.drop, root \in Roots : dirs[x.bundle][root] = None
    BY <1>1 DEF Run, Exists, Personal
  <2>3. pc[p] = "sweep" /\ records' = records
    BY <1>4 DEF Sweep
  <2> HIDE DEF r, label
  <2>4. ASSUME clean' PROVE Ordered(label, r, records', dirs', emptied')
    <3>1. seen = records /\ Attributed(dirs, records, emptied)
      BY <1>2, <2>1, <2>3, <2>4 DEF Ordered
    <3> QED
      BY <1>1, <2>1, <2>2, <2>3, <3>1 DEF Ordered
  <2> QED
    BY <1>1, <2>1, <2>4, OrderKeeps
<1> QED
  BY <1>3, <1>4

\* What is to be forgotten is deleted by then, so that its records are of no copy.
LEMMA ForgetOrder ==
  ASSUME IInv, Serial, NEW p \in Processes, Delete(p) \/ Forget(p) \/ Forgotten(p)
  PROVE  Serial'
<1> DEFINE r == run[p]
<1>1. /\ pc[p] \in {"delete", "forget", "forgotten"} /\ r \in Run /\ r.drop \subseteq Record
      /\ r.base \subseteq Record /\ TypeOK /\ emptied' = emptied
  BY DEF Delete, Forget, Forgotten, Kept, IInv, Sound, Run
<1>2. clean => Ordered(pc[p], r, records, dirs, emptied)
  BY DEF Serial
<1>3. CASE Delete(p)
  <2>1. PICK stuck \in SUBSET r.drop : /\ dirs' = Removed(r.drop \ stuck)
                                       /\ clean' = (clean /\ stuck = {})
    BY <1>3 DEF Delete
  <2>2. pc[p] = "delete" /\ Goes(p, "forget", r) /\ records' = records
    BY <1>3 DEF Delete
  <2>3. ASSUME clean' PROVE Ordered("forget", r, records', dirs', emptied')
    <3>1. dirs' = Removed(r.drop) /\ Ordered("delete", r, records, dirs, emptied)
      BY <1>2, <2>1, <2>2, <2>3
    <3>2. Attributed(dirs, records, emptied) /\ r.drop \subseteq records
      BY <3>1 DEF Ordered
    <3>3. \A x \in r.drop : x.bundle \in Bundles
      BY <1>1 DEF Record
    <3>4. /\ Attributed(dirs', records, emptied)
          /\ \A x \in r.drop, root \in Roots : dirs'[x.bundle][root] = None
      BY <1>1, <3>1, <3>2, <3>3, AttributedRemoved
    <3> QED
      BY <1>1, <2>2, <3>2, <3>4 DEF Ordered
  <2> QED
    BY <2>1, <2>2, <2>3, OrderKeeps
<1>4. CASE Forget(p)
  <2> PICK seen \in Readings : /\ Goes(p, "forgotten", [run[p] EXCEPT !.base = seen])
                               /\ clean' = (clean /\ seen = records)
    BY <1>4 DEF Forget
  <2> DEFINE n == [r EXCEPT !.base = seen]
  <2>1. /\ pc[p] = "forget" /\ Goes(p, "forgotten", n) /\ UNCHANGED <<dirs, records>>
        /\ clean' = (clean /\ seen = records)
    BY <1>4 DEF Forget
  <2>2. n.drop = r.drop /\ n.base = seen
    BY <1>1 DEF Run
  <2> HIDE DEF n, r
  <2>3. ASSUME clean' PROVE Ordered("forgotten", n, records', dirs', emptied')
    BY <1>1, <1>2, <2>1, <2>2, <2>3 DEF Ordered
  <2> QED
    BY <2>1, <2>3, OrderKeeps
<1>5. CASE Forgotten(p)
  <2> DEFINE label == IF r.op = "remove" THEN "idle" ELSE "check"
  <2>1. /\ pc[p] = "forgotten" /\ Goes(p, label, r) /\ UNCHANGED <<dirs, clean>>
        /\ records' = {x \in r.base : x.fqn \notin FqnsOf(r.drop)}
    BY <1>5 DEF Forgotten
  <2>2. ASSUME clean' PROVE Attributed(dirs', records', emptied')
    <3>1. /\ Attributed(dirs, records, emptied) /\ r.drop \subseteq records /\ r.base = records
          /\ \A x \in r.drop, root \in Roots : dirs[x.bundle][root] = None
      BY <1>2, <2>1, <2>2 DEF Ordered
    <3> SUFFICES ASSUME NEW b \in Bundles, NEW root \in Roots, dirs[b][root] \notin {None, Authored}
                 PROVE  \E x \in records' :
                          x.bundle = b /\ (x.fqn = dirs[b][root] \/ b \in emptied)
      BY <1>1, <2>1 DEF Attributed
    <3>2. PICK x \in records : x.bundle = b /\ (x.fqn = dirs[b][root] \/ b \in emptied)
      BY <3>1 DEF Attributed
    <3>3. ASSUME NEW y \in r.drop, y.fqn = x.fqn PROVE FALSE
      <4>1. y = x
        BY <3>1, <3>3 DEF IInv, Disjoint
      <4> QED
        BY <3>1, <3>2, <4>1
    <3> QED
      BY <2>1, <3>1, <3>2, <3>3 DEF FqnsOf
  <2>3. clean' => IF label = "idle" THEN Attributed(dirs', records', emptied')
                  ELSE Ordered(label, r, records', dirs', emptied')
    BY <2>2 DEF Ordered
  <2> HIDE DEF label
  <2> QED
    BY <2>1, <2>3, OrderKeeps
<1> QED
  BY <1>3, <1>4, <1>5

\* Nothing is written yet when a command has checked.
LEMMA CheckOrder ==
  ASSUME IInv, Serial, NEW p \in Processes, CheckAdd(p) \/ CheckConfigure(p) \/ CheckLaunch(p)
  PROVE  Serial'
<1>1. /\ pc[p] = "check" /\ UNCHANGED <<dirs, records, clean, emptied>> /\ run[p] \in Run
      /\ run[p].written = << >>
  BY DEF CheckAdd, CheckConfigure, CheckLaunch, Kept, IInv, Sound
<1>2. PICK agreed, q : Goes(p, "write", [run[p] EXCEPT !.agreed = agreed, !.todo = q])
  <2>1. CASE CheckAdd(p)
    BY <2>1 DEF CheckAdd
  <2>2. ASSUME NEW q, Goes(p, "write", [run[p] EXCEPT !.todo = q])
        PROVE  \E a, x : Goes(p, "write", [run[p] EXCEPT !.agreed = a, !.todo = x])
    <3>1. [run[p] EXCEPT !.todo = q] = [run[p] EXCEPT !.agreed = run[p].agreed, !.todo = q]
      BY <1>1 DEF Run
    <3> QED
      BY <2>2, <3>1
  <2>3. CASE CheckConfigure(p)
    BY <2>2, <2>3 DEF CheckConfigure
  <2>4. CASE CheckLaunch(p)
    BY <2>2, <2>4 DEF CheckLaunch
  <2> QED
    BY <2>1, <2>3, <2>4
<1> DEFINE r == [run[p] EXCEPT !.agreed = agreed, !.todo = q]
<1>3. r.written = << >>
  BY <1>1 DEF Run
<1> HIDE DEF r
<1>4. ImageOf(r.written) = {}
  BY <1>3 DEF ImageOf
<1>5. ASSUME clean' PROVE Ordered("write", r, records', dirs', emptied')
  <2>1. Ordered("check", run[p], records, dirs, emptied)
    BY <1>1, <1>5 DEF Serial
  <2>2. Attributed(dirs, records \cup ImageOf(r.written), emptied)
    BY <1>4, <2>1 DEF Ordered
  <2> QED
    BY <1>1, <1>4, <2>2 DEF Ordered
<1> QED
  BY <1>1, <1>2, <1>5, OrderKeeps DEF r

\* A download fills its directory, which no other of its batch has.
LEMMA WriteOrder ==
  ASSUME IInv, Serial, NEW p \in Processes, Write(p) \/ Skip(p)
  PROVE  Serial'
<1> DEFINE r == run[p]
           x == Head(r.todo)
<1>1. /\ pc[p] = "write" /\ r.todo # << >> /\ r \in Run /\ records' = records
      /\ Disjoint(Batch(r)) /\ dirs \in [Bundles -> [Roots -> Content]]
  BY DEF Write, Skip, IInv, Sound, TypeOK
<1>2. x \in ImageOf(r.todo) /\ x \in Refs
  BY <1>1, ImageTail DEF Run
<1>3. /\ Append(r.written, x) \in Seq(Refs)
      /\ ImageOf(Append(r.written, x)) = ImageOf(r.written) \cup {x}
  BY <1>1, <1>2, ImageAppend DEF Run
<1>4. clean => /\ Attributed(dirs, records \cup ImageOf(r.written), emptied)
               /\ \A y \in ImageOf(r.written), root \in Roots :
                    dirs[y.bundle][root] \in {None, y.fqn} \/ y.bundle \in emptied
  BY <1>1 DEF Serial, Ordered
<1>5. CASE Write(p)
  <2> DEFINE n == [r EXCEPT !.todo = Tail(@), !.written = Append(@, x)]
  <2>1. clean' = clean /\ Goes(p, "write", n)
    BY <1>5 DEF Write
  <2>2. n.written = Append(r.written, x)
    BY <1>1 DEF Run
  <2>3. x.bundle \in Bundles
    BY <1>2 DEF Refs
  <2>4. /\ \A root \in Roots : dirs'[x.bundle][root] \in {None, x.fqn} \/ x.bundle \in emptied'
        /\ \A b \in Bundles : b # x.bundle => dirs'[b] = dirs[b] /\ (b \in emptied <=> b \in emptied')
    <3>1. \/ /\ \E made \in {x.fqn, None} : dirs' = [dirs EXCEPT ![x.bundle] = [q \in Roots |-> made]]
             /\ emptied' = emptied \ {x.bundle}
          \/ dirs' = dirs /\ emptied' = emptied \cup {x.bundle}
      BY <1>5 DEF Write
    <3> QED
      BY <1>1, <2>3, <3>1
  <2>5. \A y \in ImageOf(r.written) : y # x => y.bundle # x.bundle
    BY <1>1, <1>2 DEF Disjoint, Batch
  <2>6. \A y \in ImageOf(r.written) : y.bundle \in Bundles
    <3>1. r.written \in Seq(Refs)
      BY <1>1 DEF Run
    <3>2. DOMAIN r.written = 1 .. Len(r.written)
      BY <3>1, LenProperties
    <3>3. \A y \in ImageOf(r.written) : y \in Refs
      BY <3>1, <3>2, ElementOfSeq DEF ImageOf
    <3> QED
      BY <3>3 DEF Refs
  <2> HIDE DEF n, r, x
  <2>7. ASSUME clean' PROVE Ordered("write", n, records', dirs', emptied')
    <3>1. \A y \in ImageOf(n.written), root \in Roots :
            dirs'[y.bundle][root] \in {None, y.fqn} \/ y.bundle \in emptied'
      BY <1>3, <1>4, <2>1, <2>2, <2>4, <2>5, <2>6, <2>7
    <3>2. Attributed(dirs', records \cup ImageOf(n.written), emptied')
      <4> SUFFICES ASSUME NEW b \in Bundles, NEW root \in Roots,
                          dirs'[b][root] \notin {None, Authored}
                   PROVE  \E y \in records \cup ImageOf(n.written) :
                            y.bundle = b /\ (y.fqn = dirs'[b][root] \/ b \in emptied')
        BY DEF Attributed
      <4>1. CASE b = x.bundle
        BY <1>3, <2>2, <2>4, <4>1
      <4>2. CASE b # x.bundle
        <5>1. dirs'[b] = dirs[b] /\ (b \in emptied <=> b \in emptied')
          BY <2>4, <4>2
        <5>2. PICK y \in records \cup ImageOf(r.written) :
                y.bundle = b /\ (y.fqn = dirs[b][root] \/ b \in emptied)
          BY <1>4, <2>1, <2>7, <5>1 DEF Attributed
        <5> QED
          BY <1>3, <2>2, <5>1, <5>2
      <4> QED
        BY <4>1, <4>2
    <3> QED
      BY <1>1, <3>1, <3>2 DEF Ordered
  <2> QED
    BY <1>1, <2>1, <2>7, OrderKeeps
<1>6. CASE Skip(p)
  <2> DEFINE n == [r EXCEPT !.todo = Tail(@)]
  <2>1. Goes(p, "write", n) /\ clean' = (clean /\ dirs' = dirs) /\ emptied' = emptied
    BY <1>6 DEF Skip, Kept
  <2>2. n.written = r.written
    BY <1>1 DEF Run
  <2> HIDE DEF n, r, x
  <2>3. ASSUME clean' PROVE Ordered("write", n, records', dirs', emptied')
    BY <1>1, <1>4, <2>1, <2>2, <2>3 DEF Ordered
  <2> QED
    BY <1>1, <2>1, <2>3, OrderKeeps
<1> QED
  BY <1>5, <1>6

\* A record that an install replaces is of directories that are deleted, or written again.
LEMMA LoadOrder ==
  ASSUME IInv, Serial, NEW p \in Processes, Load(p)
  PROVE  Serial'
<1> DEFINE r == run[p]
           W == ImageOf(r.written)
<1>1. pc[p] = "write" /\ UNCHANGED <<records, emptied>> /\ r \in Run /\ TypeOK
  BY DEF Load, Kept, IInv, Sound
<1>2. ASSUME clean
      PROVE  /\ Attributed(dirs, records \cup W, emptied)
             /\ \A x \in W, root \in Roots :
                  dirs[x.bundle][root] \in {None, x.fqn} \/ x.bundle \in emptied
  BY <1>1, <1>2 DEF Serial, Ordered
<1>3. CASE r.written = << >>
  <2>1. Goes(p, "idle", NoRun) /\ UNCHANGED <<dirs, clean>>
    BY <1>3 DEF Load
  <2>2. W = {}
    BY <1>3 DEF ImageOf
  <2>3. clean' => Attributed(dirs', records', emptied')
    BY <1>1, <1>2, <2>1, <2>2
  <2> QED
    BY <1>1, <2>1, <2>3, OrderKeeps
<1>4. CASE r.written # << >>
  <2> PICK seen \in Readings : /\ Goes(p, "save", [r EXCEPT !.base = seen])
                               /\ dirs' = Removed(Orphans(r.written, seen))
                               /\ clean' = (clean /\ seen = records)
    BY <1>4 DEF Load
  <2> DEFINE n == [r EXCEPT !.base = seen]
  <2>1. /\ Goes(p, "save", n) /\ clean' = (clean /\ seen = records)
        /\ clean' => dirs' = Removed(Orphans(r.written, records))
    OBVIOUS
  <2>2. n.base = seen /\ n.written = r.written
    BY <1>1 DEF Run
  <2>3. r.written \in Seq(Refs) /\ DOMAIN r.written = 1 .. Len(r.written) /\ Len(r.written) \in Nat
    BY <1>1, LenProperties DEF Run
  <2>4. ASSUME clean' PROVE Attributed(dirs', Unmet(records, W) \cup W, emptied)
    <3> SUFFICES ASSUME NEW b \in Bundles, NEW root \in Roots, dirs'[b][root] \notin {None, Authored}
                 PROVE  \E x \in Unmet(records, W) \cup W :
                          x.bundle = b /\ (x.fqn = dirs'[b][root] \/ b \in emptied)
      BY DEF Attributed
    <3>1. b \notin BundlesOf(Orphans(r.written, records)) /\ dirs'[b][root] = dirs[b][root]
      BY <2>1, <2>4 DEF Removed
    <3>2. PICK y \in records \cup W : y.bundle = b /\ (y.fqn = dirs[b][root] \/ b \in emptied)
      BY <1>2, <2>1, <2>4, <3>1 DEF Attributed
    <3>3. CASE y \in W \/ y \in Unmet(records, W)
      BY <3>1, <3>2, <3>3
    <3>4. ASSUME NEW x \in W, x.bundle = b
          PROVE  \E z \in W : z.bundle = b /\ (z.fqn = dirs[b][root] \/ b \in emptied)
      BY <1>2, <2>1, <2>4, <3>1, <3>4
    <3>5. CASE y \in records /\ y \notin Unmet(records, W)
      <4>1. PICK i \in DOMAIN r.written : Replaces(r.written[i], y)
        BY <3>5 DEF Unmet, ImageOf
      <4>2. CASE r.written[i].bundle = y.bundle
        BY <3>1, <3>2, <3>4, <4>2 DEF ImageOf
      <4>3. CASE r.written[i].bundle # y.bundle
        <5>1. r.written[i].fqn = y.fqn /\ y \notin Orphans(r.written, records)
          BY <3>1, <3>2, <4>1, <4>3 DEF Replaces, BundlesOf
        <5>2. PICK j \in 1 .. i - 1 : r.written[j].bundle = y.bundle
          BY <3>5, <4>3, <5>1 DEF Orphans
        <5>3. j \in DOMAIN r.written
          BY <2>3
        <5> QED
          BY <3>1, <3>2, <3>4, <5>2, <5>3 DEF ImageOf
      <4> QED
        BY <4>2, <4>3
    <3> QED
      BY <3>2, <3>3, <3>5
  <2> HIDE DEF n, r
  <2>5. ASSUME clean' PROVE Ordered("save", n, records', dirs', emptied')
    BY <1>1, <2>1, <2>2, <2>4, <2>5 DEF Ordered
  <2> QED
    BY <1>1, <2>1, <2>5, OrderKeeps
<1> QED
  BY <1>3, <1>4

\* What is saved are the records that no install met, and one for each install.
LEMMA SaveOrder ==
  ASSUME IInv, Serial, NEW p \in Processes, Save(p)
  PROVE  Serial'
<1> DEFINE W == ImageOf(run[p].written)
<1>1. /\ pc[p] = "save" /\ Goes(p, "idle", NoRun) /\ UNCHANGED <<dirs, clean, emptied>>
      /\ records' = Recorded(p, run[p].base)
  BY DEF Save, Kept
<1>2. Installs(p) = W
  BY DEF Installs, ImageOf
<1>3. ASSUME clean' PROVE Attributed(dirs', records', emptied')
  <2>1. /\ run[p].base = records
        /\ Attributed(dirs, Unmet(records, W) \cup W, emptied)
    BY <1>1, <1>3 DEF Serial, Ordered
  <2>2. Unmet(records, W) \subseteq records'
    BY <1>1, <1>2, <2>1 DEF Recorded, Unmet
  <2>3. \A x \in W : \E y \in records' : y.fqn = x.fqn /\ y.bundle = x.bundle
    <3> TAKE x \in W
    <3> DEFINE y == [fqn |-> x.fqn, bundle |-> x.bundle, managed |-> run[p].op = "configure"]
    <3>1. y \in records'
      BY <1>1, <1>2, Zenon DEF Recorded
    <3>2. y.fqn = x.fqn /\ y.bundle = x.bundle
      OBVIOUS
    <3> QED
      BY <3>1, <3>2, Zenon
  <2> HIDE DEF W
  <2>4. \A x \in Unmet(records, W) \cup W : \E y \in records' : y.fqn = x.fqn /\ y.bundle = x.bundle
    BY <2>2, <2>3
  <2> QED
    BY <1>1, <2>1, <2>4, AttributedMore
<1> QED
  BY <1>1, <1>3, OrderKeeps

LEMMA KillOrder ==
  ASSUME NEW p \in Processes, Kill(p)
  PROVE  Serial'
  BY DEF Kill, Serial

\* Users make no copies, and act when no command runs.
LEMMA EditOrder ==
  ASSUME IInv, Serial,
         \/ \E b \in Bundles, root \in Roots, c \in Content : Edit(b, root, c)
         \/ \E s \in Skill, b \in Bundles : Rename(s, b)
         \/ \E S \in SUBSET Skill : List(S)
  PROVE  Serial'
<1>1. /\ UNCHANGED <<records, pc, run, clean, emptied>> /\ \A p \in Processes : pc[p] = "idle"
      /\ dirs \in [Bundles -> [Roots -> Content]]
  BY DEF Edit, Rename, List, Quiet, IInv, TypeOK
<1>2. \A b \in Bundles, root \in Roots :
        dirs'[b][root] \notin {None, Authored} => dirs'[b][root] = dirs[b][root]
  <2>1. CASE \E b \in Bundles, root \in Roots, c \in Content : Edit(b, root, c)
    BY <1>1, <2>1 DEF Edit
  <2>2. CASE UNCHANGED dirs
    BY <2>2
  <2> QED
    BY <2>1, <2>2 DEF Rename, List
<1>3. Attributed(dirs, records, emptied) => Attributed(dirs', records, emptied)
  BY <1>2 DEF Attributed
<1> QED
  BY <1>1, <1>3 DEF Serial, Ordered

LEMMA NextSerial == IInv /\ Serial /\ [Next]_vars => Serial'
<1> SUFFICES ASSUME IInv, Serial, [Next]_vars PROVE Serial'
  OBVIOUS
<1>1. CASE \E p \in Processes : Begin(p)
  BY <1>1, BeginOrder
<1>2. CASE \E p \in Processes : Stamp(p) \/ Sweep(p) \/ Delete(p) \/ Forget(p) \/ Forgotten(p)
  BY <1>2, StampOrder, ForgetOrder
<1>3. CASE \E p \in Processes : CheckAdd(p) \/ CheckConfigure(p) \/ CheckLaunch(p)
  BY <1>3, CheckOrder
<1>4. CASE \E p \in Processes : Write(p) \/ Skip(p)
  BY <1>4, WriteOrder
<1>5. CASE \E p \in Processes : Load(p) \/ Save(p) \/ Kill(p)
  BY <1>5, LoadOrder, SaveOrder, KillOrder
<1>6. CASE \/ \E b \in Bundles, r \in Roots, c \in Content : Edit(b, r, c)
           \/ \E s \in Skill, b \in Bundles : Rename(s, b)
           \/ \E S \in SUBSET Skill : List(S)
  BY <1>6, EditOrder
<1>7. CASE UNCHANGED vars
  BY <1>7 DEF vars, Serial, Ordered, Attributed
<1> QED
  BY <1>1, <1>2, <1>3, <1>4, <1>5, <1>6, <1>7 DEF Next

\* As long as commands run one by one to their end, every copy that ug wrote lies in a directory
\* that a record names, and that record is of its skill unless a bundle without files was the
\* last install under the name; for any catalog and roots, and however bundles are renamed or
\* emptied and users edit between commands.
THEOREM CopiesRecorded == Spec => []CopiesAttributed
<1>1. Serial => CopiesAttributed
  BY DEF Serial, Attributed, CopiesAttributed
<1> QED
  BY <1>1, InitSerial, NextSerial, Invariance, PTL DEF Spec
=============================================================================
