-------------------------- MODULE AgentConfigProofs -------------------------
(***************************************************************************)
(* Safety properties of AgentConfig for every number of workspaces,        *)
(* agents, commands and kills, and with whichever policies.                *)
(*                                                                         *)
(* That no administrator's source is ever saved rests on the copies: a     *)
(* state that a writer gets either carries the developer's own sources     *)
(* beside the layered ones, or has no other.  That the first revert gives  *)
(* a user's file back rests on what it means to be managed: until a revert *)
(* has restored an agent, whoever manages or is writing its file, on disk  *)
(* or in memory, does so with the user's file in the backup.               *)
(*                                                                         *)
(* That a block loses nothing and that an agent starts with the source it  *)
(* should have are about commands that run one at a time (Serial): what    *)
(* such a command holds in memory is then what a save would put where it   *)
(* is already, but for what the command adds.                              *)
(***************************************************************************)
EXTENDS AgentConfig, TLAPS

USE ConstantsAssumption

-----------------------------------------------------------------------------
(* The inductive invariant. *)

Own == OwnSources \cup {None}
OwnMaps == [Tools -> Own]

Writing == {"look", "copy", "write", "mark"}

\* A state in memory never holds an administrator's source that a save would keep.
Clean(m) == m \in States /\ Persisted(m).source \in OwnMaps

\* What a command holds, at each of its steps.
Sound(l, r) ==
  /\ r \in Runs
  /\ Clean(r.mem) /\ ~r.mem.layered /\ Clean(r.work)
  /\ l \in {"gate", "load", "shared"} => r.provider \in Own
  /\ l \in Writing => r.work.layered \/ r.provider \in Own
  /\ l \in {"gate", "load", "ensure"} => r.kind = "launch"
  /\ l = "shared" => r.kind \in {"configure", "launch"}
  /\ r.kind = "configure" \/ l \in {"gate", "load", "shared", "policy", "next"}
       => r.mem.ws \in Workspaces
  /\ l \in Writing \cup {"list", "started"} => r.work.ws \in Workspaces
  /\ r.kind = "launch" \/ l \in Writing \cup {"started"} => r.tool \in Tools
  /\ l = "list" => r.setup \/ r.kind = "configure"
  /\ (r.setup => r.kind = "launch") /\ (l = "started" => ~r.setup)
  /\ l \in Writing /\ r.kind = "configure" /\ ~Governs(r) => ~r.work.layered

\* The agents whose files a command takes for managed, or is about to.
Manages(l, r) ==
  r.mem.block.managed \cup r.work.block.managed
    \cup (IF l \in {"write", "mark"} THEN {r.tool} ELSE {})

Copies(p, t) == pc[p] = "copy" /\ run[p].tool = t

Backed(t) == backup[t] = UsersOwn /\ \A p \in Processes : ~Copies(p, t)

Unbacked(t) ==
  /\ backup[t] = NoFile /\ file[t] = UsersOwn
  /\ \A w \in Workspaces : t \notin block[w].managed
  /\ \A p \in Processes : t \notin Manages(pc[p], run[p])
  /\ \A p, q \in Processes : Copies(p, t) /\ Copies(q, t) => p = q

IInv ==
  /\ TypeOK
  /\ \A w \in Workspaces : block[w].source \in OwnMaps
  /\ \A p \in Processes : Sound(pc[p], run[p])
  /\ \A t \in theirs \ (touched \cup raced) : Backed(t) \/ Unbacked(t)

-----------------------------------------------------------------------------
(* Lemmas about states and files. *)

LEMMA EmptyFacts ==
  /\ Empty \in Blocks /\ Empty.source \in OwnMaps /\ Empty.managed = {}
  /\ NoState \in States /\ NoState.block = Empty /\ ~NoState.layered
  /\ \A l \in Labels : l \in {"idle", "restore"} => Sound(l, NoRun) /\ Manages(l, NoRun) = {}
<1>1. Empty \in Blocks /\ Empty.source \in OwnMaps /\ Empty.managed = {}
  BY DEF Empty, Blocks, Sources, OwnMaps, Own
<1>2. /\ NoState \in States /\ NoState.block = Empty /\ ~NoState.layered
      /\ NoState.ws = None
  BY <1>1 DEF NoState, States, OwnMaps, Own, Sources, Blocks
<1>3. Clean(NoState)
  BY <1>1, <1>2 DEF Clean, Persisted
<1>4. NoRun \in Runs
  BY <1>2 DEF NoRun, Runs, Sources
<1> QED
  BY <1>1, <1>2, <1>3, <1>4 DEF Sound, Manages, NoRun, Writing

LEMMA FileFacts == NoFile \in Files /\ UsersOwn \in Files /\ NoFile # UsersOwn
  /\ \A w \in Workspaces, s \in Sources : Generated(w, s) \in Files
  BY DEF NoFile, UsersOwn, Generated, Files, Sources

LEMMA PersistedFacts ==
  ASSUME NEW m, Clean(m)
  PROVE  /\ Persisted(m) \in Blocks /\ Persisted(m).source \in OwnMaps
         /\ Persisted(m).managed = m.block.managed
  BY DEF Clean, Persisted, States, Blocks

LEMMA LoadedFacts ==
  ASSUME IInv
  PROVE  /\ Clean(Loaded) /\ ~Loaded.layered /\ Loaded.ws = current
         /\ Loaded.block.source \in OwnMaps
         /\ \A t \in Loaded.block.managed : \E w \in Workspaces : t \in block[w].managed
         /\ \A w \in Workspaces \cup {None} :
              LET m == [Loaded EXCEPT !.ws = w] IN
                Clean(m) /\ ~m.layered /\ m.ws = w /\ m.block = Loaded.block
<1> DEFINE b == IF current = None THEN Empty ELSE block[current]
<1>1. b \in Blocks /\ b.source \in OwnMaps
  BY EmptyFacts DEF IInv, TypeOK
<1> HIDE DEF b
<1>2. Loaded = [NoState EXCEPT !.ws = current, !.block = b]
  BY DEF Loaded, b
<1>3. Loaded \in States /\ Loaded.ws = current /\ Loaded.block = b /\ ~Loaded.layered
  BY <1>1, <1>2, EmptyFacts DEF IInv, TypeOK, States, Blocks
<1>4. \A t \in b.managed : \E w \in Workspaces : t \in block[w].managed
  BY EmptyFacts DEF IInv, TypeOK, b
<1> QED
  BY <1>1, <1>2, <1>3, <1>4 DEF Clean, Persisted, States

LEMMA ResolveFacts ==
  ASSUME NEW m, Clean(m), ~m.layered, NEW policy \in Policies, NEW t \in Tools
  PROVE  LET x == Resolve(policy, m, t) IN
           /\ Clean(x) /\ x.ws = m.ws /\ x.block.managed = m.block.managed
           /\ x.layered \/ x.block.source[t] \in Own
           /\ policy.source # None => x.layered
<1>1. m \in States /\ m.block.source \in OwnMaps /\ m.block \in Blocks
  BY DEF Clean, Persisted, States
<1>2. policy.source \in AdminSources \cup {None} /\ policy.source \in Sources
  BY DEF Sources
<1>3. CASE policy.source = None
  BY <1>1, <1>3 DEF Resolve, OwnMaps
<1>4. CASE policy.source # None
  <2>1. policy.source # m.block.source[t]
    BY <1>1, <1>2, <1>4 DEF OwnMaps, Own
  <2> DEFINE x == [m EXCEPT !.layered = TRUE, !.own = m.block.source,
                            !.block.source[t] = policy.source]
  <2>2. Resolve(policy, m, t) = x
    BY <1>4, <2>1 DEF Resolve
  <2>3. x \in States /\ x.layered /\ x.own = m.block.source /\ x.ws = m.ws
        /\ x.block.managed = m.block.managed
    BY <1>1, <1>2 DEF States, Blocks
  <2>4. Persisted(x).source = m.block.source
    BY <2>3 DEF Persisted, States, Blocks
  <2> QED
    BY <1>1, <2>2, <2>3, <2>4 DEF Clean
<1> QED
  BY <1>3, <1>4

LEMMA MarkedFacts ==
  ASSUME NEW r \in Runs, Clean(r.work), r.tool \in Tools, r.work.layered \/ r.provider \in Own
  PROVE  LET m == Marked(r) IN
           /\ Clean(m) /\ m.ws = r.work.ws /\ m.layered = r.work.layered
           /\ m.block.managed = r.work.block.managed \cup {r.tool}
<1>1. r.work \in States /\ r.work.block \in Blocks /\ r.provider \in Sources
  BY DEF Runs, States
<1> DEFINE b == [r.work.block EXCEPT !.managed = @ \cup {r.tool}]
           c == IF r.tool \in Refreshing /\ r.provider # None
                  THEN [b EXCEPT !.source[r.tool] = r.provider] ELSE b
<1>2. b \in Blocks /\ b.managed = r.work.block.managed \cup {r.tool}
      /\ b.source = r.work.block.source
  BY <1>1 DEF Blocks
<1> HIDE DEF b
<1>3. c \in Blocks /\ c.managed = r.work.block.managed \cup {r.tool}
  BY <1>1, <1>2 DEF Blocks
<1>4. ~r.work.layered => c.source \in OwnMaps
  BY <1>1, <1>2 DEF Clean, Persisted, OwnMaps, Blocks
<1> HIDE DEF c
<1>5. Marked(r) = [r.work EXCEPT !.block = c]
  BY DEF Marked, b, c
<1>6. /\ Marked(r) \in States /\ Marked(r).ws = r.work.ws /\ Marked(r).layered = r.work.layered
      /\ Marked(r).block = c /\ Marked(r).own = r.work.own
  BY <1>1, <1>3, <1>5 DEF States
<1>7. Persisted(Marked(r)).source \in OwnMaps
  BY <1>1, <1>3, <1>4, <1>6 DEF Clean, Persisted, States, Blocks
<1> QED
  BY <1>3, <1>6, <1>7 DEF Clean

\* A list of available agents changes neither sources nor records.
LEMMA ListedFacts ==
  ASSUME NEW m, Clean(m), NEW A \in SUBSET Tools
  PROVE  LET x == [m EXCEPT !.block.available = A] IN
           /\ Clean(x) /\ x.ws = m.ws /\ x.layered = m.layered
           /\ x.block.managed = m.block.managed /\ x.block.available = A
  BY DEF Clean, Persisted, States, Blocks

-----------------------------------------------------------------------------
(* Steps. *)

\* The agents that a command may add to a record.
Known(p, t) ==
  t \in Manages(pc[p], run[p]) \/ \E w \in Workspaces : t \in block[w].managed

\* A step that touches no agent's file and copies none keeps the invariant, if what it saves and
\* holds is sound and takes no further agent for managed.
LEMMA StepKeeps ==
  ASSUME IInv, NEW p \in Processes, NEW l \in Labels, NEW r, Go(p, l, r), Sound(l, r),
         UNCHANGED files, UNCHANGED <<theirs, touched, raced>>, l # "copy",
         \A t \in Manages(l, r) : Known(p, t),
         current' \in Workspaces \cup {None}, block' \in [Workspaces -> Blocks],
         \A w \in Workspaces : block'[w].source \in OwnMaps,
         \A w \in Workspaces : \A t \in block'[w].managed : Known(p, t),
         scenario' = scenario, begun' \in Nat, kills' \in Nat, overlapped' \in BOOLEAN
  PROVE  IInv'
<1>1. /\ pc \in [Processes -> Labels] /\ run \in [Processes -> Runs] /\ r \in Runs
      /\ pc' = [pc EXCEPT ![p] = l] /\ run' = [run EXCEPT ![p] = r]
  BY DEF IInv, TypeOK, Go, Sound
<1>2. \A q \in Processes : /\ pc'[q] = (IF q = p THEN l ELSE pc[q])
                           /\ run'[q] = (IF q = p THEN r ELSE run[q])
  BY <1>1
<1>3. TypeOK'
  BY <1>1 DEF IInv, TypeOK, files
<1>4. \A q \in Processes : Sound(pc'[q], run'[q])
  BY <1>2 DEF IInv
<1>5. ASSUME NEW t \in theirs \ (touched \cup raced) PROVE Backed(t)' \/ Unbacked(t)'
  <2>1. \A q \in Processes : Copies(q, t)' => Copies(q, t)
    BY <1>2 DEF Copies
  <2>2. CASE Backed(t)
    BY <2>1, <2>2 DEF Backed, files
  <2>3. CASE Unbacked(t)
    <3>1. ~Known(p, t)
      BY <2>3 DEF Unbacked, Known
    <3>2. \A q \in Processes : t \notin Manages(pc'[q], run'[q])
      BY <1>2, <2>3, <3>1 DEF Unbacked
    <3>3. \A w \in Workspaces : t \notin block'[w].managed
      BY <3>1
    <3> QED
      BY <2>1, <2>3, <3>2, <3>3 DEF Unbacked, files
  <2> QED
    BY <1>5, <2>2, <2>3 DEF IInv
<1> QED
  BY <1>3, <1>4, <1>5 DEF IInv

\* What a command knows when it saves nothing, and when it saves a state of its own.
LEMMA QuietKeeps ==
  ASSUME IInv, NEW p \in Processes, NEW l \in Labels, NEW r, Go(p, l, r), Sound(l, r),
         UNCHANGED <<saved, files, bounds, history>>, l # "copy",
         \A t \in Manages(l, r) : Known(p, t)
  PROVE  IInv'
<1>1. \A w \in Workspaces : \A t \in block'[w].managed : Known(p, t)
  BY DEF saved, Known
<1> QED
  BY <1>1, StepKeeps DEF saved, bounds, history, IInv, TypeOK

LEMMA SaveKeeps ==
  ASSUME IInv, NEW p \in Processes, NEW l \in Labels, NEW r, Go(p, l, r), Sound(l, r),
         NEW m, Clean(m), m.ws \in Workspaces, Save(m),
         UNCHANGED <<files, bounds, history>>, l # "copy",
         \A t \in Manages(l, r) \cup m.block.managed : Known(p, t)
  PROVE  IInv'
<1>1. /\ block' = [block EXCEPT ![m.ws] = Persisted(m)] /\ current' = m.ws
      /\ block \in [Workspaces -> Blocks] /\ \A w \in Workspaces : block[w].source \in OwnMaps
  BY DEF Save, IInv, TypeOK
<1>2. /\ block' \in [Workspaces -> Blocks] /\ \A w \in Workspaces : block'[w].source \in OwnMaps
  BY <1>1, PersistedFacts
<1>3. \A w \in Workspaces : \A t \in block'[w].managed : Known(p, t)
  BY <1>1, PersistedFacts DEF Known
<1> QED
  BY <1>1, <1>2, <1>3, StepKeeps DEF bounds, history, IInv, TypeOK

LEMMA EndKeeps ==
  ASSUME IInv, NEW p \in Processes, End(p),
         UNCHANGED <<saved, files, history>>, scenario' = scenario, begun' \in Nat, kills' \in Nat
  PROVE  IInv'
<1>1. Sound("idle", NoRun) /\ Manages("idle", NoRun) = {} /\ "idle" \in Labels
  BY EmptyFacts DEF Labels
<1>2. \A w \in Workspaces : \A t \in block'[w].managed : Known(p, t)
  BY DEF saved, Known
<1> QED
  BY <1>1, <1>2, StepKeeps DEF End, saved, history, IInv, TypeOK

LEMMA InitHolds == Init => IInv
<1> SUFFICES ASSUME Init PROVE IInv
  OBVIOUS
<1> USE DEF Init
<1>1. NoRun \in Runs /\ Sound("idle", NoRun) /\ Manages("idle", NoRun) = {}
  BY EmptyFacts DEF Labels, Sound
<1>2. TypeOK
  BY <1>1, EmptyFacts, FileFacts DEF TypeOK, Labels
<1>3. \A t \in theirs \ (touched \cup raced) : Unbacked(t)
  BY <1>1, EmptyFacts DEF Unbacked, Copies
<1> QED
  BY <1>1, <1>2, <1>3, EmptyFacts DEF IInv

-----------------------------------------------------------------------------
(* Commands begin, and their shared state. *)

LEMMA BeginFacts ==
  ASSUME IInv, NEW p \in Processes, NEW l \in Labels, NEW r, Begin(p), Go(p, l, r), Sound(l, r),
         l # "copy", \A t \in Manages(l, r) : Known(p, t), block' = block,
         current' \in Workspaces \cup {None}
  PROVE  IInv'
<1>1. \A w \in Workspaces : \A t \in block'[w].managed : Known(p, t)
  BY DEF Known
<1>2. begun' \in Nat /\ kills' \in Nat /\ overlapped' \in BOOLEAN /\ scenario' = scenario
  BY DEF Begin, IInv, TypeOK
<1> QED
  BY <1>1, <1>2, StepKeeps DEF Begin, IInv, TypeOK

LEMMA ConfigureKeeps ==
  ASSUME IInv, NEW p \in Processes, NEW w \in Workspaces, Configure(p, w)
  PROVE  IInv'
<1> DEFINE m == [Loaded EXCEPT !.ws = w]
           r == [NoRun EXCEPT !.kind = "configure", !.mem = m, !.switched = (current # w)]
<1>1. Clean(m) /\ ~m.layered /\ m.ws = w /\ m.block = Loaded.block
  BY LoadedFacts
<1>2. Go(p, "shared", r) /\ Begin(p) /\ UNCHANGED saved
  BY DEF Configure
<1> HIDE DEF m
<1>3. /\ r \in Runs /\ r.mem = m /\ r.work = NoState /\ r.kind = "configure"
      /\ r.provider = None /\ ~r.setup
  BY <1>1, EmptyFacts DEF NoRun, Runs, Clean, Sources
<1> HIDE DEF r
<1>4. Sound("shared", r)
  BY <1>1, <1>3, EmptyFacts DEF Sound, Writing, Clean, Persisted, Own
<1>5. \A t \in Manages("shared", r) : Known(p, t)
  BY <1>1, <1>3, EmptyFacts, LoadedFacts DEF Manages, Known
<1> QED
  BY <1>2, <1>4, <1>5, BeginFacts DEF saved, IInv, TypeOK, Labels

LEMMA LaunchKeeps ==
  ASSUME IInv, NEW p \in Processes, NEW t \in Tools, NEW w \in Workspaces, Launch(p, t, w)
  PROVE  IInv'
<1> DEFINE r == [NoRun EXCEPT !.kind = "launch", !.tool = t, !.mem.ws = w,
                              !.setup = (current' = None \/ t \notin block[w].available)]
<1>1. Go(p, "gate", r) /\ Begin(p) /\ block' = block /\ current' \in Workspaces \cup {None}
  BY DEF Launch
<1>2. /\ r.mem = [NoState EXCEPT !.ws = w] /\ r.work = NoState /\ r.kind = "launch" /\ r.tool = t
      /\ r.provider \in Own
  BY DEF NoRun, Own
<1>3. Clean(NoState) /\ Clean([NoState EXCEPT !.ws = w])
  BY EmptyFacts DEF Clean, Persisted, States
<1>4. r \in Runs
  BY <1>3, EmptyFacts DEF NoRun, Runs, Clean, Sources
<1>5. /\ r.mem \in States /\ r.mem.ws = w /\ ~r.mem.layered /\ r.mem.block = Empty
  BY <1>2, EmptyFacts DEF States
<1> HIDE DEF r
<1>6. Sound("gate", r)
  BY <1>2, <1>3, <1>4, <1>5 DEF Sound, Writing
<1>7. \A x \in Manages("gate", r) : Known(p, x)
  BY <1>2, <1>5, EmptyFacts DEF Manages
<1> QED
  BY <1>1, <1>6, <1>7, BeginFacts DEF Labels

LEMMA RevertKeeps ==
  ASSUME IInv, NEW p \in Processes, Revert(p)
  PROVE  IInv'
<1> DEFINE r == [NoRun EXCEPT !.kind = "revert", !.mem = Loaded, !.queue = Tools]
<1>1. Go(p, "restore", r) /\ Begin(p) /\ UNCHANGED saved
  BY DEF Revert
<1>2. Clean(Loaded) /\ ~Loaded.layered
  BY LoadedFacts
<1>3. r \in Runs /\ r.mem = Loaded /\ r.work = NoState /\ r.kind = "revert" /\ ~r.setup
  BY <1>2, EmptyFacts DEF NoRun, Runs, Clean, Sources
<1> HIDE DEF r
<1>4. Sound("restore", r)
  BY <1>2, <1>3, EmptyFacts DEF Sound, Writing, Clean, Persisted
<1>5. \A t \in Manages("restore", r) : Known(p, t)
  BY <1>3, EmptyFacts, LoadedFacts DEF Manages, Known
<1> QED
  BY <1>1, <1>4, <1>5, BeginFacts DEF saved, IInv, TypeOK, Labels

LEMMA LoadSharedKeeps ==
  ASSUME IInv, NEW p \in Processes, LoadShared(p)
  PROVE  IInv'
<1> DEFINE w == run[p].mem.ws
           m == [Loaded EXCEPT !.ws = w]
           r == [run[p] EXCEPT !.mem = m, !.switched = (current # w)]
<1>1. pc[p] = "load" /\ Go(p, "shared", r) /\ UNCHANGED <<saved, files, bounds, history>>
  BY DEF LoadShared
<1>2. Sound("load", run[p]) /\ run[p] \in Runs /\ w \in Workspaces
  BY <1>1 DEF IInv, Sound
<1>3. Clean(m) /\ ~m.layered /\ m.ws = w /\ m.block = Loaded.block
  BY <1>2, LoadedFacts
<1> HIDE DEF m, w
<1>4. /\ r \in Runs /\ r.mem = m /\ r.work = run[p].work /\ r.kind = run[p].kind
      /\ r.provider = run[p].provider /\ r.tool = run[p].tool /\ r.setup = run[p].setup
  BY <1>2, <1>3 DEF Runs, Clean
<1> HIDE DEF r
<1>5. Sound("shared", r)
  BY <1>2, <1>3, <1>4 DEF Sound, Writing
<1>6. \A t \in Manages("shared", r) : Known(p, t)
  BY <1>1, <1>3, <1>4, LoadedFacts DEF Manages, Known
<1> QED
  BY <1>1, <1>5, <1>6, QuietKeeps DEF Labels

\* What a launch prepares for its agent's writer.
LEMMA PreparedFacts ==
  ASSUME NEW r, Sound("shared", r), r.kind = "launch"
  PROVE  Sound("look", Prepared(r)) /\ Manages("look", Prepared(r)) \subseteq Manages("shared", r)
<1>1. /\ r \in Runs /\ Clean(r.mem) /\ ~r.mem.layered /\ r.provider \in Own
      /\ r.tool \in Tools /\ r.mem.ws \in Workspaces /\ r.policy \in Policies
  BY DEF Sound, Runs
<1>2. r.mem \in States /\ r.mem.block \in Blocks /\ r.mem.block.source \in OwnMaps
  BY <1>1 DEF Clean, Persisted, States
<1>3. CASE r.setup
  <2>1. Prepared(r) = [r EXCEPT !.work = r.mem, !.provider = r.mem.block.source[r.tool]]
    BY <1>3 DEF Prepared
  <2>2. r.mem.block.source[r.tool] \in Own
    BY <1>1, <1>2 DEF OwnMaps
  <2> QED
    BY <1>1, <1>2, <2>1, <2>2 DEF Sound, Runs, Writing, Manages, Own, Sources
<1>4. CASE ~r.setup
  <2> DEFINE work == Resolve(r.policy, r.mem, r.tool)
             source == IF r.policy.source # None THEN r.policy.source ELSE r.provider
  <2>1. Prepared(r) = [r EXCEPT !.mem = NoState, !.work = work, !.provider = source]
    BY <1>1, <1>4 DEF Prepared, Runs
  <2>2. /\ Clean(work) /\ work.ws = r.mem.ws /\ work.block.managed = r.mem.block.managed
        /\ r.policy.source # None => work.layered
    BY <1>1, ResolveFacts
  <2>3. source \in Sources /\ (source \in Own \/ work.layered)
    BY <1>1, <2>2 DEF Sources, Own
  <2>4. work \in States
    BY <2>2 DEF Clean
  <2> HIDE DEF work, source
  <2>5. /\ Prepared(r) \in Runs /\ Prepared(r).mem = NoState /\ Prepared(r).work = work
        /\ Prepared(r).provider = source /\ Prepared(r).tool = r.tool
        /\ Prepared(r).kind = "launch"
    BY <1>1, <2>1, <2>3, <2>4, EmptyFacts DEF Runs
  <2>6. Clean(NoState)
    BY EmptyFacts DEF Clean, Persisted
  <2> QED
    BY <1>1, <2>2, <2>3, <2>5, <2>6, EmptyFacts DEF Sound, Writing, Manages
<1> QED
  BY <1>1, <1>3, <1>4 DEF Runs

LEMMA SaveSharedKeeps ==
  ASSUME IInv, NEW p \in Processes, SaveShared(p)
  PROVE  IInv'
<1>1. /\ pc[p] = "shared" /\ Save(run[p].mem) /\ UNCHANGED <<files, bounds, history>>
      /\ Sound("shared", run[p])
  BY DEF SaveShared, IInv
<1>2. Clean(run[p].mem) /\ run[p].mem.ws \in Workspaces
  BY <1>1 DEF Sound
<1>3. \A t \in Manages("shared", run[p]) \cup run[p].mem.block.managed : Known(p, t)
  BY <1>1 DEF Known, Manages
<1>4. CASE run[p].kind = "configure"
  <2>1. Go(p, "policy", run[p])
    BY <1>4 DEF SaveShared
  <2>2. Sound("policy", run[p]) /\ Manages("policy", run[p]) = Manages("shared", run[p])
    BY <1>1, <1>4 DEF Sound, Manages, Writing
  <2> QED
    BY <1>1, <1>2, <1>3, <2>1, <2>2, SaveKeeps DEF Labels
<1>5. CASE run[p].kind # "configure"
  <2>1. Go(p, "look", Prepared(run[p])) /\ run[p].kind = "launch"
    BY <1>1, <1>5 DEF SaveShared, Sound
  <2>2. Sound("look", Prepared(run[p]))
    BY <1>1, <2>1, PreparedFacts
  <2>3. \A t \in Manages("look", Prepared(run[p])) \cup run[p].mem.block.managed : Known(p, t)
    BY <1>1, <1>3, <2>1, PreparedFacts
  <2> QED
    BY <1>1, <1>2, <2>1, <2>2, <2>3, SaveKeeps DEF Labels
<1> QED
  BY <1>4, <1>5

-----------------------------------------------------------------------------
(* Which agents a configure writes. *)

LEMMA ApplyPolicyKeeps ==
  ASSUME IInv, NEW p \in Processes, NEW a \in Policies, NEW tools \in SUBSET Tools,
         ApplyPolicy(p, a, tools)
  PROVE  IInv'
<1> DEFINE r == [run[p] EXCEPT !.policy = a, !.queue = tools]
<1>1. pc[p] = "policy" /\ Go(p, "next", r) /\ UNCHANGED <<saved, files, bounds, history>>
      /\ Sound("policy", run[p])
  BY DEF ApplyPolicy, IInv
<1>2. Sound("next", r) /\ Manages("next", r) = Manages("policy", run[p])
  BY <1>1 DEF Sound, Manages, Writing, Runs
<1> QED
  BY <1>1, <1>2, QuietKeeps DEF Labels, Known

LEMMA PickKeeps ==
  ASSUME IInv, NEW p \in Processes, NEW tools \in SUBSET Tools, NEW t \in Tools,
         NEW s \in OwnSources \cup {None}, Pick(p, tools, t, s)
  PROVE  IInv'
<1> DEFINE m == [run[p].mem EXCEPT !.block.source[t] = s]
           r == [run[p] EXCEPT !.mem = m, !.queue = tools]
<1>1. /\ pc[p] = "policy" /\ Save(m) /\ Go(p, "next", r) /\ UNCHANGED <<files, bounds, history>>
      /\ Sound("policy", run[p])
  BY DEF Pick, IInv
<1>2. /\ run[p] \in Runs /\ run[p].mem \in States /\ run[p].mem.block \in Blocks
      /\ ~run[p].mem.layered /\ run[p].mem.block.source \in OwnMaps
      /\ run[p].mem.ws \in Workspaces
  BY <1>1 DEF Sound, Clean, Persisted, Runs, States
<1>3. /\ m \in States /\ ~m.layered /\ m.ws = run[p].mem.ws
      /\ m.block.managed = run[p].mem.block.managed /\ m.block.source \in OwnMaps
  BY <1>2 DEF States, Blocks, Sources, OwnMaps, Own
<1>4. Clean(m)
  BY <1>3 DEF Clean, Persisted
<1> HIDE DEF m
<1>5. /\ r \in Runs /\ r.mem = m /\ r.work = run[p].work /\ r.kind = run[p].kind
      /\ r.tool = run[p].tool /\ r.setup = run[p].setup
  BY <1>2, <1>3 DEF Runs
<1> HIDE DEF r
<1>6. Sound("next", r)
  BY <1>1, <1>2, <1>3, <1>4, <1>5 DEF Sound, Writing
<1>7. \A x \in Manages("next", r) \cup m.block.managed : Known(p, x)
  BY <1>1, <1>3, <1>5 DEF Manages, Known
<1> QED
  BY <1>1, <1>2, <1>3, <1>4, <1>6, <1>7, SaveKeeps DEF Labels

LEMMA NextToolKeeps ==
  ASSUME IInv, NEW p \in Processes, NEW t \in Tools, NextTool(p, t)
  PROVE  IInv'
<1> DEFINE work == IF Governs(run[p]) THEN Resolve(run[p].policy, run[p].mem, t) ELSE run[p].mem
           r == [run[p] EXCEPT !.tool = t, !.queue = @ \ {t}, !.work = work,
                               !.provider = work.block.source[t]]
<1>1. pc[p] = "next" /\ Go(p, "look", r) /\ UNCHANGED <<saved, files, bounds, history>>
      /\ Sound("next", run[p])
  BY DEF NextTool, IInv
<1>2. /\ run[p] \in Runs /\ Clean(run[p].mem) /\ ~run[p].mem.layered /\ run[p].policy \in Policies
      /\ run[p].mem.ws \in Workspaces
  BY <1>1 DEF Sound, Runs
<1>3. /\ Clean(work) /\ work.ws = run[p].mem.ws /\ work.block.managed = run[p].mem.block.managed
      /\ work.layered \/ work.block.source[t] \in Own
  BY <1>2, ResolveFacts DEF Clean, Persisted, OwnMaps
<1>4. work \in States /\ work.block.source[t] \in Sources
  BY <1>3 DEF Clean, States, Blocks
<1> HIDE DEF work
<1>5. /\ r \in Runs /\ r.mem = run[p].mem /\ r.work = work /\ r.kind = run[p].kind
      /\ r.tool = t /\ r.setup = run[p].setup /\ r.provider = work.block.source[t]
      /\ r.policy = run[p].policy
  BY <1>2, <1>4 DEF Runs
<1> HIDE DEF r
<1>6. ~Governs(r) => ~r.work.layered
  BY <1>2, <1>5 DEF Governs, work
<1>7. Sound("look", r)
  BY <1>1, <1>2, <1>3, <1>4, <1>5, <1>6 DEF Sound, Writing
<1>8. \A x \in Manages("look", r) : Known(p, x)
  BY <1>1, <1>3, <1>5 DEF Manages, Known
<1> QED
  BY <1>1, <1>7, <1>8, QuietKeeps DEF Labels

LEMMA ConfiguredKeeps ==
  ASSUME IInv, NEW p \in Processes, Configured(p)
  PROVE  IInv'
<1> DEFINE m == [run[p].mem EXCEPT !.block.available = @ \cup run[p].did]
           A == run[p].mem.block.available \cup run[p].did
<1>1. /\ pc[p] = "next" /\ End(p) /\ UNCHANGED <<files, bounds, history>>
      /\ Sound("next", run[p])
  BY DEF Configured, IInv
<1>2. CASE UNCHANGED saved
  BY <1>1, <1>2, EndKeeps DEF bounds, IInv, TypeOK
<1>3. CASE Save(m)
  <2>1. /\ Clean(run[p].mem) /\ run[p].mem.ws \in Workspaces /\ A \in SUBSET Tools
        /\ m = [run[p].mem EXCEPT !.block.available = A]
    BY <1>1 DEF Sound, Runs, States, Blocks
  <2>2. Clean(m) /\ m.ws \in Workspaces /\ m.block.managed = run[p].mem.block.managed
    BY <2>1, ListedFacts
  <2> HIDE DEF m
  <2>3. Go(p, "idle", NoRun) /\ Sound("idle", NoRun) /\ Manages("idle", NoRun) = {}
    BY <1>1, EmptyFacts DEF End, Labels
  <2>4. \A x \in Manages("idle", NoRun) \cup m.block.managed : Known(p, x)
    BY <2>2, <2>3 DEF Known, Manages
  <2> QED
    BY <1>1, <1>3, <2>2, <2>3, <2>4, SaveKeeps DEF Labels
<1> QED
  BY <1>2, <1>3 DEF Configured

-----------------------------------------------------------------------------
(* The writers. *)

\* Going on to the next agent.
LEMMA ResumeFacts ==
  ASSUME NEW r \in Runs, Clean(r.mem), ~r.mem.layered, r.mem.ws \in Workspaces,
         r.kind = "configure", ~r.setup
  PROVE  LET x == [r EXCEPT !.tool = None, !.work = NoState, !.provider = None] IN
           Sound("next", x) /\ Manages("next", x) \subseteq r.mem.block.managed
<1> DEFINE x == [r EXCEPT !.tool = None, !.work = NoState, !.provider = None]
<1>1. /\ x \in Runs /\ x.mem = r.mem /\ x.work = NoState /\ x.kind = "configure" /\ ~x.setup
  BY EmptyFacts DEF Runs, Sources
<1> HIDE DEF x
<1>2. Sound("next", x) /\ Manages("next", x) \subseteq r.mem.block.managed
  BY <1>1, EmptyFacts DEF Sound, Manages, Writing, Clean, Persisted
<1> QED
  BY <1>2 DEF x

LEMMA MarkKeeps ==
  ASSUME IInv, NEW p \in Processes, Mark(p)
  PROVE  IInv'
<1> DEFINE m == Marked(run[p])
           s == [run[p] EXCEPT !.work = m]
<1>1. /\ pc[p] = "mark" /\ Save(m) /\ UNCHANGED <<files, bounds, history>>
      /\ Sound("mark", run[p])
  BY DEF Mark, IInv
<1>2. /\ run[p] \in Runs /\ Clean(run[p].mem) /\ ~run[p].mem.layered /\ Clean(run[p].work)
      /\ run[p].tool \in Tools /\ run[p].work.ws \in Workspaces
      /\ run[p].work.layered \/ run[p].provider \in Own
  BY <1>1 DEF Sound, Writing
<1>3. /\ Clean(m) /\ m.ws = run[p].work.ws /\ m.layered = run[p].work.layered
      /\ m.block.managed = run[p].work.block.managed \cup {run[p].tool}
  BY <1>2, MarkedFacts
<1>4. m \in States
  BY <1>3 DEF Clean
<1>5. \A x \in run[p].mem.block.managed \cup m.block.managed : Known(p, x)
  BY <1>1, <1>3 DEF Known, Manages
<1> HIDE DEF m
<1>6. CASE run[p].kind = "configure" /\ ~Governs(run[p])
  <2> DEFINE r == [s EXCEPT !.mem = m, !.did = @ \cup {run[p].tool}]
             x == [r EXCEPT !.tool = None, !.work = NoState, !.provider = None]
  <2>1. Go(p, "next", x)
    BY <1>6 DEF Mark, Resume, m
  <2>2. ~m.layered
    BY <1>1, <1>3, <1>6 DEF Sound, Writing
  <2>3. r \in Runs /\ r.mem = m /\ r.kind = "configure" /\ ~r.setup
    BY <1>1, <1>2, <1>4, <1>6 DEF Runs, Sound
  <2> HIDE DEF r
  <2>4. Sound("next", x) /\ Manages("next", x) \subseteq m.block.managed
    BY <1>2, <1>3, <2>2, <2>3, ResumeFacts
  <2> QED
    BY <1>1, <1>2, <1>3, <1>5, <2>1, <2>4, SaveKeeps DEF Labels
<1>7. CASE ~(run[p].kind = "configure" /\ ~Governs(run[p]))
           /\ (run[p].kind = "configure" \/ run[p].setup)
  <2> DEFINE r == [s EXCEPT !.did = {run[p].tool}]
  <2>1. Go(p, "list", r)
    BY <1>7 DEF Mark, m
  <2>2. /\ r \in Runs /\ r.mem = run[p].mem /\ r.work = m /\ r.kind = run[p].kind
        /\ r.tool = run[p].tool /\ r.setup = run[p].setup
    BY <1>2, <1>4 DEF Runs
  <2> HIDE DEF r
  <2>3. Sound("list", r)
    BY <1>1, <1>2, <1>3, <1>7, <2>2 DEF Sound, Writing
  <2>4. \A x \in Manages("list", r) \cup m.block.managed : Known(p, x)
    BY <1>5, <2>2 DEF Manages
  <2> QED
    BY <1>1, <1>2, <1>3, <2>1, <2>3, <2>4, SaveKeeps DEF Labels
<1>8. CASE ~(run[p].kind = "configure" /\ ~Governs(run[p]))
           /\ ~(run[p].kind = "configure" \/ run[p].setup)
  <2>1. Go(p, "started", s)
    BY <1>8 DEF Mark, m
  <2>2. /\ s \in Runs /\ s.mem = run[p].mem /\ s.work = m /\ s.kind = run[p].kind
        /\ s.tool = run[p].tool /\ s.setup = run[p].setup
    BY <1>2, <1>4 DEF Runs
  <2> HIDE DEF s
  <2>3. Sound("started", s)
    BY <1>1, <1>2, <1>3, <1>8, <2>2 DEF Sound, Writing
  <2>4. \A x \in Manages("started", s) \cup m.block.managed : Known(p, x)
    BY <1>5, <2>2 DEF Manages
  <2> QED
    BY <1>1, <1>2, <1>3, <2>1, <2>3, <2>4, SaveKeeps DEF Labels
<1> QED
  BY <1>6, <1>7, <1>8

LEMMA ListKeeps ==
  ASSUME IInv, NEW p \in Processes, List(p)
  PROVE  IInv'
<1> DEFINE A == run[p].work.block.available \cup run[p].did
           m == [run[p].work EXCEPT !.block.available = @ \cup run[p].did]
<1>1. /\ pc[p] = "list" /\ Save(m) /\ UNCHANGED <<files, bounds, history>>
      /\ Sound("list", run[p])
  BY DEF List, IInv
<1>2. /\ run[p] \in Runs /\ Clean(run[p].mem) /\ ~run[p].mem.layered /\ Clean(run[p].work)
      /\ run[p].work.ws \in Workspaces /\ A \in SUBSET Tools
      /\ m = [run[p].work EXCEPT !.block.available = A]
  BY <1>1 DEF Sound, Runs, States, Blocks
<1>3. /\ Clean(m) /\ m.ws = run[p].work.ws /\ m.block.managed = run[p].work.block.managed
      /\ m.block.available = A
  BY <1>2, ListedFacts
<1> HIDE DEF A
<1>4. \A x \in run[p].mem.block.managed \cup m.block.managed : Known(p, x)
  BY <1>1, <1>3 DEF Known, Manages
<1>5. CASE run[p].setup
  <2> DEFINE r == [NoRun EXCEPT !.kind = "launch", !.tool = run[p].tool, !.setup = TRUE]
  <2>1. Go(p, "ensure", r)
    BY <1>5 DEF List
  <2>2. run[p].tool \in Tools
    BY <1>1, <1>5 DEF Sound
  <2>3. r \in Runs /\ r.mem = NoState /\ r.work = NoState /\ r.kind = "launch" /\ r.tool \in Tools
    BY <2>2, EmptyFacts DEF NoRun, Runs, Sources
  <2> HIDE DEF r
  <2>4. Sound("ensure", r) /\ Manages("ensure", r) = {}
    BY <2>3, EmptyFacts DEF Sound, Manages, Writing, Clean, Persisted
  <2> QED
    BY <1>1, <1>2, <1>3, <1>4, <2>1, <2>4, SaveKeeps DEF Labels
<1>6. CASE ~run[p].setup
  <2> DEFINE n == [run[p].mem EXCEPT !.block.available = A]
             r == [run[p] EXCEPT !.mem = n, !.did = {}]
             x == [r EXCEPT !.tool = None, !.work = NoState, !.provider = None]
  <2>1. Go(p, "next", x)
    <3>1. Resume(p, [run[p] EXCEPT !.mem.block.available = m.block.available, !.did = {}])
      BY <1>6 DEF List, m
    <3>2. [run[p] EXCEPT !.mem.block.available = m.block.available, !.did = {}] = r
      BY <1>2, <1>3 DEF Runs
    <3> QED
      BY <3>1, <3>2 DEF Resume
  <2>2. Clean(n) /\ n.ws = run[p].mem.ws /\ ~n.layered /\ n.block.managed = run[p].mem.block.managed
    BY <1>2, ListedFacts
  <2> HIDE DEF n
  <2>3. r \in Runs /\ r.mem = n /\ r.kind = "configure" /\ ~r.setup /\ n.ws \in Workspaces
    BY <1>1, <1>2, <1>6, <2>2 DEF Runs, Clean, Sound
  <2> HIDE DEF r
  <2>4. Sound("next", x) /\ Manages("next", x) \subseteq n.block.managed
    BY <2>2, <2>3, ResumeFacts
  <2> QED
    BY <1>1, <1>2, <1>3, <1>4, <2>1, <2>2, <2>4, SaveKeeps DEF Labels
<1> QED
  BY <1>5, <1>6

LEMMA WriterFailsKeeps ==
  ASSUME IInv, NEW p \in Processes, WriterFails(p)
  PROVE  IInv'
<1> DEFINE r == run[p]
           x == [r EXCEPT !.tool = None, !.work = NoState, !.provider = None]
<1>1. /\ pc[p] \in {"look", "copy", "write", "mark"} /\ UNCHANGED <<saved, files, bounds, history>>
      /\ Sound(pc[p], r) /\ r \in Runs
  BY DEF WriterFails, IInv, Sound
<1>2. CASE r.kind = "configure" /\ Governs(r)
  <2>1. Go(p, "list", r) /\ Sound("list", r) /\ Manages("list", r) \subseteq Manages(pc[p], r)
    BY <1>1, <1>2 DEF WriterFails, Sound, Manages, Writing
  <2> QED
    BY <1>1, <2>1, QuietKeeps DEF Labels, Known
<1>3. CASE r.kind = "configure" /\ ~Governs(r)
  <2>1. Go(p, "next", x)
    BY <1>1, <1>3 DEF WriterFails, Resume
  <2>2. Sound("next", x) /\ Manages("next", x) \subseteq r.mem.block.managed
    BY <1>1, <1>3, ResumeFacts DEF Sound
  <2>3. \A t \in Manages("next", x) : Known(p, t)
    BY <2>2 DEF Known, Manages
  <2> QED
    BY <1>1, <2>1, <2>2, <2>3, QuietKeeps DEF Labels
<1>4. CASE r.kind = "refresh"
  <2>1. Go(p, "started", r) /\ Sound("started", r)
        /\ Manages("started", r) \subseteq Manages(pc[p], r)
    BY <1>1, <1>4 DEF WriterFails, Sound, Manages, Writing
  <2> QED
    BY <1>1, <2>1, QuietKeeps DEF Labels, Known
<1>5. CASE r.kind \notin {"configure", "refresh"}
  BY <1>1, <1>5, EndKeeps DEF WriterFails, bounds, history, IInv, TypeOK
<1> QED
  BY <1>2, <1>3, <1>4, <1>5

\* The agents whose first backup two commands took at once are left out of the invariant.
LEMMA LookKeeps ==
  ASSUME IInv, NEW p \in Processes, Look(p)
  PROVE  IInv'
<1> DEFINE r == run[p]
           copies == /\ ~(r.tool \in Guarded /\ r.tool \in r.work.block.managed)
                     /\ backup[r.tool] = NoFile /\ file[r.tool] # NoFile
           other == \E q \in Processes \ {p} : pc[q] = "copy" /\ run[q].tool = r.tool
           l == IF copies THEN "copy" ELSE "write"
<1>1. /\ pc[p] = "look" /\ Go(p, l, r) /\ Sound("look", r) /\ r \in Runs /\ r.tool \in Tools
      /\ raced' = (IF copies /\ other THEN raced \cup {r.tool} ELSE raced)
      /\ UNCHANGED <<saved, files, bounds, theirs, touched, overlapped>>
  BY DEF Look, IInv, Sound, Writing
<1>2. /\ pc' = [pc EXCEPT ![p] = l] /\ run' = run /\ l \in Labels
      /\ pc \in [Processes -> Labels] /\ run \in [Processes -> Runs]
  BY <1>1 DEF Go, Labels, IInv, TypeOK
<1>3. Sound(l, r)
  BY <1>1 DEF Sound, Writing
<1>4. TypeOK'
  BY <1>1, <1>2 DEF IInv, TypeOK, saved, files, bounds
<1>5. \A q \in Processes : Sound(pc'[q], run'[q])
  BY <1>2, <1>3 DEF IInv
<1>6. ASSUME NEW t \in theirs \ (touched \cup raced')
      PROVE  Backed(t)' \/ Unbacked(t)'
  <2>1. t \in theirs \ (touched \cup raced) /\ (Backed(t) \/ Unbacked(t))
    BY <1>1, <1>6 DEF IInv
  <2>2. \A q \in Processes : q # p => Copies(q, t)' = Copies(q, t)
    BY <1>2 DEF Copies
  <2>3. CASE t # r.tool
    <3>1. ~Copies(p, t)' /\ ~Copies(p, t)
      BY <1>2, <2>3 DEF Copies
    <3>2. \A q \in Processes : t \in Manages(pc'[q], run'[q]) => t \in Manages(pc[q], run[q])
      BY <1>2, <2>3 DEF Manages
    <3> QED
      BY <1>1, <2>1, <2>2, <3>1, <3>2 DEF Backed, Unbacked, saved, files
  <2>4. CASE t = r.tool /\ Backed(t)
    <3>1. ~copies
      BY <2>4, FileFacts DEF Backed
    <3>2. ~Copies(p, t)'
      BY <1>2, <3>1 DEF Copies
    <3> QED
      BY <1>1, <2>2, <2>4, <3>2 DEF Backed, files
  <2>5. CASE t = r.tool /\ Unbacked(t)
    <3>1. t \notin r.work.block.managed
      BY <2>5 DEF Unbacked, Manages
    <3>2. copies
      BY <2>5, <3>1, FileFacts DEF Unbacked
    <3>3. ~other
      BY <1>1, <1>6, <2>5, <3>2
    <3>4. \A q \in Processes : q # p => ~Copies(q, t)
      BY <2>5, <3>3 DEF Copies
    <3>5. \A q \in Processes : t \notin Manages(pc'[q], run'[q])
      BY <1>2, <2>5, <3>2 DEF Unbacked, Manages
    <3> QED
      BY <1>1, <2>2, <2>5, <3>4, <3>5 DEF Unbacked, saved, files
  <2> QED
    BY <2>1, <2>3, <2>4, <2>5
<1> QED
  BY <1>1, <1>4, <1>5, <1>6 DEF IInv, saved

LEMMA CopyKeeps ==
  ASSUME IInv, NEW p \in Processes, Copy(p)
  PROVE  IInv'
<1> DEFINE r == run[p]
<1>1. /\ pc[p] = "copy" /\ Go(p, "write", r) /\ Sound("copy", r) /\ r \in Runs /\ r.tool \in Tools
      /\ backup' = [backup EXCEPT ![r.tool] = file[r.tool]]
      /\ UNCHANGED <<saved, file, bounds, history>>
  BY DEF Copy, IInv, Sound, Writing
<1>2. /\ pc' = [pc EXCEPT ![p] = "write"] /\ run' = run
      /\ pc \in [Processes -> Labels] /\ run \in [Processes -> Runs]
      /\ file \in [Tools -> Files] /\ backup \in [Tools -> Files]
  BY <1>1 DEF Go, Labels, IInv, TypeOK
<1>3. TypeOK' /\ \A q \in Processes : Sound(pc'[q], run'[q])
  BY <1>1, <1>2 DEF IInv, TypeOK, saved, bounds, history, Labels, Sound, Writing
<1>4. ASSUME NEW t \in theirs \ (touched \cup raced) PROVE Backed(t)' \/ Unbacked(t)'
  <2>1. (Backed(t) \/ Unbacked(t)) /\ t \in Tools
    BY <1>4 DEF IInv, TypeOK
  <2>2. \A q \in Processes : Copies(q, t)' => q # p /\ Copies(q, t)
    BY <1>2 DEF Copies
  <2>3. CASE t # r.tool
    <3>1. backup'[t] = backup[t] /\ file'[t] = file[t]
      BY <1>1, <1>2, <2>3
    <3>2. \A q \in Processes : t \in Manages(pc'[q], run'[q]) => t \in Manages(pc[q], run[q])
      BY <1>2, <2>3 DEF Manages
    <3> QED
      BY <1>1, <2>1, <2>2, <3>1, <3>2 DEF Backed, Unbacked, saved
  <2>4. CASE t = r.tool
    <3>1. Copies(p, t) /\ Unbacked(t)
      BY <1>1, <2>1, <2>4 DEF Copies, Backed
    <3>2. backup'[t] = UsersOwn
      BY <1>1, <1>2, <2>1, <2>4, <3>1 DEF Unbacked
    <3>3. \A q \in Processes : ~Copies(q, t)'
      BY <2>2, <3>1 DEF Unbacked
    <3> QED
      BY <3>2, <3>3 DEF Backed
  <2> QED
    BY <2>3, <2>4
<1> QED
  BY <1>1, <1>3, <1>4 DEF IInv, saved, history

LEMMA WriteKeeps ==
  ASSUME IInv, NEW p \in Processes, Write(p)
  PROVE  IInv'
<1> DEFINE r == run[p]
           g == Generated(r.work.ws, r.provider)
<1>1. /\ pc[p] = "write" /\ Go(p, "mark", r) /\ Sound("write", r) /\ r \in Runs
      /\ r.tool \in Tools /\ r.work.ws \in Workspaces /\ r.provider \in Sources
      /\ file' = [file EXCEPT ![r.tool] = g]
      /\ UNCHANGED <<saved, backup, bounds, history>>
  BY DEF Write, IInv, Sound, Writing, Runs
<1>2. g \in Files
  BY <1>1, FileFacts
<1> HIDE DEF g
<1>3. /\ pc' = [pc EXCEPT ![p] = "mark"] /\ run' = run
      /\ pc \in [Processes -> Labels] /\ run \in [Processes -> Runs]
  BY <1>1 DEF Go, Labels, IInv, TypeOK
<1>4. TypeOK' /\ \A q \in Processes : Sound(pc'[q], run'[q])
  BY <1>1, <1>2, <1>3 DEF IInv, TypeOK, saved, bounds, history, Labels, Sound, Writing
<1>5. ASSUME NEW t \in theirs \ (touched \cup raced) PROVE Backed(t)' \/ Unbacked(t)'
  <2>1. (Backed(t) \/ Unbacked(t)) /\ t \in Tools
    BY <1>5 DEF IInv, TypeOK
  <2>2. \A q \in Processes : Copies(q, t)' => Copies(q, t)
    BY <1>3 DEF Copies
  <2>3. CASE Backed(t)
    BY <1>1, <2>2, <2>3 DEF Backed
  <2>4. CASE Unbacked(t)
    <3>1. t # r.tool
      BY <1>1, <2>4 DEF Unbacked, Manages
    <3>2. file'[t] = file[t]
      BY <1>1, <2>1, <3>1 DEF IInv, TypeOK
    <3>3. \A q \in Processes : Manages(pc'[q], run'[q]) = Manages(pc[q], run[q])
      BY <1>1, <1>3 DEF Manages
    <3> QED
      BY <1>1, <2>2, <2>4, <3>2, <3>3 DEF Unbacked, saved
  <2> QED
    BY <2>1, <2>3, <2>4
<1> QED
  BY <1>1, <1>4, <1>5 DEF IInv, saved, history

-----------------------------------------------------------------------------
(* Launches, reverts and kills. *)

LEMMA GateKeeps ==
  ASSUME IInv, NEW p \in Processes, NEW a \in Policies, Gate(p, a)
  PROVE  IInv'
<1> DEFINE r == run[p]
           x == [r EXCEPT !.policy = a]
<1>1. pc[p] = "gate" /\ UNCHANGED <<saved, files, bounds, history>> /\ Sound("gate", r)
  BY DEF Gate, IInv
<1>2. CASE End(p)
  BY <1>1, <1>2, EndKeeps DEF bounds, history, IInv, TypeOK
<1>3. CASE Go(p, "load", r) /\ r.setup
  <2>1. Sound("load", r) /\ Manages("load", r) = Manages("gate", r)
    BY <1>1 DEF Sound, Manages, Writing
  <2> QED
    BY <1>1, <1>3, <2>1, QuietKeeps DEF Labels, Known
<1>4. CASE Go(p, "ensure", x)
  <2>1. Sound("ensure", x) /\ Manages("ensure", x) = Manages("gate", r)
    BY <1>1 DEF Sound, Manages, Writing, Runs, Governs
  <2> QED
    BY <1>1, <1>4, <2>1, QuietKeeps DEF Labels, Known
<1> QED
  BY <1>2, <1>3, <1>4 DEF Gate

LEMMA EnsureKeeps ==
  ASSUME IInv, NEW p \in Processes, NEW a \in Policies, Ensure(p, a)
  PROVE  IInv'
<1> DEFINE r == run[p]
           policy == IF r.setup THEN a ELSE r.policy
           source == Loaded.block.source[r.tool]
           x == [r EXCEPT !.policy = policy, !.setup = FALSE, !.mem.ws = current,
                          !.provider = source]
<1>1. pc[p] = "ensure" /\ UNCHANGED <<saved, files, bounds, history>> /\ Sound("ensure", r)
      /\ (End(p) \/ (current # None /\ Go(p, "load", x)))
  BY DEF Ensure, IInv
<1>2. CASE End(p)
  BY <1>1, <1>2, EndKeeps DEF bounds, history, IInv, TypeOK
<1>3. CASE current # None /\ Go(p, "load", x)
  <2> DEFINE m == [r.mem EXCEPT !.ws = current]
  <2>1. /\ r \in Runs /\ Clean(r.mem) /\ ~r.mem.layered /\ Clean(r.work) /\ r.tool \in Tools
        /\ r.kind = "launch" /\ policy \in Policies /\ current \in Workspaces
    BY <1>1, <1>3 DEF Sound, Runs, IInv, TypeOK
  <2>2. source \in Own /\ source \in Sources
    BY <2>1, LoadedFacts DEF OwnMaps, Own, Sources
  <2>3. Clean(m) /\ ~m.layered /\ m.ws = current /\ m.block = r.mem.block
    BY <2>1 DEF Clean, Persisted, States
  <2>4. x = [r EXCEPT !.policy = policy, !.setup = FALSE, !.mem = m, !.provider = source]
    BY <2>1 DEF Runs
  <2> HIDE DEF policy, source, m
  <2>5. /\ x \in Runs /\ x.mem = m /\ x.work = r.work /\ x.kind = "launch" /\ x.tool = r.tool
        /\ x.provider = source /\ ~x.setup
    BY <2>1, <2>2, <2>3, <2>4 DEF Runs, Clean
  <2> HIDE DEF x
  <2>6. Sound("load", x)
    BY <2>1, <2>2, <2>3, <2>5 DEF Sound, Writing
  <2>7. \A t \in Manages("load", x) : Known(p, t)
    BY <1>1, <2>3, <2>5 DEF Manages, Known
  <2> QED
    BY <1>1, <1>3, <2>6, <2>7, QuietKeeps DEF Labels
<1> QED
  BY <1>1, <1>2, <1>3

LEMMA RefreshKeeps ==
  ASSUME IInv, NEW p \in Processes, Refresh(p)
  PROVE  IInv'
<1> DEFINE r == run[p]
           source == r.work.block.source[r.tool]
           kind == IF r.kind = "launch" THEN "first" ELSE "refresh"
           x == [r EXCEPT !.kind = kind, !.provider = source]
<1>1. /\ pc[p] = "started" /\ Go(p, "look", x) /\ UNCHANGED <<saved, files, bounds, history>>
      /\ Sound("started", r)
  BY DEF Refresh, IInv
<1>2. r \in Runs /\ Clean(r.work) /\ r.tool \in Tools
  BY <1>1 DEF Sound
<1>3. source \in Sources /\ (r.work.layered \/ source \in Own)
  BY <1>2 DEF Clean, Persisted, States, Blocks, OwnMaps
<1> HIDE DEF source
<1>4. /\ x \in Runs /\ x.mem = r.mem /\ x.work = r.work /\ x.kind \in {"first", "refresh"}
      /\ x.tool = r.tool /\ x.provider = source /\ x.setup = r.setup
  BY <1>2, <1>3 DEF Runs
<1> HIDE DEF x
<1>5. Sound("look", x)
  BY <1>1, <1>2, <1>3, <1>4 DEF Sound, Writing
<1>6. \A t \in Manages("look", x) : Known(p, t)
  BY <1>1, <1>4 DEF Manages, Known
<1> QED
  BY <1>1, <1>5, <1>6, QuietKeeps DEF Labels

LEMMA QuietEndKeeps ==
  ASSUME IInv, NEW p \in Processes, SharedFails(p) \/ Exit(p) \/ KeepState(p) \/ Kill(p)
  PROVE  IInv'
<1>1. /\ End(p) /\ UNCHANGED <<saved, files, history>> /\ scenario' = scenario
      /\ begun' \in Nat /\ kills' \in Nat
  BY DEF SharedFails, Exit, KeepState, Kill, bounds, IInv, TypeOK
<1> QED
  BY <1>1, EndKeeps

LEMMA ClearKeeps ==
  ASSUME IInv, NEW p \in Processes, Clear(p)
  PROVE  IInv'
<1>1. /\ block' = [w \in Workspaces |-> IF w = current THEN Empty ELSE block[w]]
      /\ current' = None /\ UNCHANGED <<files, bounds, history>> /\ Go(p, "idle", NoRun)
  BY DEF Clear, End
<1>2. /\ block' \in [Workspaces -> Blocks] /\ \A w \in Workspaces : block'[w].source \in OwnMaps
      /\ \A w \in Workspaces : \A t \in block'[w].managed : Known(p, t)
  BY <1>1, EmptyFacts DEF IInv, TypeOK, Known
<1>3. Sound("idle", NoRun) /\ Manages("idle", NoRun) = {}
  BY EmptyFacts DEF Labels
<1> QED
  BY <1>1, <1>2, <1>3, StepKeeps DEF Labels, bounds, history, IInv, TypeOK

\* A revert restores a user's file that it touches first, since whoever is managed is backed up.
LEMMA RestoreFacts ==
  ASSUME IInv, NEW p \in Processes, NEW t \in Tools, Restore(p, t)
  PROVE  IInv' /\ \A x \in theirs \ raced : x \in touched' \ touched => file'[x] = UsersOwn
<1> DEFINE r == run[p]
           n == [r EXCEPT !.queue = @ \ {t}]
           restores == backup[t] # NoFile \/ t \in r.mem.block.managed
<1>1. /\ pc[p] = "restore" /\ Go(p, "restore", n) /\ Sound("restore", r) /\ r \in Runs
      /\ UNCHANGED <<saved, bounds, theirs, raced, overlapped>>
      /\ file \in [Tools -> Files] /\ backup \in [Tools -> Files]
      /\ IF restores THEN /\ file' = [file EXCEPT ![t] = backup[t]]
                          /\ backup' = [backup EXCEPT ![t] = NoFile]
                          /\ touched' = touched \cup {t}
         ELSE UNCHANGED <<files, touched>>
  BY DEF Restore, IInv, Sound, TypeOK
<1>2. /\ n \in Runs /\ n.mem = r.mem /\ n.work = r.work /\ n.kind = r.kind /\ n.tool = r.tool
      /\ n.setup = r.setup
  BY <1>1 DEF Runs
<1> HIDE DEF n
<1>3. Sound("restore", n) /\ Manages("restore", n) = Manages("restore", r)
  BY <1>1, <1>2 DEF Sound, Manages, Writing
<1>4. CASE ~restores
  <2>1. IInv'
    BY <1>1, <1>3, <1>4, StepKeeps DEF saved, bounds, IInv, TypeOK, Known
  <2> QED
    BY <1>1, <1>4, <2>1
<1>5. CASE restores
  <2>1. /\ pc' = pc /\ run' = [run EXCEPT ![p] = n]
        /\ pc \in [Processes -> Labels] /\ run \in [Processes -> Runs]
    BY <1>1 DEF Go, IInv, TypeOK
  <2>2. TypeOK' /\ \A q \in Processes : Sound(pc'[q], run'[q])
    BY <1>1, <1>2, <1>3, <1>5, <2>1, FileFacts DEF IInv, TypeOK, saved, bounds
  <2>3. ASSUME NEW x \in theirs \ (touched' \cup raced) PROVE Backed(x)' \/ Unbacked(x)'
    <3>1. x # t /\ x \in theirs \ (touched \cup raced) /\ x \in Tools
          /\ (Backed(x) \/ Unbacked(x)) /\ file'[x] = file[x] /\ backup'[x] = backup[x]
      BY <1>1, <1>5, <2>3 DEF IInv, TypeOK
    <3>2. \A q \in Processes : Copies(q, x)' = Copies(q, x)
      BY <1>2, <2>1 DEF Copies
    <3>3. \A q \in Processes : Manages(pc'[q], run'[q]) = Manages(pc[q], run[q])
      BY <1>1, <1>3, <2>1
    <3> QED
      BY <1>1, <3>1, <3>2, <3>3 DEF Backed, Unbacked, saved
  <2>4. IInv'
    BY <1>1, <2>2, <2>3 DEF IInv, saved
  <2>5. ASSUME NEW x \in theirs \ raced, x \in touched' \ touched PROVE file'[x] = UsersOwn
    <3>1. x = t /\ (Backed(t) \/ Unbacked(t))
      BY <1>1, <1>5, <2>5 DEF IInv
    <3>2. ~Unbacked(t)
      BY <1>1, <1>5 DEF Unbacked, Manages
    <3> QED
      BY <1>1, <1>5, <3>1, <3>2 DEF Backed
  <2> QED
    BY <2>4, <2>5
<1> QED
  BY <1>4, <1>5

-----------------------------------------------------------------------------
(* Every step, and the theorems. *)

LEMMA NextKeeps ==
  ASSUME IInv, [Next]_vars
  PROVE  IInv'
<1>1. CASE UNCHANGED vars
  BY <1>1 DEF IInv, TypeOK, Sound, Backed, Unbacked, Copies, Manages,
              vars, saved, files, bounds, history
<1>2. ASSUME NEW p \in Processes, Start(p) PROVE IInv'
  <2>1. ASSUME NEW w \in scenario.within, Configure(p, w) PROVE IInv'
    BY <2>1, ConfigureKeeps DEF IInv, TypeOK
  <2>2. ASSUME NEW t \in Tools, NEW w \in scenario.within, Launch(p, t, w) PROVE IInv'
    BY <2>2, LaunchKeeps DEF IInv, TypeOK
  <2> QED
    BY <1>2, <2>1, <2>2, RevertKeeps DEF Start
<1>3. ASSUME NEW p \in Processes, Choose(p) PROVE IInv'
  BY <1>3, GateKeeps, EnsureKeeps, ApplyPolicyKeeps, PickKeeps, NextToolKeeps, RestoreFacts
     DEF Choose
<1>4. ASSUME NEW p \in Processes,
             \/ LoadShared(p) \/ SaveShared(p) \/ SharedFails(p) \/ Configured(p)
             \/ Look(p) \/ Copy(p) \/ Write(p) \/ Mark(p) \/ List(p) \/ WriterFails(p)
             \/ Refresh(p) \/ Exit(p) \/ Clear(p) \/ KeepState(p) \/ Kill(p)
      PROVE  IInv'
  BY <1>4, LoadSharedKeeps, SaveSharedKeeps, ConfiguredKeeps, LookKeeps, CopyKeeps, WriteKeeps,
     MarkKeeps, ListKeeps, WriterFailsKeeps, RefreshKeeps, ClearKeeps, QuietEndKeeps
<1> QED
  BY <1>1, <1>2, <1>3, <1>4 DEF Next

LEMMA Invariance == Spec => []IInv
  BY InitHolds, NextKeeps, PTL DEF Spec

\* Every variable keeps its type.
THEOREM TypeCorrect == Spec => []TypeOK
<1>1. IInv => TypeOK
  BY DEF IInv
<1> QED
  BY <1>1, Invariance, PTL

\* No administrator's source is ever saved as the developer's, however many commands run side by
\* side, fail or are killed, and with whichever policies.
THEOREM OwnSourcesSaved == Spec => []OwnSourcesOnly
<1>1. IInv => OwnSourcesOnly
  BY DEF IInv, OwnSourcesOnly, OwnMaps, Own
<1> QED
  BY <1>1, Invariance, PTL

\* The first revert that touches a file of the user's gives it back.
THEOREM UsersFilesReturned == Spec => FirstRevertRestores
<1> DEFINE Returned == \A t \in theirs \ raced : t \in touched' \ touched => file'[t] = UsersOwn
<1>1. ASSUME IInv, Next PROVE Returned
  <2>1. ASSUME NEW p \in Processes, NEW t \in Tools, Restore(p, t) PROVE Returned
    BY <1>1, <2>1, RestoreFacts
  <2>2. CASE touched' = touched
    BY <2>2
  <2>3. ASSUME NEW p \in Processes, Start(p) PROVE touched' = touched
    BY <2>3 DEF Start, Configure, Launch, Revert, Begin
  <2>4. ASSUME NEW p \in Processes, Choose(p) PROVE Returned
    BY <2>1, <2>2, <2>4 DEF Choose, Gate, Ensure, ApplyPolicy, Pick, NextTool, history
  <2>5. ASSUME NEW p \in Processes,
               \/ LoadShared(p) \/ SaveShared(p) \/ SharedFails(p) \/ Configured(p)
               \/ Look(p) \/ Copy(p) \/ Write(p) \/ Mark(p) \/ List(p) \/ WriterFails(p)
               \/ Refresh(p) \/ Exit(p) \/ Clear(p) \/ KeepState(p) \/ Kill(p)
        PROVE  touched' = touched
    BY <2>5 DEF LoadShared, SaveShared, SharedFails, Configured, Look, Copy, Write, Mark, List,
                WriterFails, Refresh, Exit, Clear, KeepState, Kill, history
  <2> QED
    BY <1>1, <2>2, <2>3, <2>4, <2>5 DEF Next
<1>2. IInv /\ [Next]_vars => [Returned]_vars
  BY <1>1
<1> QED
  BY <1>2, Invariance, PTL DEF Spec, FirstRevertRestores

-----------------------------------------------------------------------------
(* Commands that run one at a time. *)

\* The block has what a state would save, but for the agents it manages.
Agrees(m, b) ==
  m.block.available = b[m.ws].available /\ Persisted(m).source = b[m.ws].source

\* What the only command that runs holds, beside the workspace ws that is current, the blocks b
\* and the agents' files f.
InOrder(l, r, ws, b, f) ==
  /\ l \in {"policy", "next"} => r.kind = "configure"
  /\ l \in Writing /\ r.kind \in {"first", "refresh"} => r.tool \in Refreshing
  /\ l = "shared" /\ ~r.switched => r.mem.block = b[r.mem.ws]
  /\ l \in {"load", "shared"} /\ r.kind = "launch" /\ ~r.setup =>
       /\ r.mem.ws = ws /\ r.provider = b[ws].source[r.tool]
       /\ l = "shared" => ~r.switched
  /\ l \in {"policy", "next"} \/ (r.kind = "configure" /\ l \in Writing \cup {"list"})
       => Agrees(r.mem, b)
  /\ l \in Writing \cup {"list", "started"} => Agrees(r.work, b)
  /\ r.kind = "configure" /\ l \in Writing \cup {"list"} => r.work.ws = r.mem.ws
  /\ l \in Writing => r.provider = r.work.block.source[r.tool]
  /\ l = "started" => r.kind # "configure"
  /\ r.kind # "configure" /\ ~r.setup /\ l \in Writing \cup {"started"} =>
       /\ r.policy.source = None => ~r.work.layered
       /\ r.policy.source # None => r.work.block.source[r.tool] = r.policy.source
       /\ l \in {"mark", "started"} \/ r.kind \in {"first", "refresh"}
            => f[r.tool] = Generated(r.work.ws, r.work.block.source[r.tool])

Serial == ~overlapped =>
  /\ \A p, q \in Processes : pc[p] # "idle" /\ pc[q] # "idle" => p = q
  /\ \A p \in Processes : InOrder(pc[p], run[p], current, block, file)

\* What a step may do to the blocks.
Keeps(w) ==
  block[w].available \subseteq block'[w].available /\ block[w].source = block'[w].source

Spared ==
  \A w \in Workspaces :
    \/ Keeps(w)
    \/ \E p \in Processes :
         \/ pc[p] = "restore"
         \/ pc[p] = "shared" /\ run[p].switched
         \/ pc[p] = "policy" /\ block[w].available \subseteq block'[w].available

LEMMA InitSerial == Init => Serial
<1>1. Init => \A p \in Processes : pc[p] = "idle"
  BY DEF Init
<1> QED
  BY <1>1 DEF Serial, InOrder, Writing

\* A step of a command that has begun.
LEMMA OrderKeeps ==
  ASSUME IInv, Serial, NEW p \in Processes, NEW l, NEW r, Go(p, l, r), pc[p] # "idle",
         overlapped' = overlapped,
         ~overlapped => InOrder(l, r, current', block', file')
  PROVE  Serial'
<1>1. /\ pc \in [Processes -> Labels] /\ run \in [Processes -> Runs]
      /\ pc' = [pc EXCEPT ![p] = l] /\ run' = [run EXCEPT ![p] = r]
  BY DEF IInv, TypeOK, Go
<1>2. \A q \in Processes : /\ pc'[q] = (IF q = p THEN l ELSE pc[q])
                           /\ run'[q] = (IF q = p THEN r ELSE run[q])
  BY <1>1
<1>3. SUFFICES ASSUME ~overlapped
               PROVE  /\ \A x, y \in Processes : pc'[x] # "idle" /\ pc'[y] # "idle" => x = y
                      /\ \A q \in Processes : InOrder(pc'[q], run'[q], current', block', file')
  BY DEF Serial
<1>4. \A q \in Processes : q # p => pc'[q] = "idle"
  BY <1>2, <1>3 DEF Serial
<1>5. \A q \in Processes : InOrder("idle", run'[q], current', block', file')
  BY DEF InOrder, Writing
<1>6. InOrder(l, r, current', block', file')
  BY <1>3
<1>7. \A q \in Processes : InOrder(pc'[q], run'[q], current', block', file')
  <2> HIDE DEF InOrder
  <2> TAKE q \in Processes
  <2>1. CASE q = p
    BY <1>2, <1>6, <2>1
  <2>2. CASE q # p
    BY <1>4, <1>5, <2>2
  <2> QED
    BY <2>1, <2>2
<1> QED
  BY <1>4, <1>7

LEMMA EndOrder ==
  ASSUME IInv, Serial, NEW p \in Processes, End(p), pc[p] # "idle", overlapped' = overlapped
  PROVE  Serial'
<1>1. InOrder("idle", NoRun, current', block', file')
  BY DEF InOrder, Writing
<1> QED
  BY <1>1, OrderKeeps DEF End

LEMMA BeginOrder ==
  ASSUME IInv, Serial, NEW p \in Processes, NEW l, NEW r, Begin(p), Go(p, l, r),
         ~overlapped => InOrder(l, r, current', block', file')
  PROVE  Serial'
<1>1. /\ pc \in [Processes -> Labels] /\ run \in [Processes -> Runs]
      /\ pc' = [pc EXCEPT ![p] = l] /\ run' = [run EXCEPT ![p] = r]
  BY DEF IInv, TypeOK, Go
<1>2. \A q \in Processes : /\ pc'[q] = (IF q = p THEN l ELSE pc[q])
                           /\ run'[q] = (IF q = p THEN r ELSE run[q])
  BY <1>1
<1>3. SUFFICES ASSUME ~overlapped'
               PROVE  /\ \A x, y \in Processes : pc'[x] # "idle" /\ pc'[y] # "idle" => x = y
                      /\ \A q \in Processes : InOrder(pc'[q], run'[q], current', block', file')
  BY DEF Serial
<1>4. ~overlapped /\ \A q \in Processes : pc[q] = "idle"
  BY <1>3 DEF Begin, Busy, IInv, TypeOK
<1>5. \A q \in Processes : InOrder("idle", run'[q], current', block', file')
  BY DEF InOrder, Writing
<1>6. InOrder(l, r, current', block', file')
  BY <1>4
<1>7. \A q \in Processes : InOrder(pc'[q], run'[q], current', block', file')
  <2> HIDE DEF InOrder
  <2> TAKE q \in Processes
  <2>1. CASE q = p
    BY <1>2, <1>6, <2>1
  <2>2. CASE q # p
    BY <1>2, <1>4, <1>5, <2>2
  <2> QED
    BY <2>1, <2>2
<1> QED
  BY <1>2, <1>4, <1>7

\* What a save leaves of the blocks, and when it costs them nothing.
LEMMA SaveAgrees ==
  ASSUME IInv, NEW m, Clean(m), m.ws \in Workspaces, Save(m)
  PROVE  /\ current' = m.ws /\ block'[m.ws] = Persisted(m)
         /\ Agrees(m, block')
         /\ \A n : n.ws = m.ws /\ n.block.available = m.block.available
                     /\ Persisted(n).source = Persisted(m).source => Agrees(n, block')
         /\ \A w \in Workspaces : w # m.ws => block'[w] = block[w]
         /\ block[m.ws].available \subseteq m.block.available
              /\ Persisted(m).source = block[m.ws].source => \A w \in Workspaces : Keeps(w)
         /\ block[m.ws].available \subseteq m.block.available =>
              \A w \in Workspaces : block[w].available \subseteq block'[w].available
<1>1. /\ block' = [block EXCEPT ![m.ws] = Persisted(m)] /\ current' = m.ws
      /\ block \in [Workspaces -> Blocks]
  BY DEF Save, IInv, TypeOK
<1>2. Persisted(m).available = m.block.available
  BY DEF Persisted, Clean, States, Blocks
<1>3. /\ block'[m.ws] = Persisted(m) /\ \A w \in Workspaces : w # m.ws => block'[w] = block[w]
  BY <1>1
<1>4. Agrees(m, block')
  BY <1>2, <1>3 DEF Agrees
<1>5. ASSUME NEW n, n.ws = m.ws, n.block.available = m.block.available,
             Persisted(n).source = Persisted(m).source
      PROVE  Agrees(n, block')
  BY <1>4, <1>5 DEF Agrees
<1> QED
  BY <1>1, <1>2, <1>3, <1>4, <1>5 DEF Keeps

LEMMA ResolveAgrees ==
  ASSUME NEW m, Clean(m), ~m.layered, NEW policy \in Policies, NEW t \in Tools
  PROVE  LET x == Resolve(policy, m, t) IN
           /\ x.ws = m.ws /\ x.block.available = m.block.available
           /\ Persisted(x).source = m.block.source /\ Persisted(m).source = m.block.source
           /\ policy.source = None => x = m
           /\ policy.source # None => x.block.source[t] = policy.source
<1>1. m \in States /\ m.block.source \in OwnMaps /\ m.block \in Blocks
  BY DEF Clean, Persisted, States
<1>2. Persisted(m).source = m.block.source
  BY DEF Persisted
<1>3. policy.source \in AdminSources \cup {None}
  OBVIOUS
<1>4. CASE policy.source = None
  BY <1>1, <1>2, <1>4 DEF Resolve
<1>5. CASE policy.source # None
  <2>1. policy.source # m.block.source[t]
    BY <1>1, <1>3, <1>5 DEF OwnMaps, Own
  <2> DEFINE x == [m EXCEPT !.layered = TRUE, !.own = m.block.source,
                            !.block.source[t] = policy.source]
  <2>2. Resolve(policy, m, t) = x
    BY <1>5, <2>1 DEF Resolve
  <2>3. /\ x.layered /\ x.own = m.block.source /\ x.ws = m.ws
        /\ x.block.available = m.block.available /\ x.block.source[t] = policy.source
        /\ x.block \in Blocks
    BY <1>1, <1>3 DEF States, Blocks, Sources
  <2> HIDE DEF x
  <2>4. Persisted(x).source = m.block.source
    BY <2>3 DEF Persisted, Blocks
  <2> QED
    BY <1>2, <1>5, <2>2, <2>3, <2>4
<1> QED
  BY <1>4, <1>5

\* A record that an agent is managed changes no source: what its writer stores is there already.
LEMMA MarkedAgrees ==
  ASSUME NEW r \in Runs, Clean(r.work), r.tool \in Tools,
         r.provider = r.work.block.source[r.tool]
  PROVE  LET m == Marked(r) IN
           /\ m.ws = r.work.ws /\ m.layered = r.work.layered
           /\ m.block.available = r.work.block.available
           /\ m.block.source = r.work.block.source
           /\ Persisted(m).source = Persisted(r.work).source
<1>1. r.work \in States /\ r.work.block \in Blocks
  BY DEF Runs, States
<1> DEFINE b == [r.work.block EXCEPT !.managed = @ \cup {r.tool}]
           c == IF r.tool \in Refreshing /\ r.provider # None
                  THEN [b EXCEPT !.source[r.tool] = r.provider] ELSE b
<1>2. b \in Blocks /\ b.available = r.work.block.available /\ b.source = r.work.block.source
  BY <1>1 DEF Blocks
<1> HIDE DEF b
<1>3. c \in Blocks /\ c.available = r.work.block.available /\ c.source = r.work.block.source
  BY <1>1, <1>2 DEF Blocks
<1> HIDE DEF c
<1>4. Marked(r) = [r.work EXCEPT !.block = c]
  BY DEF Marked, b, c
<1>5. /\ Marked(r).ws = r.work.ws /\ Marked(r).layered = r.work.layered
      /\ Marked(r).block = c /\ Marked(r).own = r.work.own
  BY <1>1, <1>4 DEF States
<1> QED
  BY <1>1, <1>3, <1>5 DEF Persisted, Blocks

\* What is to be shown of every step.
Orderly == Serial' /\ (Alone => Spared)

\* A step that saves nothing costs no block anything.
LEMMA QuietSpares ==
  ASSUME block' = block
  PROVE  Spared
  BY DEF Spared, Keeps

\* A policy and a command's own block agree on the source to write.
LEMMA LoadedIs ==
  ASSUME IInv, current \in Workspaces
  PROVE  Loaded.block = block[current] /\ Loaded.ws = current /\ ~Loaded.layered
<1>1. Loaded = [NoState EXCEPT !.ws = current, !.block = block[current]]
  BY DEF Loaded
<1> QED
  BY <1>1, EmptyFacts DEF States

LEMMA ConfigureOrder ==
  ASSUME IInv, Serial, NEW p \in Processes, NEW w \in Workspaces, Configure(p, w)
  PROVE  Orderly
<1> DEFINE m == [Loaded EXCEPT !.ws = w]
           r == [NoRun EXCEPT !.kind = "configure", !.mem = m, !.switched = (current # w)]
<1>1. Go(p, "shared", r) /\ Begin(p) /\ UNCHANGED saved
  BY DEF Configure
<1>2. m.ws = w /\ m.block = Loaded.block
  BY LoadedFacts
<1> HIDE DEF m
<1>3. r.kind = "configure" /\ r.mem = m /\ r.switched = (current # w)
  BY DEF NoRun
<1> HIDE DEF r
<1>4. current = w => m.block = block[w]
  BY <1>2, LoadedIs
<1>5. InOrder("shared", r, current', block', file')
  BY <1>1, <1>2, <1>3, <1>4 DEF InOrder, Writing, saved
<1>6. Serial'
  BY <1>1, <1>5, BeginOrder
<1> QED
  BY <1>1, <1>6, QuietSpares DEF Orderly, saved

LEMMA LaunchOrder ==
  ASSUME IInv, Serial, NEW p \in Processes, NEW t \in Tools, NEW w \in Workspaces, Launch(p, t, w)
  PROVE  Orderly
<1> DEFINE r == [NoRun EXCEPT !.kind = "launch", !.tool = t, !.mem.ws = w,
                              !.setup = (current' = None \/ t \notin block[w].available)]
<1>1. Go(p, "gate", r) /\ Begin(p) /\ block' = block
  BY DEF Launch
<1> HIDE DEF r
<1>2. InOrder("gate", r, current', block', file') \/ r.kind # "launch"
  BY DEF InOrder, Writing
<1>3. r.kind = "launch"
  BY DEF r, NoRun
<1>4. Serial'
  BY <1>1, <1>2, <1>3, BeginOrder
<1> QED
  BY <1>1, <1>4, QuietSpares DEF Orderly

LEMMA RevertOrder ==
  ASSUME IInv, Serial, NEW p \in Processes, Revert(p)
  PROVE  Orderly
<1> DEFINE r == [NoRun EXCEPT !.kind = "revert", !.mem = Loaded, !.queue = Tools]
<1>1. Go(p, "restore", r) /\ Begin(p) /\ UNCHANGED saved
  BY DEF Revert
<1>2. r.kind = "revert"
  BY DEF NoRun
<1> HIDE DEF r
<1>3. InOrder("restore", r, current', block', file')
  BY <1>2 DEF InOrder, Writing
<1>4. Serial'
  BY <1>1, <1>3, BeginOrder
<1> QED
  BY <1>1, <1>4, QuietSpares DEF Orderly, saved

\* The block that a command loads is the one it will save, unless it began from another's.
LEMMA LoadSharedOrder ==
  ASSUME IInv, Serial, NEW p \in Processes, LoadShared(p)
  PROVE  Orderly
<1> DEFINE w == run[p].mem.ws
           m == [Loaded EXCEPT !.ws = w]
           r == [run[p] EXCEPT !.mem = m, !.switched = (current # w)]
<1>1. pc[p] = "load" /\ Go(p, "shared", r) /\ UNCHANGED <<saved, files, bounds, history>>
  BY DEF LoadShared
<1>2. run[p] \in Runs /\ w \in Workspaces /\ run[p].kind = "launch"
  BY <1>1 DEF IInv, Sound
<1>3. m.ws = w /\ m.block = Loaded.block
  BY <1>2, LoadedFacts
<1> HIDE DEF m
<1>4. /\ r.mem = m /\ r.kind = "launch" /\ r.switched = (current # w) /\ r.setup = run[p].setup
      /\ r.tool = run[p].tool /\ r.provider = run[p].provider
  BY <1>2 DEF Runs
<1> HIDE DEF r
<1>5. current = w => m.block = block[w]
  BY <1>2, <1>3, LoadedIs
<1>6. ASSUME ~overlapped PROVE InOrder("shared", r, current', block', file')
  <2>1. InOrder("load", run[p], current, block, file)
    BY <1>1, <1>6 DEF Serial
  <2>2. ~r.setup => current = w /\ r.provider = block[current].source[r.tool]
    BY <1>2, <1>4, <2>1 DEF InOrder
  <2> QED
    BY <1>1, <1>3, <1>4, <1>5, <2>2 DEF InOrder, Writing, saved
<1>7. Serial'
  BY <1>1, <1>6, OrderKeeps DEF history
<1> QED
  BY <1>1, <1>7, QuietSpares DEF Orderly, saved

\* What a launch hands to its writer.
LEMMA PreparedAgrees ==
  ASSUME NEW r, Sound("shared", r), r.kind = "launch", NEW b, NEW f, NEW ws,
         \A n : n.ws = r.mem.ws /\ n.block.available = r.mem.block.available
                /\ Persisted(n).source = Persisted(r.mem).source => Agrees(n, b),
         ~r.setup => r.provider = r.mem.block.source[r.tool]
  PROVE  InOrder("look", Prepared(r), ws, b, f)
<1>1. /\ r \in Runs /\ Clean(r.mem) /\ ~r.mem.layered /\ r.tool \in Tools /\ r.policy \in Policies
  BY DEF Sound, Runs
<1>2. CASE r.setup
  <2> DEFINE x == Prepared(r)
  <2>1. x = [r EXCEPT !.work = r.mem, !.provider = r.mem.block.source[r.tool]]
    BY <1>2 DEF Prepared
  <2>2. /\ x.work = r.mem /\ x.provider = r.mem.block.source[r.tool] /\ x.tool = r.tool
        /\ x.kind = "launch" /\ x.setup
    BY <1>1, <1>2, <2>1 DEF Runs
  <2> HIDE DEF x
  <2>3. Agrees(x.work, b)
    BY <2>2
  <2>4. InOrder("look", x, ws, b, f)
    BY <2>2, <2>3 DEF InOrder, Writing
  <2> QED
    BY <2>4 DEF x
<1>3. CASE ~r.setup
  <2> DEFINE work == Resolve(r.policy, r.mem, r.tool)
             source == IF r.policy.source # None THEN r.policy.source ELSE r.provider
             x == Prepared(r)
  <2>1. x = [r EXCEPT !.mem = NoState, !.work = work, !.provider = source]
    BY <1>1, <1>3 DEF Prepared, Runs
  <2>2. /\ work.ws = r.mem.ws /\ work.block.available = r.mem.block.available
        /\ Persisted(work).source = Persisted(r.mem).source
        /\ r.policy.source = None => work = r.mem
        /\ r.policy.source # None => work.block.source[r.tool] = r.policy.source
    BY <1>1, ResolveAgrees
  <2>3. Agrees(work, b)
    BY <2>2
  <2>4. source = work.block.source[r.tool]
    BY <1>3, <2>2
  <2> HIDE DEF work, source
  <2>5. /\ x.work = work /\ x.provider = source /\ x.tool = r.tool /\ x.kind = "launch"
        /\ ~x.setup /\ x.policy = r.policy
    BY <1>1, <1>3, <2>1 DEF Runs
  <2> HIDE DEF x
  <2>6. InOrder("look", x, ws, b, f)
    BY <1>1, <2>2, <2>3, <2>4, <2>5 DEF InOrder, Writing
  <2> QED
    BY <2>6 DEF x
<1> QED
  BY <1>2, <1>3

LEMMA SaveSharedOrder ==
  ASSUME IInv, Serial, NEW p \in Processes, SaveShared(p)
  PROVE  Orderly
<1> DEFINE r == run[p]
           m == run[p].mem
<1>1. /\ pc[p] = "shared" /\ Save(m) /\ UNCHANGED <<files, bounds, history>>
      /\ Sound("shared", r)
  BY DEF SaveShared, IInv
<1>2. Clean(m) /\ m.ws \in Workspaces /\ ~m.layered /\ Persisted(m) = m.block
  BY <1>1 DEF Sound, Persisted
<1>3. ASSUME ~overlapped
      PROVE  /\ InOrder("shared", r, current, block, file)
             /\ Agrees(m, block')
             /\ \A n : n.ws = m.ws /\ n.block.available = m.block.available
                       /\ Persisted(n).source = Persisted(m).source => Agrees(n, block')
             /\ ~r.switched => \A w \in Workspaces : Keeps(w)
  <2>1. InOrder("shared", r, current, block, file)
    BY <1>1, <1>3 DEF Serial
  <2>2. ~r.switched => m.block = block[m.ws]
    BY <2>1 DEF InOrder
  <2>3. ~r.switched => block[m.ws].available \subseteq m.block.available
                       /\ Persisted(m).source = block[m.ws].source
    BY <1>2, <2>2
  <2> QED
    BY <1>1, <1>2, <2>1, <2>3, SaveAgrees
<1>4. Alone => Spared
  BY <1>1, <1>3 DEF Alone, Spared, history
<1>5. CASE r.kind = "configure"
  <2>1. Go(p, "policy", r)
    BY <1>5 DEF SaveShared
  <2>2. ~overlapped => InOrder("policy", r, current', block', file')
    BY <1>3, <1>5 DEF InOrder, Writing
  <2> QED
    BY <1>1, <1>4, <2>1, <2>2, OrderKeeps DEF Orderly, history
<1>6. CASE r.kind # "configure"
  <2>1. Go(p, "look", Prepared(r)) /\ r.kind = "launch"
    BY <1>1, <1>6 DEF SaveShared, Sound
  <2>2. ASSUME ~overlapped PROVE InOrder("look", Prepared(r), current', block', file')
    <3>1. ~r.setup => r.provider = m.block.source[r.tool]
      BY <1>3, <2>1, <2>2 DEF InOrder
    <3> QED
      BY <1>1, <1>3, <2>1, <2>2, <3>1, PreparedAgrees
  <2> QED
    BY <1>1, <1>4, <2>1, <2>2, OrderKeeps DEF Orderly, history
<1> QED
  BY <1>5, <1>6

LEMMA QuietEndOrder ==
  ASSUME IInv, Serial, NEW p \in Processes,
         SharedFails(p) \/ Exit(p) \/ KeepState(p) \/ Kill(p)
  PROVE  Orderly
<1>1. End(p) /\ pc[p] # "idle" /\ block' = block /\ overlapped' = overlapped
  BY DEF SharedFails, Exit, KeepState, Kill, saved, history
<1> QED
  BY <1>1, EndOrder, QuietSpares DEF Orderly

LEMMA ClearOrder ==
  ASSUME IInv, Serial, NEW p \in Processes, Clear(p)
  PROVE  Orderly
<1>1. End(p) /\ pc[p] = "restore" /\ overlapped' = overlapped
  BY DEF Clear, history
<1> QED
  BY <1>1, EndOrder DEF Orderly, Spared

LEMMA RestoreOrder ==
  ASSUME IInv, Serial, NEW p \in Processes, NEW t \in Tools, Restore(p, t)
  PROVE  Orderly
<1> DEFINE r == run[p]
           n == [r EXCEPT !.queue = @ \ {t}]
<1>1. /\ pc[p] = "restore" /\ Go(p, "restore", n) /\ UNCHANGED saved /\ overlapped' = overlapped
      /\ r \in Runs
  BY DEF Restore, IInv, Sound
<1> HIDE DEF n
<1>2. InOrder("restore", n, current', block', file')
  BY DEF InOrder, Writing
<1> QED
  BY <1>1, <1>2, OrderKeeps, QuietSpares DEF Orderly, saved

LEMMA ApplyPolicyOrder ==
  ASSUME IInv, Serial, NEW p \in Processes, NEW a \in Policies, NEW tools \in SUBSET Tools,
         ApplyPolicy(p, a, tools)
  PROVE  Orderly
<1> DEFINE r == [run[p] EXCEPT !.policy = a, !.queue = tools]
<1>1. /\ pc[p] = "policy" /\ Go(p, "next", r) /\ UNCHANGED <<saved, files, bounds, history>>
      /\ run[p] \in Runs
  BY DEF ApplyPolicy, IInv, Sound
<1>2. r.kind = run[p].kind /\ r.mem = run[p].mem
  BY <1>1 DEF Runs
<1> HIDE DEF r
<1>3. ASSUME ~overlapped PROVE InOrder("next", r, current', block', file')
  <2>1. InOrder("policy", run[p], current, block, file)
    BY <1>1, <1>3 DEF Serial
  <2> QED
    BY <1>1, <1>2, <2>1 DEF InOrder, Writing, saved
<1> QED
  BY <1>1, <1>3, OrderKeeps, QuietSpares DEF Orderly, saved, history

\* A developer's choice changes the source of one agent, and no agent's availability.
LEMMA PickOrder ==
  ASSUME IInv, Serial, NEW p \in Processes, NEW tools \in SUBSET Tools, NEW t \in Tools,
         NEW s \in OwnSources \cup {None}, Pick(p, tools, t, s)
  PROVE  Orderly
<1> DEFINE m == [run[p].mem EXCEPT !.block.source[t] = s]
           r == [run[p] EXCEPT !.mem = m, !.queue = tools]
<1>1. /\ pc[p] = "policy" /\ Save(m) /\ Go(p, "next", r) /\ UNCHANGED <<files, bounds, history>>
      /\ Sound("policy", run[p])
  BY DEF Pick, IInv
<1>2. /\ run[p] \in Runs /\ run[p].mem \in States /\ run[p].mem.block \in Blocks
      /\ ~run[p].mem.layered /\ run[p].mem.block.source \in OwnMaps
      /\ run[p].mem.ws \in Workspaces
  BY <1>1 DEF Sound, Clean, Persisted, Runs, States
<1>3. /\ m \in States /\ ~m.layered /\ m.ws = run[p].mem.ws /\ m.block.source \in OwnMaps
      /\ m.block.available = run[p].mem.block.available
  BY <1>2 DEF States, Blocks, Sources, OwnMaps, Own
<1>4. Clean(m)
  BY <1>3 DEF Clean, Persisted
<1> HIDE DEF m
<1>5. r.mem = m /\ r.kind = run[p].kind
  BY <1>2 DEF Runs
<1> HIDE DEF r
<1>6. ASSUME ~overlapped PROVE InOrder("next", r, current', block', file') /\ Spared
  <2>1. InOrder("policy", run[p], current, block, file)
    BY <1>1, <1>6 DEF Serial
  <2>2. block[m.ws].available \subseteq m.block.available /\ r.kind = "configure"
    BY <1>3, <1>5, <2>1 DEF InOrder, Agrees
  <2>3. Agrees(m, block') /\ \A w \in Workspaces : block[w].available \subseteq block'[w].available
    BY <1>1, <1>2, <1>3, <1>4, <2>2, SaveAgrees
  <2> QED
    BY <1>1, <1>5, <2>2, <2>3 DEF InOrder, Writing, Spared
<1> QED
  BY <1>1, <1>6, OrderKeeps DEF Orderly, Alone, history

LEMMA NextToolOrder ==
  ASSUME IInv, Serial, NEW p \in Processes, NEW t \in Tools, NextTool(p, t)
  PROVE  Orderly
<1> DEFINE work == IF Governs(run[p]) THEN Resolve(run[p].policy, run[p].mem, t) ELSE run[p].mem
           r == [run[p] EXCEPT !.tool = t, !.queue = @ \ {t}, !.work = work,
                               !.provider = work.block.source[t]]
<1>1. pc[p] = "next" /\ Go(p, "look", r) /\ UNCHANGED <<saved, files, bounds, history>>
      /\ Sound("next", run[p])
  BY DEF NextTool, IInv
<1>2. /\ run[p] \in Runs /\ Clean(run[p].mem) /\ ~run[p].mem.layered /\ run[p].policy \in Policies
  BY <1>1 DEF Sound, Runs
<1>3. /\ work.ws = run[p].mem.ws /\ work.block.available = run[p].mem.block.available
      /\ Persisted(work).source = Persisted(run[p].mem).source
  BY <1>2, ResolveAgrees
<1> HIDE DEF work
<1>4. /\ r.mem = run[p].mem /\ r.work = work /\ r.kind = run[p].kind /\ r.tool = t
      /\ r.provider = work.block.source[t]
  BY <1>2 DEF Runs
<1> HIDE DEF r
<1>5. ASSUME ~overlapped PROVE InOrder("look", r, current', block', file')
  <2>1. InOrder("next", run[p], current, block, file)
    BY <1>1, <1>5 DEF Serial
  <2>2. r.kind = "configure" /\ Agrees(r.mem, block) /\ Agrees(r.work, block)
    BY <1>3, <1>4, <2>1 DEF InOrder, Agrees
  <2> QED
    BY <1>1, <1>3, <1>4, <2>2 DEF InOrder, Writing, saved
<1> QED
  BY <1>1, <1>5, OrderKeeps, QuietSpares DEF Orderly, saved, history

\* What a configure lists at its end is added to what is there.
LEMMA ConfiguredOrder ==
  ASSUME IInv, Serial, NEW p \in Processes, Configured(p)
  PROVE  Orderly
<1> DEFINE m == [run[p].mem EXCEPT !.block.available = @ \cup run[p].did]
           A == run[p].mem.block.available \cup run[p].did
<1>1. /\ pc[p] = "next" /\ End(p) /\ UNCHANGED <<files, bounds, history>>
      /\ Sound("next", run[p])
  BY DEF Configured, IInv
<1>2. Serial'
  BY <1>1, EndOrder DEF history
<1>3. CASE UNCHANGED saved
  BY <1>2, <1>3, QuietSpares DEF Orderly, saved
<1>4. CASE Save(m)
  <2>1. /\ Clean(run[p].mem) /\ run[p].mem.ws \in Workspaces /\ ~run[p].mem.layered
        /\ A \in SUBSET Tools /\ m = [run[p].mem EXCEPT !.block.available = A]
    BY <1>1 DEF Sound, Runs, States, Blocks
  <2>2. /\ Clean(m) /\ m.ws = run[p].mem.ws /\ m.block.available = A /\ ~m.layered
        /\ m.block.source = run[p].mem.block.source
    BY <2>1, ListedFacts DEF Clean, States, Blocks
  <2> HIDE DEF m
  <2>3. ASSUME ~overlapped PROVE Spared
    <3>1. Agrees(run[p].mem, block)
      BY <1>1, <2>3 DEF Serial, InOrder
    <3>2. /\ block[m.ws].available \subseteq m.block.available
          /\ Persisted(m).source = block[m.ws].source
      BY <2>1, <2>2, <3>1 DEF Agrees, Persisted
    <3>3. \A w \in Workspaces : Keeps(w)
      BY <1>4, <2>1, <2>2, <3>2, SaveAgrees
    <3> QED
      BY <3>3 DEF Spared
  <2> QED
    BY <1>1, <1>2, <2>3 DEF Orderly, Alone, history
<1> QED
  BY <1>3, <1>4 DEF Configured

\* A writer's steps leave what it holds as it is.
LEMMA LookOrder ==
  ASSUME IInv, Serial, NEW p \in Processes, Look(p) \/ Copy(p)
  PROVE  Orderly
<1> DEFINE r == run[p]
<1>1. /\ pc[p] \in {"look", "copy"} /\ block' = block /\ file' = file /\ current' = current
      /\ overlapped' = overlapped
      /\ Go(p, "copy", r) \/ Go(p, "write", r)
  BY DEF Look, Copy, saved, files, history
<1> HIDE DEF r
<1>2. ASSUME ~overlapped, NEW l \in {"copy", "write"} PROVE InOrder(l, r, current', block', file')
  <2>1. InOrder(pc[p], r, current, block, file)
    BY <1>1, <1>2 DEF Serial, r
  <2> QED
    BY <1>1, <1>2, <2>1 DEF InOrder, Writing
<1>3. Serial'
  BY <1>1, <1>2, OrderKeeps
<1> QED
  BY <1>1, <1>3, QuietSpares DEF Orderly

LEMMA WriteOrder ==
  ASSUME IInv, Serial, NEW p \in Processes, Write(p)
  PROVE  Orderly
<1> DEFINE r == run[p]
<1>1. /\ pc[p] = "write" /\ Go(p, "mark", r) /\ r.tool \in Tools
      /\ file' = [file EXCEPT ![r.tool] = Generated(r.work.ws, r.provider)]
      /\ UNCHANGED <<saved, backup, bounds, history>>
  BY DEF Write, IInv, Sound, Writing
<1>2. file'[r.tool] = Generated(r.work.ws, r.provider)
  BY <1>1 DEF IInv, TypeOK
<1> HIDE DEF r
<1>3. ASSUME ~overlapped PROVE InOrder("mark", r, current', block', file')
  <2>1. InOrder("write", r, current, block, file)
    BY <1>1, <1>3 DEF Serial, r
  <2>2. r.provider = r.work.block.source[r.tool]
    BY <2>1 DEF InOrder, Writing
  <2>3. file'[r.tool] = Generated(r.work.ws, r.work.block.source[r.tool])
    BY <1>2, <2>2
  <2> QED
    BY <1>1, <2>1, <2>3 DEF InOrder, Writing, saved
<1> QED
  BY <1>1, <1>3, OrderKeeps, QuietSpares DEF Orderly, saved, history

\* The record of a managed agent costs the blocks nothing, and the state it leaves is what the
\* blocks hold.
LEMMA MarkOrder ==
  ASSUME IInv, Serial, NEW p \in Processes, Mark(p)
  PROVE  Orderly
<1> DEFINE m == Marked(run[p])
           s == [run[p] EXCEPT !.work = m]
<1>1. /\ pc[p] = "mark" /\ Save(m) /\ UNCHANGED <<files, bounds, history>>
      /\ Sound("mark", run[p])
  BY DEF Mark, IInv
<1>2. /\ run[p] \in Runs /\ Clean(run[p].mem) /\ ~run[p].mem.layered /\ Clean(run[p].work)
      /\ run[p].tool \in Tools /\ run[p].work.ws \in Workspaces
      /\ run[p].work.layered \/ run[p].provider \in Own
  BY <1>1 DEF Sound, Writing
<1>3. Clean(m) /\ m.ws = run[p].work.ws /\ m.layered = run[p].work.layered
  BY <1>2, MarkedFacts
<1>4. m \in States
  BY <1>3 DEF Clean
<1>5. ASSUME ~overlapped
      PROVE  /\ InOrder("mark", run[p], current, block, file)
             /\ m.block.available = run[p].work.block.available
             /\ m.block.source = run[p].work.block.source
             /\ Agrees(m, block') /\ Spared
             /\ run[p].kind = "configure" => Agrees(run[p].mem, block')
  <2>1. InOrder("mark", run[p], current, block, file)
    BY <1>1, <1>5 DEF Serial
  <2>2. run[p].provider = run[p].work.block.source[run[p].tool] /\ Agrees(run[p].work, block)
    BY <2>1 DEF InOrder, Writing
  <2>3. /\ m.block.available = run[p].work.block.available
        /\ m.block.source = run[p].work.block.source
        /\ Persisted(m).source = Persisted(run[p].work).source
    BY <1>2, <2>2, MarkedAgrees
  <2>4. /\ block[m.ws].available = m.block.available
        /\ Persisted(m).source = block[m.ws].source
    BY <1>3, <2>2, <2>3 DEF Agrees
  <2>5. /\ Agrees(m, block') /\ \A w \in Workspaces : Keeps(w)
        /\ \A n : n.ws = m.ws /\ n.block.available = m.block.available
                  /\ Persisted(n).source = Persisted(m).source => Agrees(n, block')
    <3>1. m.ws \in Workspaces
      BY <1>2, <1>3
    <3> HIDE DEF m
    <3> QED
      BY <1>1, <1>3, <2>4, <3>1, SaveAgrees
  <2>6. ASSUME run[p].kind = "configure" PROVE Agrees(run[p].mem, block')
    <3>1. Agrees(run[p].mem, block) /\ run[p].mem.ws = m.ws
      BY <1>3, <2>1, <2>6 DEF InOrder, Writing
    <3> QED
      BY <2>4, <2>5, <3>1 DEF Agrees
  <2> QED
    BY <2>1, <2>3, <2>5, <2>6 DEF Spared
<1>6. Alone => Spared
  BY <1>1, <1>5 DEF Alone, history
<1> HIDE DEF m
<1>7. CASE run[p].kind = "configure" /\ ~Governs(run[p])
  <2> DEFINE r == [s EXCEPT !.mem = m, !.did = @ \cup {run[p].tool}]
             x == [r EXCEPT !.tool = None, !.work = NoState, !.provider = None]
  <2>1. Go(p, "next", x)
    BY <1>7 DEF Mark, Resume, m
  <2>2. x.mem = m /\ x.kind = "configure"
    BY <1>2, <1>4, <1>7 DEF Runs
  <2> HIDE DEF x
  <2>3. ASSUME ~overlapped PROVE InOrder("next", x, current', block', file')
    BY <1>5, <2>2, <2>3 DEF InOrder, Writing
  <2> QED
    BY <1>1, <1>6, <2>1, <2>3, OrderKeeps DEF Orderly, history
<1>8. CASE ~(run[p].kind = "configure" /\ ~Governs(run[p]))
           /\ (run[p].kind = "configure" \/ run[p].setup)
  <2> DEFINE r == [s EXCEPT !.did = {run[p].tool}]
  <2>1. Go(p, "list", r)
    BY <1>8 DEF Mark, m
  <2>2. r.mem = run[p].mem /\ r.work = m /\ r.kind = run[p].kind
    BY <1>2, <1>4 DEF Runs
  <2> HIDE DEF r
  <2>3. ASSUME ~overlapped PROVE InOrder("list", r, current', block', file')
    <3>1. r.kind = "configure" => r.work.ws = r.mem.ws
      BY <1>3, <1>5, <2>2, <2>3 DEF InOrder, Writing
    <3> QED
      BY <1>5, <2>2, <2>3, <3>1 DEF InOrder, Writing
  <2> QED
    BY <1>1, <1>6, <2>1, <2>3, OrderKeeps DEF Orderly, history
<1>9. CASE ~(run[p].kind = "configure" /\ ~Governs(run[p]))
           /\ ~(run[p].kind = "configure" \/ run[p].setup)
  <2>1. Go(p, "started", s)
    BY <1>9 DEF Mark, m
  <2>2. /\ s.work = m /\ s.kind = run[p].kind /\ s.tool = run[p].tool /\ s.policy = run[p].policy
        /\ ~s.setup
    BY <1>2, <1>4, <1>9 DEF Runs
  <2> HIDE DEF s
  <2>3. ASSUME ~overlapped PROVE InOrder("started", s, current', block', file')
    <3>1. /\ s.policy.source = None => ~s.work.layered
          /\ s.policy.source # None => s.work.block.source[s.tool] = s.policy.source
          /\ file[s.tool] = Generated(s.work.ws, s.work.block.source[s.tool])
      BY <1>3, <1>5, <1>9, <2>2, <2>3 DEF InOrder, Writing
    <3> QED
      BY <1>1, <1>5, <1>9, <2>2, <2>3, <3>1 DEF InOrder, Writing, files
  <2> QED
    BY <1>1, <1>6, <2>1, <2>3, OrderKeeps DEF Orderly, history
<1> QED
  BY <1>7, <1>8, <1>9

\* The list of available agents only grows, and a configure goes on with what was saved.
LEMMA ListOrder ==
  ASSUME IInv, Serial, NEW p \in Processes, List(p)
  PROVE  Orderly
<1> DEFINE A == run[p].work.block.available \cup run[p].did
           m == [run[p].work EXCEPT !.block.available = @ \cup run[p].did]
<1>1. /\ pc[p] = "list" /\ Save(m) /\ UNCHANGED <<files, bounds, history>>
      /\ Sound("list", run[p])
  BY DEF List, IInv
<1>2. /\ run[p] \in Runs /\ Clean(run[p].mem) /\ ~run[p].mem.layered /\ Clean(run[p].work)
      /\ run[p].work.ws \in Workspaces /\ A \in SUBSET Tools
      /\ m = [run[p].work EXCEPT !.block.available = A]
  BY <1>1 DEF Sound, Runs, States, Blocks
<1>3. /\ Clean(m) /\ m.ws = run[p].work.ws /\ m.block.available = A
      /\ Persisted(m).source = Persisted(run[p].work).source
  BY <1>2, ListedFacts DEF Clean, Persisted, States, Blocks
<1>4. ASSUME ~overlapped
      PROVE  /\ InOrder("list", run[p], current, block, file)
             /\ Agrees(m, block') /\ Spared
             /\ \A n : n.ws = m.ws /\ n.block.available = m.block.available
                       /\ Persisted(n).source = Persisted(m).source => Agrees(n, block')
  <2>1. InOrder("list", run[p], current, block, file)
    BY <1>1, <1>4 DEF Serial
  <2>2. Agrees(run[p].work, block)
    BY <2>1 DEF InOrder, Writing
  <2>3. /\ block[m.ws].available \subseteq m.block.available
        /\ Persisted(m).source = block[m.ws].source
    BY <1>3, <2>2 DEF Agrees
  <2>4. m.ws \in Workspaces
    BY <1>2, <1>3
  <2> HIDE DEF m
  <2>5. /\ Agrees(m, block') /\ \A w \in Workspaces : Keeps(w)
        /\ \A n : n.ws = m.ws /\ n.block.available = m.block.available
                  /\ Persisted(n).source = Persisted(m).source => Agrees(n, block')
    BY <1>1, <1>3, <2>3, <2>4, SaveAgrees
  <2> QED
    BY <2>1, <2>5 DEF Spared
<1>5. Alone => Spared
  BY <1>1, <1>4 DEF Alone, history
<1>6. CASE run[p].setup
  <2> DEFINE r == [NoRun EXCEPT !.kind = "launch", !.tool = run[p].tool, !.setup = TRUE]
  <2>1. Go(p, "ensure", r)
    BY <1>6 DEF List
  <2>2. r.kind = "launch"
    BY DEF NoRun
  <2> HIDE DEF r
  <2>3. InOrder("ensure", r, current', block', file')
    BY <2>2 DEF InOrder, Writing
  <2> QED
    BY <1>1, <1>5, <2>1, <2>3, OrderKeeps DEF Orderly, history
<1>7. CASE ~run[p].setup
  <2> DEFINE n == [run[p].mem EXCEPT !.block.available = A]
             r == [run[p] EXCEPT !.mem = n, !.did = {}]
             x == [r EXCEPT !.tool = None, !.work = NoState, !.provider = None]
  <2>1. Go(p, "next", x)
    <3>1. Resume(p, [run[p] EXCEPT !.mem.block.available = m.block.available, !.did = {}])
      BY <1>7 DEF List, m
    <3>2. [run[p] EXCEPT !.mem.block.available = m.block.available, !.did = {}] = r
      BY <1>2, <1>3 DEF Runs
    <3> QED
      BY <3>1, <3>2 DEF Resume
  <2>2. /\ n.ws = run[p].mem.ws /\ n.block.available = A
        /\ Persisted(n).source = Persisted(run[p].mem).source
    BY <1>2, ListedFacts DEF Clean, Persisted, States, Blocks
  <2>3. x.mem = n /\ x.kind = "configure"
    BY <1>1, <1>2, <1>7 DEF Runs, Sound
  <2> HIDE DEF x, n
  <2>4. ASSUME ~overlapped PROVE InOrder("next", x, current', block', file')
    <3>1. /\ Agrees(run[p].mem, block) /\ Agrees(run[p].work, block)
          /\ run[p].work.ws = run[p].mem.ws
      BY <1>1, <1>4, <1>7, <2>4 DEF InOrder, Sound
    <3>2. Persisted(n).source = Persisted(m).source /\ n.ws = m.ws
      BY <1>3, <2>2, <3>1 DEF Agrees
    <3>3. Agrees(n, block')
      BY <1>3, <1>4, <2>2, <2>4, <3>2
    <3> QED
      BY <2>3, <3>3 DEF InOrder, Writing
  <2> QED
    BY <1>1, <1>5, <2>1, <2>4, OrderKeeps DEF Orderly, history
<1> QED
  BY <1>6, <1>7

\* A refresh that fails leaves the file as it was, since no guarded agent is refreshed.
LEMMA WriterFailsOrder ==
  ASSUME IInv, Serial, NEW p \in Processes, WriterFails(p)
  PROVE  Orderly
<1> DEFINE r == run[p]
           x == [r EXCEPT !.tool = None, !.work = NoState, !.provider = None]
<1>1. /\ pc[p] \in Writing /\ (pc[p] = "mark" => r.tool \in Guarded)
      /\ block' = block /\ file' = file /\ current' = current /\ overlapped' = overlapped
      /\ r \in Runs /\ Sound(pc[p], r)
  BY DEF WriterFails, IInv, Sound, Writing, saved, files, history
<1>2. ~overlapped => InOrder(pc[p], r, current, block, file)
  BY DEF Serial
<1>3. SUFFICES Serial'
  BY <1>1, QuietSpares DEF Orderly
<1>4. CASE r.kind = "configure" /\ Governs(r)
  <2>1. Go(p, "list", r)
    BY <1>4 DEF WriterFails
  <2> HIDE DEF r
  <2>2. ~overlapped => InOrder("list", r, current', block', file')
    BY <1>1, <1>2, <1>4 DEF InOrder, Writing
  <2> QED
    BY <1>1, <2>1, <2>2, OrderKeeps DEF Writing
<1>5. CASE r.kind = "configure" /\ ~Governs(r)
  <2>1. Go(p, "next", x)
    BY <1>5 DEF WriterFails, Resume
  <2>2. x.mem = r.mem /\ x.kind = "configure"
    BY <1>1, <1>5 DEF Runs
  <2> HIDE DEF r, x
  <2>3. ~overlapped => InOrder("next", x, current', block', file')
    BY <1>1, <1>2, <1>5, <2>2 DEF InOrder, Writing
  <2> QED
    BY <1>1, <2>1, <2>3, OrderKeeps DEF Writing
<1>6. CASE r.kind = "refresh"
  <2>1. Go(p, "started", r) /\ ~r.setup
    BY <1>1, <1>6 DEF WriterFails, Sound
  <2> HIDE DEF r
  <2>2. ~overlapped => InOrder("started", r, current', block', file')
    BY <1>1, <1>2, <1>6, <2>1 DEF InOrder, Writing
  <2> QED
    BY <1>1, <2>1, <2>2, OrderKeeps DEF Writing
<1>7. CASE r.kind \notin {"configure", "refresh"}
  <2>1. End(p)
    BY <1>7 DEF WriterFails
  <2> QED
    BY <1>1, <2>1, EndOrder DEF Writing
<1> QED
  BY <1>4, <1>5, <1>6, <1>7

LEMMA GateOrder ==
  ASSUME IInv, Serial, NEW p \in Processes, NEW a \in Policies, Gate(p, a)
  PROVE  Orderly
<1> DEFINE r == run[p]
           x == [r EXCEPT !.policy = a]
<1>1. /\ pc[p] = "gate" /\ block' = block /\ overlapped' = overlapped /\ r \in Runs
      /\ r.kind = "launch"
  BY DEF Gate, IInv, Sound, saved, history
<1>2. SUFFICES Serial'
  BY <1>1, QuietSpares DEF Orderly
<1>3. CASE End(p)
  BY <1>1, <1>3, EndOrder
<1>4. CASE Go(p, "load", r) /\ r.setup
  <2>1. InOrder("load", r, current', block', file')
    BY <1>1, <1>4 DEF InOrder, Writing
  <2> QED
    BY <1>1, <1>4, <2>1, OrderKeeps
<1>5. CASE Go(p, "ensure", x)
  <2>1. x.kind = "launch"
    BY <1>1 DEF Runs
  <2> HIDE DEF x
  <2>2. InOrder("ensure", x, current', block', file')
    BY <2>1 DEF InOrder, Writing
  <2> QED
    BY <1>1, <1>5, <2>2, OrderKeeps
<1> QED
  BY <1>3, <1>4, <1>5 DEF Gate

\* A launch takes its source from the block of the workspace that is current.
LEMMA EnsureOrder ==
  ASSUME IInv, Serial, NEW p \in Processes, NEW a \in Policies, Ensure(p, a)
  PROVE  Orderly
<1> DEFINE r == run[p]
           policy == IF r.setup THEN a ELSE r.policy
           source == Loaded.block.source[r.tool]
           x == [r EXCEPT !.policy = policy, !.setup = FALSE, !.mem.ws = current,
                          !.provider = source]
<1>1. /\ pc[p] = "ensure" /\ block' = block /\ current' = current /\ overlapped' = overlapped
      /\ r \in Runs /\ r.mem \in States
      /\ (End(p) \/ (current # None /\ Go(p, "load", x)))
  BY DEF Ensure, IInv, Sound, Clean, saved, history
<1>2. SUFFICES Serial'
  BY <1>1, QuietSpares DEF Orderly
<1>3. CASE End(p)
  BY <1>1, <1>3, EndOrder
<1>4. CASE current # None /\ Go(p, "load", x)
  <2>1. current \in Workspaces
    BY <1>4 DEF IInv, TypeOK
  <2>2. source = block[current].source[r.tool]
    BY <2>1, LoadedIs
  <2> HIDE DEF policy, source
  <2>3. /\ x.mem.ws = current /\ x.tool = r.tool /\ x.provider = source /\ x.kind = r.kind
    BY <1>1 DEF Runs, States
  <2> HIDE DEF x
  <2>4. InOrder("load", x, current', block', file')
    BY <1>1, <2>2, <2>3 DEF InOrder, Writing
  <2> QED
    BY <1>1, <1>4, <2>4, OrderKeeps
<1> QED
  BY <1>1, <1>3, <1>4

\* The refresher takes its source from the state that the launch left.
LEMMA RefreshOrder ==
  ASSUME IInv, Serial, NEW p \in Processes, Refresh(p)
  PROVE  Orderly
<1> DEFINE r == run[p]
           source == r.work.block.source[r.tool]
           kind == IF r.kind = "launch" THEN "first" ELSE "refresh"
           x == [r EXCEPT !.kind = kind, !.provider = source]
<1>1. /\ pc[p] = "started" /\ Go(p, "look", x) /\ r.tool \in Refreshing
      /\ block' = block /\ current' = current /\ file' = file /\ overlapped' = overlapped
      /\ r \in Runs /\ ~r.setup
  BY DEF Refresh, IInv, Sound, saved, files, history
<1>2. ASSUME ~overlapped PROVE InOrder("started", r, current, block, file)
  BY <1>1, <1>2 DEF Serial
<1>3. /\ x.work = r.work /\ x.kind \in {"first", "refresh"} /\ x.tool = r.tool
      /\ x.provider = source
      /\ ~x.setup /\ x.policy = r.policy
  BY <1>1 DEF Runs
<1>4. source = x.work.block.source[x.tool]
  BY <1>3
<1> HIDE DEF source, x, r
<1>5. ~overlapped => InOrder("look", x, current', block', file')
  BY <1>1, <1>2, <1>3, <1>4 DEF InOrder, Writing
<1> QED
  BY <1>1, <1>5, OrderKeeps, QuietSpares DEF Orderly

LEMMA NextOrder ==
  ASSUME IInv, Serial, Next
  PROVE  Orderly
<1>1. ASSUME NEW p \in Processes, Start(p) PROVE Orderly
  <2>1. ASSUME NEW w \in scenario.within, Configure(p, w) PROVE Orderly
    BY <2>1, ConfigureOrder DEF IInv, TypeOK
  <2>2. ASSUME NEW t \in Tools, NEW w \in scenario.within, Launch(p, t, w) PROVE Orderly
    BY <2>2, LaunchOrder DEF IInv, TypeOK
  <2> QED
    BY <1>1, <2>1, <2>2, RevertOrder DEF Start
<1>2. ASSUME NEW p \in Processes, Choose(p) PROVE Orderly
  BY <1>2, GateOrder, EnsureOrder, ApplyPolicyOrder, PickOrder, NextToolOrder, RestoreOrder
     DEF Choose
<1>3. ASSUME NEW p \in Processes,
             \/ LoadShared(p) \/ SaveShared(p) \/ SharedFails(p) \/ Configured(p)
             \/ Look(p) \/ Copy(p) \/ Write(p) \/ Mark(p) \/ List(p) \/ WriterFails(p)
             \/ Refresh(p) \/ Exit(p) \/ Clear(p) \/ KeepState(p) \/ Kill(p)
      PROVE  Orderly
  BY <1>3, LoadSharedOrder, SaveSharedOrder, ConfiguredOrder, LookOrder, WriteOrder, MarkOrder,
     ListOrder, WriterFailsOrder, RefreshOrder, ClearOrder, QuietEndOrder
<1> QED
  BY <1>1, <1>2, <1>3 DEF Next

LEMMA StutterSerial ==
  ASSUME Serial, UNCHANGED vars
  PROVE  Serial'
BY DEF Serial, InOrder, Agrees, vars, saved, files, bounds, history

LEMMA SerialHolds == Spec => []Serial
<1>1. IInv /\ Serial /\ [Next]_vars => Serial'
  BY NextOrder, StutterSerial DEF Orderly
<1> QED
  BY <1>1, InitSerial, Invariance, PTL DEF Spec

\* While commands run one at a time, an agent starts with a file of its workspace and of the
\* source that the policy names or that the developer last chose there, for any numbers of
\* workspaces, agents, commands and kills, and with whichever policies.
THEOREM LaunchesObey == Spec => []LaunchObeys
<1>1. ASSUME IInv, Serial, ~overlapped, NEW p \in Processes, pc[p] = "started"
      PROVE  LET r == run[p] IN
               file[r.tool] = Generated(r.work.ws,
                 IF r.policy.source # None THEN r.policy.source ELSE block[r.work.ws].source[r.tool])
  <2> DEFINE r == run[p]
  <2>1. Sound("started", r) /\ InOrder("started", r, current, block, file)
    BY <1>1 DEF IInv, Serial
  <2> HIDE DEF r
  <2>2. /\ Agrees(r.work, block)
        /\ r.policy.source = None => ~r.work.layered
        /\ r.policy.source # None => r.work.block.source[r.tool] = r.policy.source
        /\ file[r.tool] = Generated(r.work.ws, r.work.block.source[r.tool])
    BY <2>1 DEF Sound, InOrder, Writing
  <2>3. r.policy.source = None => r.work.block.source = block[r.work.ws].source
    BY <2>2 DEF Agrees, Persisted
  <2> QED
    BY <2>2, <2>3 DEF r
<1>2. IInv /\ Serial => LaunchObeys
  BY <1>1 DEF LaunchObeys
<1> QED
  BY <1>2, SerialHolds, Invariance, PTL

\* While commands run one at a time, a workspace loses neither an available agent nor a chosen
\* source but to a developer's choice, a revert, or a command that began elsewhere.
THEOREM BlocksKept == Spec => BlockKept
<1>1. IInv /\ Serial /\ [Next]_vars => [Alone => Spared]_vars
  BY NextOrder DEF Orderly
<1>2. [Alone => Spared]_vars =>
      [Alone => \A w \in Workspaces :
         \/ /\ block[w].available \subseteq block'[w].available
            /\ block[w].source = block'[w].source
         \/ \E p \in Processes :
              \/ pc[p] = "restore"
              \/ pc[p] = "shared" /\ run[p].switched
              \/ pc[p] = "policy" /\ block[w].available \subseteq block'[w].available]_vars
  BY DEF Spared, Keeps
<1> QED
  BY <1>1, <1>2, SerialHolds, Invariance, PTL DEF Spec, BlockKept
=============================================================================
