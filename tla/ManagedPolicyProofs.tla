------------------------- MODULE ManagedPolicyProofs ------------------------
(***************************************************************************)
(* The safety properties of ManagedPolicy for every number of users,       *)
(* workspaces, configurations, commands and publications.  What is proved  *)
(* of a user depends on the others in one way only: a step of another      *)
(* command keeps what is known of the installed policy unless it changes   *)
(* the policy, and then the run is no longer steady.  So the invariant     *)
(* says of each user, from his own label, run and selection and from the   *)
(* machine's policy, what his command has made sure of so far.             *)
(***************************************************************************)
EXTENDS ManagedPolicy, TLAPS

USE ConstantsAssumption

-----------------------------------------------------------------------------
(* The inductive invariant, of a label l, a run r, a selection s, a policy m. *)

\* Which commands go where: launches and other agents' configures never write, only runs that
\* opt out go by their own copy.
Shape(l, r) ==
  /\ l # "idle" /\ r.kind # "revert" => r.w \in Workspaces
  /\ r.kind = "launch" => ~r.fresh
  /\ r.kind = "configure" => r.fresh
  /\ r.kind = "other" /\ ~r.skip => ~r.fresh
  /\ r.kind = "revert" => l \in {"clear", "done"}
  /\ r.kind = "launch" => l \notin {"restore", "clear"}
  /\ l = "cache" => r.skip
  /\ l = "clear" => r.kind = "revert"
  /\ l \in {"refresh", "fetch", "cache"} => ~r.answered
  /\ l = "restore" /\ r.kind = "other" => ~r.answered

Config(m, w) == IF m.at = w THEN m.config ELSE None

\* A steady launch that ends has the installed policy, if its workspace has one.
Governed(l, r, m) ==
  r.kind = "launch" /\ r.steady /\ m.at = r.w =>
    /\ l # "cache"
    /\ l \in {"record", "done"} => r.result.config = m.config

\* What a launch was answered, and what it goes by, it has seen.
Fresh(l, r) ==
  r.kind = "launch" /\ ~r.skip =>
    /\ l = "apply" => AsConfig(r.answer) \in r.seen \cup {None}
    /\ l \in {"record", "done"} => r.result.config \in r.seen \cup {None}

\* How far a configure has come.
Settled(l, r, s, m) ==
  r.kind \in {"configure", "other"} /\ ~r.skip =>
    /\ l \in {"refresh", "fetch", "apply", "record", "restore", "done"} => s = r.w
    /\ r.steady =>
         /\ r.kind = "other" /\ l \in {"refresh", "fetch", "apply", "record", "done"} =>
              m.at \in {None, r.w}
         /\ r.kind = "configure" /\ (l = "record" \/ (l = "done" /\ r.answered)) =>
              m.at \in {None, r.w} /\ Config(m, r.w) = AsConfig(r.answer)
         /\ l = "refused" => m.at \in {None, s}

UserInv(l, r, s, m) ==
  Shape(l, r) /\ Governed(l, r, m) /\ Fresh(l, r) /\ Settled(l, r, s, m)

IInv ==
  /\ TypeOK
  /\ \A u \in Users : UserInv(pc[u], run[u], saved[u], machine)

-----------------------------------------------------------------------------
(* What a step does to the runs. *)

Alike(r, q) ==
  /\ r.kind = q.kind /\ r.w = q.w /\ r.skip = q.skip /\ r.fresh = q.fresh
  /\ r.answer = q.answer /\ r.result = q.result /\ r.answered = q.answered

\* r, after a step of its user: it has seen what is current.
Follows(q, r) ==
  /\ q \in Run /\ Alike(q, r) /\ q.steady = r.steady
  /\ r.kind = "launch" /\ r.w \in Workspaces => r.seen \cup Current[r.w] \subseteq q.seen

\* r, after a step of another user.
Watches(q, r) ==
  /\ q \in Run /\ Alike(q, r) /\ (q.steady => r.steady /\ machine' = machine)
  /\ r.kind = "launch" /\ r.w \in Workspaces => r.seen \subseteq q.seen

LEMMA CurrentType ==
  ASSUME TypeOK, NEW w \in Workspaces
  PROVE  Current[w] \subseteq Configs \cup {None} /\ Installed(w) \in Configs \cup {None}
BY DEF Current, TypeOK, Installed, AsConfig, Answers, NoPolicy

LEMMA CurrentTypeNext ==
  ASSUME TypeOK', NEW w \in Workspaces
  PROVE  Current'[w] \subseteq Configs \cup {None}
BY DEF Current, TypeOK, Installed, AsConfig, Answers, NoPolicy

LEMMA StepRuns ==
  ASSUME TypeOK, NEW u \in Users, NEW label \in Labels, NEW r \in Run, Step(u, label, r),
         machine' \in {NoPolicy} \cup [at : Workspaces, config : Configs, stamp : Stamps],
         published' = published
  PROVE  /\ run' \in [Users -> Run] /\ pc' \in [Users -> Labels]
         /\ Follows(run'[u], r) /\ pc'[u] = label
         /\ \A q \in Users \ {u} : Watches(run'[q], run[q]) /\ pc'[q] = pc[q]
<1>1. \A w \in Workspaces : /\ Current[w] \subseteq Configs \cup {None}
                            /\ Current'[w] \subseteq Configs \cup {None}
  BY DEF Current, TypeOK, Installed, AsConfig, Answers, NoPolicy
<1> DEFINE s(q) == IF q = u THEN r ELSE run[q]
           seen(q) == IF s(q).w = None \/ s(q).kind # "launch" THEN {}
                      ELSE s(q).seen \cup Current[s(q).w] \cup Current'[s(q).w]
           steady(q) == s(q).steady /\ (q = u \/ machine' = machine)
<1>2. \A q \in Users : run'[q] = [s(q) EXCEPT !.steady = steady(q), !.seen = seen(q)]
  BY DEF Step
<1>3. \A q \in Users : s(q) \in Run
  BY DEF TypeOK
<1>4. \A q \in Users : seen(q) \subseteq Configs \cup {None}
  BY <1>1, <1>3 DEF Run
<1>5. \A q \in Users : steady(q) \in BOOLEAN
  BY <1>3 DEF Run
<1> HIDE DEF s, seen, steady
<1>6. \A q \in Users : /\ run'[q] \in Run /\ Alike(run'[q], s(q))
                       /\ run'[q].steady = steady(q) /\ run'[q].seen = seen(q)
  <2> TAKE q \in Users
  <2>1. s(q) \in Run /\ steady(q) \in BOOLEAN /\ seen(q) \in SUBSET (Configs \cup {None})
    BY <1>3, <1>4, <1>5
  <2>2. run'[q] = [s(q) EXCEPT !.steady = steady(q), !.seen = seen(q)]
    BY <1>2
  <2>3. PICK x \in Run, b \in BOOLEAN, S \in SUBSET (Configs \cup {None}) :
          x = s(q) /\ b = steady(q) /\ S = seen(q)
    BY <2>1
  <2>4. PICK y : y = [x EXCEPT !.steady = b, !.seen = S]
    OBVIOUS
  <2>5. y \in Run /\ Alike(y, x) /\ y.steady = b /\ y.seen = S
    BY <2>4 DEF Run, Alike
  <2>6. y = run'[q]
    BY <2>2, <2>3, <2>4, Zenon
  <2> QED
    BY <2>3, <2>5, <2>6
<1>7. run' \in [Users -> Run]
  BY <1>6 DEF Step
<1>8. pc' \in [Users -> Labels] /\ pc'[u] = label /\ \A q \in Users \ {u} : pc'[q] = pc[q]
  BY DEF Step, TypeOK
<1>9. Follows(run'[u], r)
  <2>1. s(u) = r /\ (steady(u) <=> r.steady)
    BY DEF s, steady
  <2>2. steady(u) = r.steady
    BY <1>5, <2>1 DEF Run
  <2> QED
    BY <1>6, <2>1, <2>2 DEF Follows, seen
<1>10. ASSUME NEW q \in Users \ {u} PROVE Watches(run'[q], run[q])
  <2>1. s(q) = run[q] /\ (steady(q) => run[q].steady /\ machine' = machine)
    BY DEF s, steady
  <2> QED
    BY <1>6, <2>1 DEF Watches, seen
<1> QED
  BY <1>7, <1>8, <1>9, <1>10

\* What is known of a user stays true when another one takes a step.
LEMMA WatchKeeps ==
  ASSUME NEW l, NEW r, NEW q, NEW s, UserInv(l, r, s, machine), Watches(q, r),
         r.kind # "launch" \/ r.w \in Workspaces \/ l = "idle"
  PROVE  UserInv(l, q, s, machine')
  BY DEF UserInv, Watches, Alike, Shape, Governed, Fresh, Settled, Run

LEMMA StepKeeps ==
  ASSUME IInv, NEW u \in Users, NEW label \in Labels, NEW r \in Run, Step(u, label, r),
         published' = published,
         machine' \in {NoPolicy} \cup [at : Workspaces, config : Configs, stamp : Stamps],
         saved' \in [Users -> Workspaces \cup {None}],
         refreshed' \in [Users -> [Workspaces ->
           [outcome : Outcomes, stamp : Stamps \cup {None}]]],
         stored' \in [Users -> [at : Workspaces \cup {None}, config : Configs \cup {None},
                                outcome : Outcomes]],
         commands' \in 0 .. MaxCommands, publications' \in 0 .. MaxPublications,
         installs' \in Nat,
         \A q \in Users \ {u} : saved'[q] = saved[q],
         \A q : Follows(q, r) => UserInv(label, q, saved'[u], machine')
  PROVE  IInv'
<1>1. /\ run' \in [Users -> Run] /\ pc' \in [Users -> Labels]
      /\ Follows(run'[u], r) /\ pc'[u] = label
      /\ \A q \in Users \ {u} : Watches(run'[q], run[q]) /\ pc'[q] = pc[q]
  BY StepRuns DEF IInv
<1>2. TypeOK'
  BY <1>1 DEF IInv, TypeOK
<1>3. ASSUME NEW q \in Users PROVE UserInv(pc'[q], run'[q], saved'[q], machine')
  <2>1. CASE q = u
    BY <1>1, <2>1
  <2>2. CASE q # u
    <3>1. UserInv(pc[q], run[q], saved[q], machine)
      BY DEF IInv
    <3>2. run[q].kind # "launch" \/ run[q].w \in Workspaces \/ pc[q] = "idle"
      BY <3>1 DEF UserInv, Shape
    <3>3. Watches(run'[q], run[q]) /\ pc'[q] = pc[q] /\ saved'[q] = saved[q]
      BY <1>1, <2>2
    <3> QED
      BY <3>1, <3>2, <3>3, WatchKeeps
  <2> QED
    BY <2>1, <2>2
<1> QED
  BY <1>2, <1>3 DEF IInv

\* The same, when files and counts stay as they are.
LEMMA GoOnKeeps ==
  ASSUME IInv, NEW u \in Users, NEW label \in Labels, NEW r \in Run, Step(u, label, r),
         UNCHANGED <<files, published, counts>>,
         \A q : Follows(q, r) => UserInv(label, q, saved[u], machine)
  PROVE  IInv'
<1>1. UNCHANGED <<machine, saved, refreshed, stored, published, commands, publications, installs>>
  BY DEF files, counts
<1>2. \A q : Follows(q, r) => UserInv(label, q, saved'[u], machine')
  BY <1>1
<1> QED
  BY <1>1, <1>2, StepKeeps DEF IInv, TypeOK

-----------------------------------------------------------------------------
(* The invariant is kept. *)

LEMMA NoRunType == NoRun \in Run /\ \A s, m : UserInv("idle", NoRun, s, m)
BY DEF NoRun, Run, Kinds, Answers, Nothing, UserInv, Shape, Governed, Fresh, Settled

LEMMA InitIInv == Init => IInv
<1> SUFFICES ASSUME Init PROVE IInv
  OBVIOUS
<1>1. TypeOK
  BY NoRunType DEF Init, TypeOK, NoRecord, NoCopy, Outcomes, Labels
<1>2. \A u \in Users : UserInv(pc[u], run[u], saved[u], machine)
  BY NoRunType DEF Init
<1> QED
  BY <1>1, <1>2 DEF IInv

LEMMA LaunchKeeps ==
  ASSUME IInv, NEW u \in Users, NEW asked \in Workspaces \cup {None}, NEW skip \in BOOLEAN,
         Launch(u, asked, skip)
  PROVE  IInv'
<1> DEFINE sel == IF asked # None THEN asked ELSE saved[u]
           w == LaunchWorkspace(sel)
           r == [NoRun EXCEPT !.w = w, !.skip = skip]
<1>1. /\ w \in Workspaces /\ saved' = [saved EXCEPT ![u] = w] /\ commands' = commands + 1
      /\ commands < MaxCommands
      /\ UNCHANGED <<machine, refreshed, stored, published, publications, installs>>
      /\ Step(u, "refresh", r)
  BY DEF Launch, LaunchWorkspace, IInv, TypeOK, NoPolicy, Free
<1> HIDE DEF w
<1>2. r \in Run /\ r.kind = "launch" /\ ~r.fresh /\ r.w = w /\ ~r.answered
  BY <1>1 DEF Run, NoRun, Kinds, Answers, Nothing
<1>3. \A q : Follows(q, r) => UserInv("refresh", q, saved'[u], machine')
  BY <1>1, <1>2 DEF Follows, Alike, UserInv, Shape, Governed, Fresh, Settled
<1>4. /\ published' = published
      /\ machine' \in {NoPolicy} \cup [at : Workspaces, config : Configs, stamp : Stamps]
      /\ saved' \in [Users -> Workspaces \cup {None}]
      /\ refreshed' = refreshed /\ stored' = stored
      /\ commands' \in 0 .. MaxCommands /\ publications' = publications /\ installs' = installs
      /\ \A q \in Users \ {u} : saved'[q] = saved[q]
  BY <1>1 DEF IInv, TypeOK
<1> HIDE DEF r
<1> QED
  BY <1>1, <1>2, <1>3, <1>4, StepKeeps DEF IInv, TypeOK, Labels

LEMMA ConfigureKeeps ==
  ASSUME IInv, NEW u \in Users, NEW w \in Workspaces, NEW kind \in Kinds,
         NEW skip \in BOOLEAN, NEW fresh \in BOOLEAN, Configure(u, w, kind, skip, fresh)
  PROVE  IInv'
<1> DEFINE r == [NoRun EXCEPT !.kind = kind, !.w = w, !.skip = skip, !.fresh = fresh]
           label == IF kind = "configure" THEN "refresh" ELSE "restore"
<1>1. /\ saved' = [saved EXCEPT ![u] = w] /\ commands' = commands + 1
      /\ commands < MaxCommands
      /\ UNCHANGED <<machine, refreshed, stored, published, publications, installs>>
      /\ Step(u, label, r)
      /\ kind \in {"configure", "other"} /\ (kind = "configure" => fresh)
      /\ kind = "other" => (fresh => skip)
  BY DEF Configure, Free
<1>2. /\ r \in Run /\ r.kind = kind /\ r.w = w /\ r.skip = skip /\ r.fresh = fresh
      /\ label \in Labels /\ label \in {"refresh", "restore"} /\ ~r.answered
      /\ label = "refresh" => kind = "configure"
  BY <1>1 DEF Run, NoRun, Labels, Kinds, Answers, Nothing
<1> HIDE DEF r, label
<1>3. \A q : Follows(q, r) => UserInv(label, q, saved'[u], machine')
  BY <1>1, <1>2 DEF Follows, Alike, UserInv, Shape, Governed, Fresh, Settled, IInv, TypeOK
<1>4. /\ published' = published
      /\ machine' \in {NoPolicy} \cup [at : Workspaces, config : Configs, stamp : Stamps]
      /\ saved' \in [Users -> Workspaces \cup {None}]
      /\ refreshed' = refreshed /\ stored' = stored
      /\ commands' \in 0 .. MaxCommands /\ publications' = publications /\ installs' = installs
      /\ \A q \in Users \ {u} : saved'[q] = saved[q]
  BY <1>1 DEF IInv, TypeOK
<1> QED
  BY <1>1, <1>2, <1>3, <1>4, StepKeeps DEF IInv, TypeOK

LEMMA RevertKeeps ==
  ASSUME IInv, NEW u \in Users, NEW skip \in BOOLEAN, Revert(u, skip)
  PROVE  IInv'
<1> DEFINE r == [NoRun EXCEPT !.kind = "revert", !.skip = skip]
<1>1. /\ commands' = commands + 1 /\ commands < MaxCommands /\ machine' \in {machine, NoPolicy}
      /\ UNCHANGED <<saved, refreshed, stored, published, publications, installs>>
      /\ Step(u, "clear", r)
  BY DEF Revert, Free
<1>2. r \in Run /\ r.kind = "revert"
  BY DEF Run, NoRun, Kinds, Answers, Nothing
<1> HIDE DEF r
<1>3. \A q : Follows(q, r) => UserInv("clear", q, saved'[u], machine')
  BY <1>2 DEF Follows, Alike, UserInv, Shape, Governed, Fresh, Settled
<1>4. /\ published' = published
      /\ machine' \in {NoPolicy} \cup [at : Workspaces, config : Configs, stamp : Stamps]
      /\ saved' \in [Users -> Workspaces \cup {None}]
      /\ refreshed' = refreshed /\ stored' = stored
      /\ commands' \in 0 .. MaxCommands /\ publications' = publications /\ installs' = installs
      /\ \A q \in Users \ {u} : saved'[q] = saved[q]
  BY <1>1 DEF IInv, TypeOK
<1> QED
  BY <1>1, <1>2, <1>3, <1>4, StepKeeps DEF IInv, TypeOK, Labels

\* A command that has begun goes on from what is known of it.
LEMMA Known ==
  ASSUME IInv, NEW u \in Users
  PROVE  /\ run[u] \in Run /\ pc[u] \in Labels /\ TypeOK
         /\ UserInv(pc[u], run[u], saved[u], machine)
  BY DEF IInv, TypeOK

LEMMA PutBackKeeps ==
  ASSUME IInv, NEW u \in Users, PutBack(u) \/ Clear(u)
  PROVE  IInv'
<1> USE DEF Follows, Alike, UserInv, Shape, Governed, Fresh, Settled
<1> DEFINE r == run[u]
           elsewhere == machine.at \notin {None, r.w}
           label == IF r.kind = "other" /\ ~elsewhere THEN "refresh" ELSE "refused"
<1>1. CASE PutBack(u)
  <2>1. /\ pc[u] = "restore" /\ Step(u, label, r)
        /\ saved' = IF elsewhere THEN [saved EXCEPT ![u] = machine.at] ELSE saved
        /\ UNCHANGED <<machine, refreshed, stored, published, commands, publications, installs>>
    BY <1>1 DEF PutBack, counts
  <2>2. saved' \in [Users -> Workspaces \cup {None}] /\ \A q \in Users \ {u} : saved'[q] = saved[q]
    BY <2>1 DEF IInv, TypeOK, NoPolicy
  <2>3. saved'[u] = IF elsewhere THEN machine.at ELSE saved[u]
    BY <2>1 DEF IInv, TypeOK
  <2>4. \A q : Follows(q, r) => UserInv(label, q, saved'[u], machine')
    BY <2>1, <2>3, Known
  <2>5. label \in Labels
    BY DEF Labels
  <2> HIDE DEF label, r
  <2> QED
    BY <2>1, <2>2, <2>4, <2>5, StepKeeps, Known DEF IInv, TypeOK, r
<1>2. CASE Clear(u)
  <2>1. /\ pc[u] = "clear" /\ Step(u, "done", r) /\ saved' = [saved EXCEPT ![u] = None]
        /\ UNCHANGED <<machine, refreshed, stored, published, commands, publications, installs>>
    BY <1>2 DEF Clear, counts
  <2>2. \A q : Follows(q, r) => UserInv("done", q, saved'[u], machine')
    BY <2>1, Known
  <2> QED
    BY <2>1, <2>2, StepKeeps DEF IInv, TypeOK, Labels
<1> QED
  BY <1>1, <1>2

\* What is installed, loaded and answered for a workspace.
LEMMA PolicyFacts ==
  ASSUME TypeOK, NEW u \in Users, run[u].w \in Workspaces
  PROVE  /\ machine.at = run[u].w => /\ machine.config # None /\ machine.config \in Configs
                                     /\ Installed(run[u].w) = machine.config
                                     /\ Loaded(u) = machine.config
         /\ machine.at # run[u].w => Installed(run[u].w) = None
         /\ ~run[u].skip => Loaded(u) = Installed(run[u].w)
         /\ Loaded(u) \in Configs \cup {None}
         /\ Installed(run[u].w) \in Current[run[u].w]
         /\ AsConfig(published[run[u].w]) \in Current[run[u].w]
BY DEF TypeOK, NoPolicy, Installed, Loaded, Own, Current

Results == [config : Configs \cup {None}, disabled : BOOLEAN]

LEMMA ResultedRun ==
  ASSUME NEW r \in Run, NEW res \in Results, NEW q, q = [r EXCEPT !.result = res]
  PROVE  /\ q \in Run /\ q.kind = r.kind /\ q.w = r.w /\ q.skip = r.skip /\ q.fresh = r.fresh
         /\ q.answer = r.answer /\ q.result = res /\ q.answered = r.answered
         /\ q.steady = r.steady /\ q.seen = r.seen
BY DEF Run, Results

LEMMA RefreshKeeps ==
  ASSUME IInv, NEW u \in Users, Refresh(u)
  PROVE  IInv'
<1> USE DEF Follows, Alike, UserInv, Shape, Governed, Fresh, Settled
<1> DEFINE r == run[u]
<1>1. /\ pc[u] = "refresh" /\ UNCHANGED <<files, published, counts>>
      /\ r \in Run /\ TypeOK /\ UserInv("refresh", r, saved[u], machine)
  BY Known DEF Refresh
<1>2. r.w \in Workspaces /\ r.kind # "revert"
  BY <1>1
<1>3. CASE ~r.fresh /\ ~Launchable(r.w)
  <2>1. Step(u, "refused", r)
    BY <1>3 DEF Refresh
  <2>2. \A q : Follows(q, r) => UserInv("refused", q, saved[u], machine)
    BY <1>1, <1>2, <1>3
  <2> QED
    BY <1>1, <2>1, <2>2, GoOnKeeps DEF Labels
<1>4. CASE ~(~r.fresh /\ ~Launchable(r.w)) /\ OwnOnly(u)
  <2>0. r.skip /\ machine.at # r.w
    BY <1>1, <1>2, <1>4, PolicyFacts DEF OwnOnly
  <2>1. CASE ~r.fresh /\ ReplaysOwn(u)
    <3> DEFINE x == [r EXCEPT !.result = ReplayedOwn(u)]
    <3>1. Step(u, "done", x)
      BY <1>4, <2>1 DEF Refresh
    <3>2. ReplayedOwn(u) \in Results
      BY <1>1 DEF ReplayedOwn, Results, TypeOK
    <3>3. x \in Run /\ x.kind = r.kind /\ x.w = r.w /\ x.skip = r.skip /\ x.fresh = r.fresh
      BY <1>1, <3>2, ResultedRun
    <3> HIDE DEF x
    <3>4. \A q : Follows(q, x) => UserInv("done", q, saved[u], machine)
      BY <1>1, <1>2, <2>0, <3>3
    <3> QED
      BY <1>1, <3>1, <3>3, <3>4, GoOnKeeps DEF Labels
  <2>2. CASE ~(~r.fresh /\ ReplaysOwn(u))
    <3>1. Step(u, "cache", r)
      BY <1>4, <2>2 DEF Refresh
    <3>2. \A q : Follows(q, r) => UserInv("cache", q, saved[u], machine)
      BY <1>1, <1>2, <2>0
    <3> QED
      BY <1>1, <3>1, <3>2, GoOnKeeps DEF Labels
  <2> QED
    BY <2>1, <2>2
<1>5. CASE ~(~r.fresh /\ ~Launchable(r.w)) /\ ~OwnOnly(u)
  <2>1. CASE ~r.fresh /\ Replays(u)
    <3> DEFINE x == [r EXCEPT !.result = Replayed(u)]
    <3>1. Step(u, "done", x)
      BY <1>5, <2>1 DEF Refresh
    <3>2. Replayed(u) \in Results /\ Replayed(u).config = Loaded(u)
      BY <1>1, <1>2, PolicyFacts DEF Replayed, Results
    <3>3. /\ x \in Run /\ x.kind = r.kind /\ x.w = r.w /\ x.skip = r.skip /\ x.fresh = r.fresh
          /\ x.result = Replayed(u) /\ x.steady = r.steady
      BY <1>1, <3>2, ResultedRun
    <3> HIDE DEF x
    <3>4. \A q : Follows(q, x) => UserInv("done", q, saved[u], machine)
      BY <1>1, <1>2, <2>1, <3>2, <3>3, PolicyFacts
    <3> QED
      BY <1>1, <3>1, <3>3, <3>4, GoOnKeeps DEF Labels
  <2>2. CASE ~(~r.fresh /\ Replays(u))
    <3>1. Step(u, "fetch", r)
      BY <1>5, <2>2 DEF Refresh
    <3>2. \A q : Follows(q, r) => UserInv("fetch", q, saved[u], machine)
      BY <1>1, <1>2
    <3> QED
      BY <1>1, <3>1, <3>2, GoOnKeeps DEF Labels
  <2> QED
    BY <2>1, <2>2
<1> QED
  BY <1>3, <1>4, <1>5

LEMMA ReadKeeps ==
  ASSUME IInv, NEW u \in Users, ReadFails(u) \/ Fetch(u)
  PROVE  IInv'
<1> USE DEF Follows, Alike, UserInv, Shape, Governed, Fresh, Settled
<1> DEFINE r == run[u]
<1>1. /\ UNCHANGED <<files, published, counts>> /\ pc[u] \in {"fetch", "cache"}
      /\ r \in Run /\ TypeOK /\ UserInv(pc[u], r, saved[u], machine)
  BY Known DEF ReadFails, Fetch
<1>2. r.w \in Workspaces /\ r.kind # "revert"
  BY <1>1
<1>3. CASE ReadFails(u)
  <2> DEFINE res == [config |-> Loaded(u), disabled |-> FALSE]
             x == [r EXCEPT !.result = res]
  <2>1. Step(u, "done", x)
    BY <1>3 DEF ReadFails
  <2>2. res \in Results /\ res.config = Loaded(u)
    BY <1>1, <1>2, PolicyFacts DEF Results
  <2> HIDE DEF res
  <2>3. /\ x \in Run /\ x.kind = r.kind /\ x.w = r.w /\ x.skip = r.skip /\ x.fresh = r.fresh
        /\ x.result = res /\ x.steady = r.steady /\ x.answered = r.answered
    BY <1>1, <2>2, ResultedRun
  <2> HIDE DEF x
  <2>4. \A q : Follows(q, x) => UserInv("done", q, saved[u], machine)
    BY <1>1, <1>2, <2>2, <2>3, PolicyFacts
  <2> QED
    BY <1>1, <2>1, <2>3, <2>4, GoOnKeeps DEF Labels
<1>4. CASE Fetch(u)
  <2> DEFINE x == [r EXCEPT !.answer = published[r.w], !.answered = TRUE]
  <2>1. Step(u, "apply", x) /\ pc[u] = "fetch"
    BY <1>4 DEF Fetch
  <2>2. published[r.w] \in Answers
    BY <1>1, <1>2 DEF TypeOK
  <2>3. /\ x \in Run /\ x.kind = r.kind /\ x.w = r.w /\ x.skip = r.skip /\ x.fresh = r.fresh
        /\ x.answer = published[r.w] /\ x.steady = r.steady
    BY <1>1, <2>2 DEF Run
  <2> HIDE DEF x
  <2>4. \A q : Follows(q, x) => UserInv("apply", q, saved[u], machine)
    BY <1>1, <1>2, <2>1, <2>3, PolicyFacts
  <2> QED
    BY <1>1, <2>1, <2>3, <2>4, GoOnKeeps DEF Labels
<1> QED
  BY <1>3, <1>4

LEMMA CacheKeeps ==
  ASSUME IInv, NEW u \in Users, Cache(u)
  PROVE  IInv'
<1> USE DEF Follows, Alike, UserInv, Shape, Governed, Fresh, Settled
<1> DEFINE r == run[u]
           res == AsResult(published[r.w])
           x == [r EXCEPT !.result = res, !.answered = TRUE]
<1>1. /\ pc[u] = "cache" /\ UNCHANGED <<machine, saved, refreshed, published, counts>>
      /\ r \in Run /\ TypeOK /\ UserInv("cache", r, saved[u], machine) /\ Step(u, "done", x)
  BY Known DEF Cache
<1>2. r.w \in Workspaces /\ r.skip
  BY <1>1
<1>3. res \in Results
  BY <1>1, <1>2 DEF Results, AsResult, AsConfig, TypeOK
<1>4. stored' \in [Users -> [at : Workspaces \cup {None}, config : Configs \cup {None},
                             outcome : Outcomes]]
  <2>1. [at |-> r.w, config |-> res.config, outcome |-> OutcomeOf(res)]
          \in [at : Workspaces \cup {None}, config : Configs \cup {None}, outcome : Outcomes]
    BY <1>2, <1>3 DEF Results, OutcomeOf, Outcomes
  <2>2. stored' = [stored EXCEPT ![u] =
           [at |-> r.w, config |-> res.config, outcome |-> OutcomeOf(res)]]
    BY DEF Cache
  <2> QED
    BY <1>1, <2>1, <2>2 DEF TypeOK
<1> HIDE DEF res
<1>5. /\ x \in Run /\ x.kind = r.kind /\ x.w = r.w /\ x.skip = r.skip /\ x.fresh = r.fresh
      /\ x.steady = r.steady
  BY <1>1, <1>3 DEF Run, Results
<1> HIDE DEF x
<1>6. \A q : Follows(q, x) => UserInv("done", q, saved'[u], machine')
  BY <1>1, <1>2, <1>5
<1>7. UNCHANGED <<commands, publications, installs>>
  BY <1>1 DEF counts
<1> QED
  BY <1>1, <1>4, <1>5, <1>6, <1>7, StepKeeps DEF TypeOK, Labels

LEMMA ApplyKeeps ==
  ASSUME IInv, NEW u \in Users, ApplyRead(u) \/ KeepInstalled(u) \/ Denied(u)
  PROVE  IInv'
<1> USE DEF Follows, Alike, UserInv, Shape, Governed, Fresh, Settled
<1> DEFINE r == run[u]
<1>1. /\ pc[u] = "apply" /\ UNCHANGED <<files, published, counts>>
      /\ r \in Run /\ TypeOK /\ UserInv("apply", r, saved[u], machine)
  BY Known DEF ApplyRead, KeepInstalled, Denied
<1>2. r.w \in Workspaces /\ r.kind # "revert" /\ r.answer \in Answers
  BY <1>1 DEF Run
<1>3. CASE ApplyRead(u)
  <2> DEFINE res == AsResult(r.answer)
             x == [r EXCEPT !.result = res]
  <2>0. (~Writable(u) /\ Loaded(u) = None) \/ ~NeedsWrite(u)
    BY <1>3 DEF ApplyRead
  <2>1. Step(u, "record", x)
    BY <1>3 DEF ApplyRead
  <2>2. res \in Results /\ res.config = AsConfig(r.answer)
    BY <1>2 DEF Results, AsResult, AsConfig
  <2> HIDE DEF res
  <2>3. /\ x \in Run /\ x.kind = r.kind /\ x.w = r.w /\ x.skip = r.skip /\ x.fresh = r.fresh
        /\ x.result = res /\ x.steady = r.steady /\ x.answer = r.answer
        /\ x.answered = r.answered /\ x.seen = r.seen
    BY <1>1, <2>2, ResultedRun
  <2>4. machine.at = r.w => /\ Loaded(u) = machine.config /\ machine.config # None
                            /\ Config(machine, r.w) = machine.config
    BY <1>1, <1>2, PolicyFacts DEF Config
  <2>5. machine.at = r.w /\ Writable(u) = FALSE => machine.config = AsConfig(r.answer)
    BY <2>0, <2>4 DEF NeedsWrite, AsConfig
  <2>6. r.kind = "launch" => Writable(u) = FALSE
    BY <1>1 DEF Writable
  <2>7. r.kind = "configure" /\ ~r.skip =>
          machine.at \in {None, r.w} /\ Config(machine, r.w) = AsConfig(r.answer)
    <3> SUFFICES ASSUME r.kind = "configure", ~r.skip
                 PROVE  machine.at \in {None, r.w} /\ Config(machine, r.w) = AsConfig(r.answer)
      OBVIOUS
    <3>1. ~NeedsWrite(u) /\ r.fresh
      BY <1>1, <2>0 DEF Writable
    <3>2. CASE AsConfig(r.answer) # None
      BY <3>1, <3>2 DEF NeedsWrite, Config, AsConfig
    <3>3. CASE AsConfig(r.answer) = None
      BY <1>2, <3>1, <3>3 DEF NeedsWrite, Config
    <3> QED
      BY <3>2, <3>3
  <2> HIDE DEF x
  <2>8. \A q : Follows(q, x) => UserInv("record", q, saved[u], machine)
    BY <1>1, <1>2, <2>2, <2>3, <2>5, <2>6, <2>7
  <2> QED
    BY <1>1, <2>1, <2>3, <2>8, GoOnKeeps DEF Labels
<1>4. CASE KeepInstalled(u)
  <2> DEFINE res == [config |-> Loaded(u), disabled |-> r.answer = Disabled]
             x == [r EXCEPT !.result = res]
  <2>1. Step(u, "record", x) /\ ~Writable(u)
    BY <1>4 DEF KeepInstalled
  <2>2. res \in Results /\ res.config = Loaded(u)
    BY <1>1, <1>2, PolicyFacts DEF Results
  <2> HIDE DEF res
  <2>3. /\ x \in Run /\ x.kind = r.kind /\ x.w = r.w /\ x.skip = r.skip /\ x.fresh = r.fresh
        /\ x.result = res /\ x.steady = r.steady
    BY <1>1, <2>2, ResultedRun
  <2>4. r.kind = "configure" => r.skip
    BY <1>1, <2>1 DEF Writable
  <2> HIDE DEF x
  <2>5. \A q : Follows(q, x) => UserInv("record", q, saved[u], machine)
    BY <1>1, <1>2, <2>2, <2>3, <2>4, PolicyFacts
  <2> QED
    BY <1>1, <2>1, <2>3, <2>5, GoOnKeeps DEF Labels
<1>5. CASE Denied(u)
  <2>1. Step(u, "restore", r) /\ Writable(u)
    BY <1>5 DEF Denied
  <2>2. r.fresh /\ ~r.skip
    BY <2>1 DEF Writable
  <2>3. \A q : Follows(q, r) => UserInv("restore", q, saved[u], machine)
    BY <1>1, <1>2, <2>2
  <2> QED
    BY <1>1, <2>1, <2>3, GoOnKeeps DEF Labels
<1> QED
  BY <1>3, <1>4, <1>5

LEMMA InstallKeeps ==
  ASSUME IInv, NEW u \in Users, Install(u)
  PROVE  IInv'
<1> USE DEF Follows, Alike, UserInv, Shape, Governed, Fresh, Settled
<1> DEFINE r == run[u]
           res == AsResult(r.answer)
           x == [r EXCEPT !.result = res]
<1>1. /\ pc[u] = "apply" /\ UNCHANGED <<saved, refreshed, stored, published, commands, publications>>
      /\ r \in Run /\ TypeOK /\ UserInv("apply", r, saved[u], machine) /\ Writable(u)
      /\ Step(u, "record", x)
      /\ machine' = IF AsConfig(r.answer) = None THEN NoPolicy
                    ELSE [at |-> r.w, config |-> r.answer, stamp |-> installs + 1]
      /\ installs' = IF AsConfig(r.answer) = None THEN installs ELSE installs + 1
  BY Known DEF Install
<1>2. r.w \in Workspaces /\ r.kind # "revert" /\ r.answer \in Answers /\ r.fresh /\ ~r.skip
  BY <1>1 DEF Run, Writable
<1>3. /\ machine' \in {NoPolicy} \cup [at : Workspaces, config : Configs, stamp : Stamps]
      /\ installs' \in Nat
      /\ machine'.at \in {None, r.w} /\ Config(machine', r.w) = AsConfig(r.answer)
  BY <1>1, <1>2 DEF AsConfig, TypeOK, Stamps, Config, NoPolicy
<1>4. res \in Results
  BY <1>2 DEF Results, AsResult, AsConfig
<1> HIDE DEF res
<1>5. /\ x \in Run /\ x.kind = r.kind /\ x.w = r.w /\ x.skip = r.skip /\ x.fresh = r.fresh
      /\ x.steady = r.steady /\ x.answer = r.answer
  BY <1>1, <1>4, ResultedRun
<1> HIDE DEF x
<1>6. \A q : Follows(q, x) => UserInv("record", q, saved'[u], machine')
  BY <1>1, <1>2, <1>3, <1>5
<1> QED
  BY <1>1, <1>3, <1>5, <1>6, StepKeeps DEF TypeOK, Labels

LEMMA RecordKeeps ==
  ASSUME IInv, NEW u \in Users, Record(u)
  PROVE  IInv'
<1> USE DEF Follows, Alike, UserInv, Shape, Governed, Fresh, Settled
<1> DEFINE r == run[u]
           rec == [outcome |-> OutcomeOf(r.result), stamp |-> machine.stamp]
<1>1. /\ pc[u] = "record" /\ UNCHANGED <<machine, saved, stored, published, counts>>
      /\ r \in Run /\ TypeOK /\ UserInv("record", r, saved[u], machine)
      /\ Step(u, "done", r) /\ refreshed' = [refreshed EXCEPT ![u][r.w] = rec]
  BY Known DEF Record
<1>2. rec \in [outcome : Outcomes, stamp : Stamps \cup {None}]
  BY <1>1 DEF OutcomeOf, Outcomes, TypeOK, NoPolicy, Stamps
<1>3. refreshed' \in [Users -> [Workspaces -> [outcome : Outcomes, stamp : Stamps \cup {None}]]]
  BY <1>1, <1>2 DEF TypeOK
<1>4. \A q : Follows(q, r) => UserInv("done", q, saved'[u], machine')
  BY <1>1
<1>5. UNCHANGED <<commands, publications, installs>>
  BY <1>1 DEF counts
<1> QED
  BY <1>1, <1>3, <1>4, <1>5, StepKeeps DEF TypeOK, Labels

LEMMA PublishKeeps ==
  ASSUME IInv, NEW w \in Workspaces, NEW a \in Answers, Publish(w, a)
  PROVE  IInv'
<1>1. /\ UNCHANGED <<machine, saved, refreshed, stored, pc, commands, installs>>
      /\ published' = [published EXCEPT ![w] = a]
      /\ publications' = publications + 1 /\ publications < MaxPublications /\ TypeOK
  BY DEF Publish, files, IInv
<1>2. ASSUME NEW q \in Users PROVE run'[q] \in Run /\ Watches(run'[q], run[q])
  <2> DEFINE r == run[q]
             seen == IF r.w = w /\ r.kind = "launch" THEN r.seen \cup {AsConfig(a)} ELSE r.seen
  <2>1. run'[q] = [r EXCEPT !.seen = seen] /\ r \in Run
    BY <1>1 DEF Publish, TypeOK
  <2>2. seen \subseteq Configs \cup {None} /\ r.seen \subseteq seen
    BY <2>1 DEF AsConfig, Run
  <2> HIDE DEF seen
  <2> QED
    BY <1>1, <2>1, <2>2 DEF Run, Watches, Alike
<1>3. run' \in [Users -> Run]
  BY <1>2 DEF Publish
<1>4. TypeOK'
  BY <1>1, <1>3 DEF TypeOK
<1>5. ASSUME NEW q \in Users PROVE UserInv(pc'[q], run'[q], saved'[q], machine')
  <2>1. UserInv(pc[q], run[q], saved[q], machine)
    BY DEF IInv
  <2>2. run[q].kind # "launch" \/ run[q].w \in Workspaces \/ pc[q] = "idle"
    BY <2>1 DEF UserInv, Shape
  <2>3. UserInv(pc[q], run'[q], saved[q], machine')
    BY <1>2, <2>1, <2>2, WatchKeeps
  <2> QED
    BY <1>1, <2>3
<1> QED
  BY <1>4, <1>5 DEF IInv

\* A command that is over, or killed, holds nothing any more.
LEMMA EndKeeps ==
  ASSUME IInv, NEW u \in Users, Kill(u) \/ Return(u)
  PROVE  IInv'
<1>1. /\ pc' = [pc EXCEPT ![u] = "idle"] /\ run' = [run EXCEPT ![u] = NoRun]
      /\ UNCHANGED <<machine, saved, refreshed, stored, published, commands, publications, installs>>
  BY DEF Kill, Return, files, counts
<1>2. TypeOK'
  BY <1>1, NoRunType DEF IInv, TypeOK, Labels
<1>3. \A q \in Users : UserInv(pc'[q], run'[q], saved'[q], machine')
  BY <1>1, NoRunType DEF IInv, TypeOK
<1> QED
  BY <1>2, <1>3 DEF IInv

LEMMA NextIInv == IInv /\ [Next]_vars => IInv'
<1> SUFFICES ASSUME IInv, [Next]_vars PROVE IInv'
  OBVIOUS
<1>1. CASE \E u \in Users : Begin(u)
  <2>1. PICK u \in Users, skip \in Skips :
          \/ \E asked \in Workspaces \cup {None} : Launch(u, asked, skip)
          \/ \E w \in Workspaces, kind \in Kinds, fresh \in BOOLEAN :
               Configure(u, w, kind, skip, fresh)
          \/ Revert(u, skip)
    BY <1>1 DEF Begin
  <2>2. skip \in BOOLEAN
    OBVIOUS
  <2> QED
    BY <2>1, <2>2, LaunchKeeps, ConfigureKeeps, RevertKeeps
<1>2. CASE \E u \in Users : PutBack(u) \/ Clear(u)
  BY <1>2, PutBackKeeps
<1>3. CASE \E u \in Users : Refresh(u)
  BY <1>3, RefreshKeeps
<1>4. CASE \E u \in Users : ReadFails(u) \/ Fetch(u)
  BY <1>4, ReadKeeps
<1>5. CASE \E u \in Users : Cache(u)
  BY <1>5, CacheKeeps
<1>6. CASE \E u \in Users : ApplyRead(u) \/ KeepInstalled(u) \/ Denied(u)
  BY <1>6, ApplyKeeps
<1>7. CASE \E u \in Users : Install(u)
  BY <1>7, InstallKeeps
<1>8. CASE \E u \in Users : Record(u)
  BY <1>8, RecordKeeps
<1>9. CASE \E u \in Users : Kill(u) \/ Return(u)
  BY <1>9, EndKeeps
<1>10. CASE \E w \in Workspaces, a \in Answers : Publish(w, a)
  BY <1>10, PublishKeeps
<1>11. CASE UNCHANGED vars
  <2>1. UNCHANGED <<machine, saved, refreshed, stored, published, pc, run,
                    commands, publications, installs>>
    BY <1>11 DEF vars, files, counts
  <2>2. TypeOK'
    BY <2>1 DEF IInv, TypeOK
  <2> QED
    BY <2>1, <2>2 DEF IInv
<1> QED
  BY <1>1, <1>2, <1>3, <1>4, <1>5, <1>6, <1>7, <1>8, <1>9, <1>10, <1>11 DEF Next

THEOREM Invariance == Spec => []IInv
  BY InitIInv, NextIInv, PTL DEF Spec

-----------------------------------------------------------------------------
(* The theorems. *)

\* Every variable keeps to its domain, for any number of users, workspaces and policies.
THEOREM TypeCorrect == Spec => []TypeOK
<1>1. IInv => TypeOK
  BY DEF IInv
<1> QED
  BY <1>1, Invariance, PTL

\* A launch during which one policy stayed installed for its workspace goes by that policy.
THEOREM LaunchesAreGoverned == Spec => []InstalledGoverns
<1>1. IInv => InstalledGoverns
  BY DEF IInv, InstalledGoverns, UserInv, Governed
<1> QED
  BY <1>1, Invariance, PTL

\* No launch that uses machine-wide settings goes by a policy that was withdrawn before it
\* began, or is another workspace's.
THEOREM LaunchesAreFresh == Spec => []NothingStale
<1>1. IInv => NothingStale
  BY DEF IInv, NothingStale, UserInv, Fresh
<1> QED
  BY <1>1, Invariance, PTL

\* A configure that was answered leaves the machine's policy and its user's selection with
\* one workspace.
THEOREM ConfigureSwitchesOrStays == Spec => []SwitchOrStay
<1>1. IInv => SwitchOrStay
  BY DEF IInv, SwitchOrStay, UserInv, Settled, Shape, Config, Installed
<1> QED
  BY <1>1, Invariance, PTL
=============================================================================
