------------------------- MODULE McpRegistryProofs --------------------------
(***************************************************************************)
(* The types of McpRegistry, that what a user chose changes only by that   *)
(* user's own `ug mcp` and revert, and what a configure without errors     *)
(* leaves registered, for every set of workspaces, agents, names and       *)
(* policies and for every number of commands.                              *)
(*                                                                         *)
(* The first two rest on what a command holds: the commands that change    *)
(* the choice hold the workspace that is current, from their first step to *)
(* their last, and those that save the whole block leave the choice in it  *)
(* alone.  The last rests on what a configure has settled already at each  *)
(* of its steps (Settled): which entries are gone, which are registered.   *)
(***************************************************************************)
EXTENDS McpRegistry, TLAPS

USE ConstantsAssumption

-----------------------------------------------------------------------------
(* The inductive invariant. *)

\* What a command that changes the user's choice holds.
Holding ==
  /\ pc \in {"entry", "book"} =>
       /\ run.op \in {"add", "select", "remove"} /\ run.name \in Names
       /\ current = run.to
  /\ pc \in {"revert", "clear"} => run.op = "revert" /\ current = run.to

IInv == TypeOK /\ Holding

-----------------------------------------------------------------------------
(* Lemmas on the operators. *)

LEMMA IdleTyped == Idle \in Run
  BY DEF Idle, Run, Ops, Kind, Places

LEMMA PairsTyped ==
  ASSUME NEW S \in SUBSET Servers
  PROVE  PairsOf(S) \subseteq Pairs
  BY DEF PairsOf, Servers, Pairs

\* What is written leads to a workspace, or nowhere.
LEMMA WrittenTyped ==
  ASSUME conf \in [Clients -> [Names -> Places]], NEW gone, NEW in, NEW w \in Places
  PROVE  Written(gone, in, w) \in [Clients -> [Names -> Places]]
  BY DEF Written, Places

LEMMA WorkingTyped ==
  ASSUME TypeOK, run.to \in Workspaces
  PROVE  Working \subseteq Servers /\ Rest \subseteq Servers
<1>1. policy[run.to] \in Policy
  BY DEF TypeOK
<1>2. policy[run.to].names \subseteq Names /\ policy[run.to].agents \subseteq Clients
  BY <1>1 DEF Policy
<1>3. Working \subseteq Servers
  BY <1>2 DEF Working, At, Servers
<1> QED
  BY <1>3 DEF Rest, Without

\* The entries that a command is about to put into its block.
LEMMA ChosenTyped ==
  ASSUME TypeOK, run.to \in Workspaces, run.name \in Names,
         run.op \in {"add", "select", "remove"}
  PROVE  Others \cup Chosen \subseteq Pairs
<1>1. user[run.to] \subseteq Pairs
  BY DEF TypeOK
<1>2. run.on \subseteq Clients
  BY DEF TypeOK, Run
<1>3. {run.name} \X run.on \subseteq Pairs
  BY <1>2 DEF Pairs
<1>4. Others \subseteq Pairs
  BY <1>1 DEF Others
<1>5. Chosen \subseteq Pairs
  <2>1. CASE run.op = "add"
    BY <2>1, <1>1, <1>3 DEF Chosen
  <2>2. CASE run.op = "select"
    BY <2>2, <1>3 DEF Chosen
  <2>3. CASE run.op = "remove"
    BY <2>3, <1>1 DEF Chosen
  <2> QED
    BY <2>1, <2>2, <2>3
<1> QED
  BY <1>4, <1>5
\* Steps change only what they note on the way, never what the command is.
LEMMA NotesTyped ==
  ASSUME run \in Run
  PROVE  /\ \A h \in SUBSET Servers : [run EXCEPT !.held = h] \in Run
         /\ \A h \in SUBSET Servers : [run EXCEPT !.held = h].to = run.to
         /\ \A d, f \in BOOLEAN : [run EXCEPT !.due = d, !.sound = f] \in Run
         /\ \A d, f \in BOOLEAN : [run EXCEPT !.due = d, !.sound = f].to = run.to
         /\ \A f \in BOOLEAN : [run EXCEPT !.sound = f] \in Run
         /\ \A f \in BOOLEAN : /\ [run EXCEPT !.sound = f].to = run.to
                               /\ [run EXCEPT !.sound = f].op = run.op
         /\ \A t \in SUBSET Pairs : [run EXCEPT !.sent = t] \in Run
         /\ \A t \in SUBSET Pairs : [run EXCEPT !.sent = t].to = run.to
  BY DEF Run

\* The commands that may change a choice begin with the workspace that is current.
LEMMA StartTyped ==
  ASSUME TypeOK, NEW w \in Workspaces
  PROVE  /\ \A op \in {"add", "select", "remove"}, n \in Names, S \in SUBSET Clients :
              [Idle EXCEPT !.op = op, !.name = n, !.on = S, !.to = w, !.from = w] \in Run
         /\ [Idle EXCEPT !.op = "revert", !.to = w, !.from = w] \in Run
         /\ \A k \in Kind, wide \in BOOLEAN, v \in Places :
              [Idle EXCEPT !.op = "configure", !.kind = k, !.to = w, !.wide = wide,
                           !.from = v] \in Run
  BY DEF Idle, Run, Ops, Kind, Places

-----------------------------------------------------------------------------
(* Every step keeps the invariant, and the choices that are not its own. *)

\* The step leaves alone every choice but that of a user's own command.
Spares ==
  \A w \in Workspaces : user'[w] # user[w] =>
    run.op \in {"add", "select", "remove", "revert"} /\ current = w

LEMMA InitHolds == Init => IInv
<1> SUFFICES ASSUME Init PROVE IInv
  OBVIOUS
<1>1. Idle \in Run
  BY IdleTyped
<1>2. TypeOK
  <2>1. current \in Places /\ pending \in BOOLEAN /\ own \subseteq Workspaces
    BY DEF Init, Places
  <2>2. user \in [Workspaces -> SUBSET Pairs] /\ managed \in [Workspaces -> SUBSET Servers]
    BY DEF Init
  <2>3. /\ conf \in [Clients -> [Names -> Places]]
        /\ file \in [FileClients -> [Names -> Places]]
    BY DEF Init, Places
  <2>4. policy \in [Workspaces -> Policies] /\ commands \in 0 .. MaxCommands
    BY DEF Init
  <2>5. pc \in Labels /\ run \in Run /\ pc = "idle"
    BY <1>1 DEF Init, Labels
  <2> QED
    BY <2>1, <2>2, <2>3, <2>4, <2>5 DEF TypeOK
<1>3. Holding
  BY DEF Init, Holding
<1> QED
  BY <1>2, <1>3 DEF IInv

LEMMA ConfigureKeeps ==
  ASSUME IInv, NEW w \in Workspaces, NEW k \in Kinds, NEW wide \in Widths, Configure(w, k, wide)
  PROVE  IInv' /\ Spares
<1>1. user' = user
  BY DEF Configure
<1>2. PICK v \in Places : run' = [Idle EXCEPT !.op = "configure", !.kind = k, !.to = w,
                                              !.wide = wide, !.from = v]
  BY DEF Configure, Start, IInv, TypeOK, Places
<1>3. k \in Kind /\ wide \in BOOLEAN
  OBVIOUS
<1>4. run' \in Run
  BY <1>2, <1>3, StartTyped DEF IInv
<1>5. run'.to = w
  BY <1>2 DEF Idle
<1>6. commands' \in 0 .. MaxCommands
  BY DEF Configure, Free, Start, IInv, TypeOK
<1>7. TypeOK'
  BY <1>4, <1>5, <1>6 DEF Configure, Start, IInv, TypeOK, agents, Places, Labels
<1>8. Holding'
  BY DEF Configure, Start, Holding
<1> QED
  BY <1>1, <1>7, <1>8 DEF IInv, Spares

LEMMA ChangeKeeps ==
  ASSUME IInv, NEW op \in {"add", "select", "remove"}, NEW n \in Names,
         NEW S \in SUBSET Clients, Change(op, n, S)
  PROVE  IInv' /\ Spares
<1>1. user' = user /\ current' = current /\ current \in Workspaces
  BY DEF Change, state, IInv, TypeOK, Places
<1>2. run' = [Idle EXCEPT !.op = op, !.name = n, !.on = S, !.to = current, !.from = current]
  BY DEF Change, Start
<1>3. run' \in Run
  BY <1>1, <1>2, StartTyped DEF IInv
<1>4. run'.to = current /\ run'.op = op /\ run'.name = n
  BY <1>2 DEF Idle
<1>5. commands' \in 0 .. MaxCommands
  BY DEF Change, Free, Start, IInv, TypeOK
<1>6. TypeOK'
  BY <1>1, <1>3, <1>4, <1>5 DEF Change, Start, IInv, TypeOK, state, agents, Labels
<1>7. Holding'
  BY <1>1, <1>4 DEF Change, Start, Holding
<1> QED
  BY <1>1, <1>6, <1>7 DEF IInv, Spares

LEMMA RevertKeeps ==
  ASSUME IInv, Revert
  PROVE  IInv' /\ Spares
<1>1. user' = user /\ current' = current /\ current \in Workspaces
  BY DEF Revert, state, IInv, TypeOK, Places
<1>2. run' = [Idle EXCEPT !.op = "revert", !.to = current, !.from = current]
  BY DEF Revert, Start
<1>3. run' \in Run
  BY <1>1, <1>2, StartTyped DEF IInv
<1>4. run'.to = current /\ run'.op = "revert"
  BY <1>2 DEF Idle
<1>5. commands' \in 0 .. MaxCommands
  BY DEF Revert, Free, Start, IInv, TypeOK
<1>6. TypeOK'
  BY <1>1, <1>3, <1>4, <1>5 DEF Revert, Start, IInv, TypeOK, state, agents, Labels
<1>7. Holding'
  BY <1>1, <1>4 DEF Revert, Start, Holding
<1> QED
  BY <1>1, <1>6, <1>7 DEF IInv, Spares

LEMMA PublishKeeps ==
  ASSUME IInv, NEW w \in Workspaces, NEW p \in Policies, Publish(w, p)
  PROVE  IInv' /\ Spares
<1>1. UNCHANGED <<state, agents>> /\ pc' = "idle" /\ run' = Idle
  BY DEF Publish
<1>2. commands' \in 0 .. MaxCommands
  BY DEF Publish, Free, IInv, TypeOK
<1>3. policy' \in [Workspaces -> Policies]
  BY DEF Publish, IInv, TypeOK
<1>4. TypeOK'
  BY <1>1, <1>2, <1>3, IdleTyped DEF IInv, TypeOK, state, agents, Labels
<1>5. Holding'
  BY <1>1 DEF Holding
<1> QED
  BY <1>1, <1>4, <1>5 DEF IInv, Spares, state

LEMMA StopKeeps ==
  ASSUME IInv, Stop
  PROVE  IInv' /\ Spares
<1>1. UNCHANGED <<state, agents, policy, commands>> /\ pc' = "idle" /\ run' = Idle
  BY DEF Stop
<1>2. TypeOK'
  BY <1>1, IdleTyped DEF IInv, TypeOK, state, agents, Labels
<1>3. Holding'
  BY <1>1 DEF Holding
<1> QED
  BY <1>1, <1>2, <1>3 DEF IInv, Spares, state

LEMMA SharedKeeps ==
  ASSUME IInv, Shared
  PROVE  IInv' /\ Spares
<1> DEFINE held == IF current = None THEN {} ELSE managed[current]
<1>1. held \in SUBSET Servers
  BY DEF IInv, TypeOK, Places
<1>2. run' = [run EXCEPT !.held = held] /\ managed' = [managed EXCEPT ![run.to] = held]
  BY DEF Shared
<1> HIDE DEF held
<1>3. run \in Run /\ run.to \in Workspaces
  BY DEF Shared, IInv, TypeOK
<1>4. run' \in Run /\ run'.to = run.to
  BY <1>1, <1>2, <1>3, NotesTyped
<1>5. user' = user
  BY <1>3 DEF Shared, Selection, IInv, TypeOK
<1>6. managed' \in [Workspaces -> SUBSET Servers]
  BY <1>1, <1>2 DEF IInv, TypeOK
<1>7. TypeOK'
  BY <1>3, <1>4, <1>5, <1>6 DEF Shared, Goes, IInv, TypeOK, agents, Labels, Places
<1>8. Holding'
  BY DEF Shared, Goes, Holding
<1> QED
  BY <1>5, <1>7, <1>8 DEF IInv, Spares

LEMMA PurgeKeeps ==
  ASSUME IInv, Purge
  PROVE  IInv' /\ Spares
<1>1. run \in Run /\ run.to \in Workspaces
  BY DEF Purge, IInv, TypeOK
<1>2. PICK due, sound \in BOOLEAN : run' = [run EXCEPT !.due = due, !.sound = sound]
  <2>1. PICK F : run' = [run EXCEPT !.due = ~run.wide /\ (Switched \/ pending), !.sound = F = {}]
    BY DEF Purge
  <2>2. (~run.wide /\ (Switched \/ pending)) \in BOOLEAN /\ (F = {}) \in BOOLEAN
    OBVIOUS
  <2> QED
    BY <2>1, <2>2
<1>3. run' \in Run /\ run'.to = run.to
  BY <1>1, <1>2, NotesTyped
<1>4. conf' \in [Clients -> [Names -> Places]]
  <2>1. None \in Places
    BY DEF Places
  <2>2. PICK gone : conf' = Written(gone, {}, None)
    BY DEF Purge
  <2> QED
    BY <2>1, <2>2, WrittenTyped DEF IInv, TypeOK
<1>5. pending' \in BOOLEAN
  BY DEF Purge
<1>6. pc' \in {"done", "agents"} /\ UNCHANGED <<current, user, managed, own, file, policy, commands>>
  BY DEF Purge, Goes
<1>7. TypeOK'
  BY <1>1, <1>3, <1>4, <1>5, <1>6 DEF IInv, TypeOK, Labels
<1>8. Holding'
  BY <1>6 DEF Holding
<1> QED
  BY <1>6, <1>7, <1>8 DEF IInv, Spares

LEMMA AgentsKeeps ==
  ASSUME IInv, Agents
  PROVE  IInv' /\ Spares
<1>1. run' = run /\ run.to \in Workspaces /\ pc' \in {"restore", "resolve"}
  BY DEF Agents, Goes, IInv, TypeOK
<1>2. TypeOK'
  BY <1>1 DEF Agents, Goes, IInv, TypeOK, agents, Labels
<1>3. Holding'
  BY <1>1 DEF Holding
<1> QED
  BY <1>2, <1>3 DEF IInv, Spares, Agents

LEMMA ResolveKeeps ==
  ASSUME IInv, Resolve
  PROVE  IInv' /\ Spares
<1>1. run \in Run /\ run.to \in Workspaces
  BY DEF Resolve, IInv, TypeOK
<1>2. PICK sound \in BOOLEAN : run' = [run EXCEPT !.sound = sound]
  <2>1. PICK F, refused : run' = [run EXCEPT !.sound = run.sound /\ F = {} /\ ~refused]
    BY <1>1 DEF Resolve
  <2>2. (run.sound /\ F = {} /\ ~refused) \in BOOLEAN
    OBVIOUS
  <2> QED
    BY <2>1, <2>2
<1>3. run' \in Run /\ run'.to = run.to
  BY <1>1, <1>2, NotesTyped
<1>4. conf' \in [Clients -> [Names -> Places]]
  <2>1. None \in Places
    BY DEF Places
  <2>2. PICK gone : conf' = Written(gone, {}, None)
    BY DEF Resolve
  <2> QED
    BY <2>1, <2>2, WrittenTyped DEF IInv, TypeOK
<1>5. pc' \in {"restore", "files"} /\ UNCHANGED <<state, file, policy, commands>>
  BY DEF Resolve, Goes
<1>6. TypeOK'
  BY <1>1, <1>3, <1>4, <1>5 DEF IInv, TypeOK, Labels, state
<1>7. Holding'
  BY <1>5 DEF Holding
<1> QED
  BY <1>5, <1>6, <1>7 DEF IInv, Spares, state
LEMMA FilesKeeps ==
  ASSUME IInv, Files
  PROVE  IInv' /\ Spares
<1>1. run \in Run /\ run.to \in Workspaces
  BY DEF Files, IInv, TypeOK
<1>2. PICK eligible \in SUBSET FileClients, writable \in SUBSET FileClients :
        LET fit == [c \in FileClients |-> IF c \in eligible THEN Fitting(c) ELSE {}] IN
        /\ file' = [c \in FileClients |->
                      IF c \notin writable THEN file[c]
                      ELSE [n \in Names |-> IF n \in fit[c] THEN run.to ELSE None]]
        /\ run' = [run EXCEPT !.sent = UNION {fit[c] \X {c} : c \in eligible \cap writable}]
  BY DEF Files
<1> DEFINE fit == [c \in FileClients |-> IF c \in eligible THEN Fitting(c) ELSE {}]
           sent == UNION {fit[c] \X {c} : c \in eligible \cap writable}
<1>3. \A c \in FileClients : fit[c] \subseteq Names
  BY DEF Fitting
<1>4. sent \subseteq Pairs
  <2>1. \A c \in eligible \cap writable : fit[c] \X {c} \subseteq Pairs
    BY <1>3 DEF Pairs
  <2> HIDE DEF fit
  <2> QED
    BY <2>1
<1>5. run' = [run EXCEPT !.sent = sent]
  BY <1>2
<1>6. file' \in [FileClients -> [Names -> Places]]
  BY <1>1, <1>2 DEF IInv, TypeOK, Places
<1> HIDE DEF sent
<1>7. run' \in Run /\ run'.to = run.to
  BY <1>1, <1>4, <1>5, NotesTyped
<1>8. pc' \in {"restore", "register"} /\ UNCHANGED <<state, conf, policy, commands>>
  BY DEF Files, Goes
<1>9. TypeOK'
  BY <1>1, <1>6, <1>7, <1>8 DEF IInv, TypeOK, Labels, state
<1>10. Holding'
  BY <1>8 DEF Holding
<1> QED
  BY <1>8, <1>9, <1>10 DEF IInv, Spares, state

LEMMA RegisterKeeps ==
  ASSUME IInv, Register
  PROVE  IInv' /\ Spares
<1>1. run \in Run /\ run.to \in Workspaces
  BY DEF Register, IInv, TypeOK
<1>2. PICK sound \in BOOLEAN : run' = [run EXCEPT !.sound = sound]
  <2>1. PICK F, G : run' = [run EXCEPT !.sound = run.sound /\ F \cup G = {}]
    BY <1>1 DEF Register
  <2>2. (run.sound /\ F \cup G = {}) \in BOOLEAN
    OBVIOUS
  <2> QED
    BY <2>1, <2>2
<1>3. run' \in Run /\ run'.to = run.to
  BY <1>1, <1>2, NotesTyped
<1>4. conf' \in [Clients -> [Names -> Places]]
  <2>1. run.to \in Places
    BY <1>1 DEF Places
  <2>2. PICK gone, in : conf' = Written(gone, in, run.to)
    BY DEF Register
  <2> QED
    BY <2>1, <2>2, WrittenTyped DEF IInv, TypeOK
<1>5. pc' \in {"restore", "save"} /\ UNCHANGED <<state, file, policy, commands>>
  BY DEF Register, Goes
<1>6. TypeOK'
  BY <1>1, <1>3, <1>4, <1>5 DEF IInv, TypeOK, Labels, state
<1>7. Holding'
  BY <1>5 DEF Holding
<1> QED
  BY <1>5, <1>6, <1>7 DEF IInv, Spares, state

LEMMA SaveKeeps ==
  ASSUME IInv, Save
  PROVE  IInv' /\ Spares
<1>1. run' = run /\ run.to \in Workspaces /\ pc' = "restore"
  BY DEF Save, Goes, IInv, TypeOK
<1>2. managed' \in [Workspaces -> SUBSET Servers]
  BY <1>1, WorkingTyped DEF Save, IInv, TypeOK
<1>3. TypeOK'
  BY <1>1, <1>2 DEF Save, Goes, IInv, TypeOK, agents, Labels
<1>4. Holding'
  BY <1>1 DEF Holding
<1> QED
  BY <1>3, <1>4 DEF IInv, Spares, Save

LEMMA RestoreKeeps ==
  ASSUME IInv, Restore
  PROVE  IInv' /\ Spares
<1>1. run' = run /\ run.to \in Workspaces
  BY DEF Restore, IInv, TypeOK
<1>2. conf' \in [Clients -> [Names -> Places]]
  <2>1. run.to \in Places
    BY <1>1 DEF Places
  <2>2. PICK in : conf' = Written({}, in, run.to)
    BY DEF Restore
  <2> QED
    BY <2>1, <2>2, WrittenTyped DEF IInv, TypeOK
<1>3. pending' \in BOOLEAN
  BY DEF Restore
<1>4. /\ pc' \in {"idle", "record", "done"}
      /\ UNCHANGED <<current, user, managed, own, file, policy, commands>>
  BY DEF Restore, Goes
<1>5. TypeOK'
  BY <1>1, <1>2, <1>3, <1>4 DEF IInv, TypeOK, Labels
<1>6. Holding'
  BY <1>4 DEF Holding
<1> QED
  BY <1>4, <1>5, <1>6 DEF IInv, Spares

LEMMA RecordKeeps ==
  ASSUME IInv, Record
  PROVE  IInv' /\ Spares
<1>1. run' = run /\ run.to \in Workspaces /\ pc' = "done" /\ run \in Run
  BY DEF Record, Goes, IInv, TypeOK
<1>2. run.held \in SUBSET Servers
  BY <1>1 DEF Run
<1>3. managed' \in [Workspaces -> SUBSET Servers]
  BY <1>1, <1>2 DEF Record, IInv, TypeOK
<1>4. TypeOK'
  BY <1>1, <1>3 DEF Record, Goes, IInv, TypeOK, agents, Labels
<1>5. Holding'
  BY <1>1 DEF Holding
<1> QED
  BY <1>4, <1>5 DEF IInv, Spares, Record

LEMMA AddKeeps ==
  ASSUME IInv, Add
  PROVE  IInv' /\ Spares
<1>1. run' = run /\ run.to \in Workspaces /\ pc = "entry"
  BY DEF Add, IInv, TypeOK
<1>2. conf' \in [Clients -> [Names -> Places]]
  <2>1. run.to \in Places
    BY <1>1 DEF Places
  <2>2. conf' = conf \/ \E in : conf' = Written({}, in, run.to)
    BY DEF Add
  <2> QED
    BY <2>1, <2>2, WrittenTyped DEF IInv, TypeOK
<1>3. pc' \in {"idle", "book", "done"} /\ UNCHANGED <<state, file, policy, commands>>
  BY DEF Add, Goes
<1>4. TypeOK'
  BY <1>1, <1>2, <1>3 DEF IInv, TypeOK, Labels, state
<1>5. Holding'
  BY <1>1, <1>3 DEF IInv, Holding, state
<1> QED
  BY <1>3, <1>4, <1>5 DEF IInv, Spares, state

LEMMA RemoveKeeps ==
  ASSUME IInv, Remove
  PROVE  IInv' /\ Spares
<1>1. run' = run /\ run.to \in Workspaces /\ pc = "entry"
  BY DEF Remove, IInv, TypeOK
<1>2. conf' \in [Clients -> [Names -> Places]]
  <2>1. None \in Places
    BY DEF Places
  <2>2. \E gone : conf' = Written(gone, {}, None)
    BY DEF Remove
  <2> QED
    BY <2>1, <2>2, WrittenTyped DEF IInv, TypeOK
<1>3. pc' \in {"idle", "book"} /\ UNCHANGED <<state, file, policy, commands>>
  BY DEF Remove, Goes
<1>4. TypeOK'
  BY <1>1, <1>2, <1>3 DEF IInv, TypeOK, Labels, state
<1>5. Holding'
  BY <1>1, <1>3 DEF IInv, Holding, state
<1> QED
  BY <1>3, <1>4, <1>5 DEF IInv, Spares, state

LEMMA BookKeeps ==
  ASSUME IInv, Book
  PROVE  IInv' /\ Spares
<1>1. run' = run /\ run.to \in Workspaces /\ pc' = "done"
  BY DEF Book, Goes, IInv, TypeOK
<1>2. run.op \in {"add", "select", "remove"} /\ run.name \in Names /\ current = run.to
  BY DEF Book, IInv, Holding
<1>3. Others \cup Chosen \subseteq Pairs
  BY <1>1, <1>2, ChosenTyped DEF IInv
<1>4. user' = [user EXCEPT ![run.to] = Others \cup Chosen]
  BY DEF Book
<1> HIDE DEF Others, Chosen
<1>5. user' \in [Workspaces -> SUBSET Pairs]
  BY <1>3, <1>4 DEF IInv, TypeOK
<1>6. TypeOK'
  BY <1>1, <1>5 DEF Book, Goes, IInv, TypeOK, agents, Labels
<1>7. Holding'
  BY <1>1 DEF Holding
<1>8. Spares
  BY <1>1, <1>2, <1>4 DEF IInv, TypeOK, Spares
<1> QED
  BY <1>6, <1>7, <1>8 DEF IInv

LEMMA RevertEntriesKeeps ==
  ASSUME IInv, RevertEntries
  PROVE  IInv' /\ Spares
<1>1. run \in Run /\ run.to \in Workspaces /\ pc = "revert"
  BY DEF RevertEntries, IInv, TypeOK
<1>2. PICK sound \in BOOLEAN : run' = [run EXCEPT !.sound = sound]
  BY DEF RevertEntries
<1>3. run' \in Run /\ run'.to = run.to /\ run'.op = run.op
  BY <1>1, <1>2, NotesTyped
<1>4. conf' \in [Clients -> [Names -> Places]]
  <2>1. None \in Places
    BY DEF Places
  <2>2. \E gone : conf' = Written(gone, {}, None)
    BY DEF RevertEntries
  <2> QED
    BY <2>1, <2>2, WrittenTyped DEF IInv, TypeOK
<1>5. file' \in [FileClients -> [Names -> Places]]
  BY DEF RevertEntries, IInv, TypeOK, Places
<1>6. pc' = "clear" /\ UNCHANGED <<state, policy, commands>>
  BY DEF RevertEntries, Goes
<1>7. TypeOK'
  BY <1>1, <1>3, <1>4, <1>5, <1>6 DEF IInv, TypeOK, Labels, state
<1>8. Holding'
  BY <1>1, <1>3, <1>6 DEF IInv, Holding, state
<1> QED
  BY <1>6, <1>7, <1>8 DEF IInv, Spares, state

LEMMA ClearKeeps ==
  ASSUME IInv, Clear
  PROVE  IInv' /\ Spares
<1>1. run' = run /\ run.to \in Workspaces /\ pc' = "done"
  BY DEF Clear, Goes, IInv, TypeOK
<1>2. run.op = "revert" /\ current = run.to
  BY DEF Clear, IInv, Holding
<1>3. /\ user' \in [Workspaces -> SUBSET Pairs]
      /\ managed' \in [Workspaces -> SUBSET Servers]
  BY <1>1 DEF Clear, IInv, TypeOK
<1>4. TypeOK'
  BY <1>1, <1>3 DEF Clear, Goes, IInv, TypeOK, agents, Labels, Places
<1>5. Holding'
  BY <1>1 DEF Holding
<1>6. Spares
  BY <1>1, <1>2 DEF Clear, IInv, TypeOK, Spares
<1> QED
  BY <1>4, <1>5, <1>6 DEF IInv

LEMMA StepKeeps == IInv /\ [Next]_vars => IInv' /\ (Spares \/ UNCHANGED vars)
<1> SUFFICES ASSUME IInv, [Next]_vars PROVE IInv' /\ (Spares \/ UNCHANGED vars)
  OBVIOUS
<1>1. CASE UNCHANGED vars
  <2>1. TypeOK'
    BY <1>1 DEF IInv, TypeOK, vars, state, agents
  <2>2. Holding'
    BY <1>1 DEF IInv, Holding, vars, state
  <2> QED
    BY <1>1, <2>1, <2>2 DEF IInv
<1>2. CASE Commands
  BY <1>2, ConfigureKeeps, ChangeKeeps, RevertKeeps, PublishKeeps DEF Commands
<1>3. CASE Steps
  BY <1>3, SharedKeeps, PurgeKeeps, AgentsKeeps, ResolveKeeps, FilesKeeps, RegisterKeeps,
     SaveKeeps, RestoreKeeps, RecordKeeps, AddKeeps, RemoveKeeps, BookKeeps,
     RevertEntriesKeeps, ClearKeeps, StopKeeps DEF Steps
<1> QED
  BY <1>1, <1>2, <1>3 DEF Next

-----------------------------------------------------------------------------
(* The theorems. *)

\* The invariant holds in every state: what a command holds is what it began with.
THEOREM Invariance == Spec => []IInv
<1>1. IInv /\ [Next]_vars => IInv'
  BY StepKeeps
<1> QED
  BY <1>1, InitHolds, PTL DEF Spec

\* Every variable keeps to its domain, and a block lists only pairs of names and agents.
THEOREM TypeCorrect == Spec => []TypeOK
<1>1. IInv => TypeOK
  BY DEF IInv
<1> QED
  BY <1>1, Invariance, PTL

\* Switches, launches, reconciliations and saves of whole blocks leave every user's choice in
\* every workspace alone (cli.py, mcp.py): only `ug mcp` and revert in it change it.
THEOREM ChoicesSurvive == Spec => ChoicesKept
<1>1. IInv /\ [Next]_vars =>
        [\A w \in Workspaces : user'[w] # user[w] =>
           run.op \in {"add", "select", "remove", "revert"} /\ current = w]_vars
  BY StepKeeps DEF Spares
<1> QED
  BY <1>1, Invariance, PTL DEF Spec, ChoicesKept

-----------------------------------------------------------------------------
(* What a configure has settled at each of its steps. *)

\* A configure of every agent's own settings that has met no error yet.
Whole == run.kind \in {"all", "agent"} /\ ~run.wide /\ run.sound

\* An agent's entry leads to another workspace, whose block lists it.
Stray(p) ==
  conf[p[2]][p[1]] \in Workspaces \ {run.to} /\ p \in user[conf[p[2]][p[1]]]

Delivered ==
  \A p \in run.sent : p \in PairsOf(Working) /\ p[2] \in FileClients /\ file[p[2]][p[1]] # None

\* The only entries of other workspaces are under names that are the user's or published, and
\* those of names that are neither are gone.
Cleaned ==
  /\ run.due => \A p \in Pairs :
       Stray(p) => p \in user[run.to] \cup run.sent \/ p[1] \in NamesOf(Rest)
  /\ \A p \in PairsOf(run.held) :
       p[1] \notin NamesOf(Working) /\ p \notin user[run.to] => conf[p[2]][p[1]] = None

Restored == \A p \in user[run.to] : Own(p) => conf[p[2]][p[1]] = run.to

Early == {"agents", "resolve", "files", "register"}
Late == {"save", "restore", "record"}

Settling ==
  /\ pc \in {"purge"} \cup Early \cup Late => current = run.to
  /\ pc \in {"purge", "save"} \cup Early => managed[run.to] = run.held
  /\ Whole =>
       /\ pc \in {"save", "restore"} \cup Early /\ run.due => run.from # run.to \/ pending
       /\ pc \in Early /\ run.due => \A p \in Pairs :
            Stray(p) => p \in user[run.to] \cup PairsOf(run.held)
       /\ pc \in {"register"} \cup Late => Delivered
       /\ pc \in Late => Cleaned
       /\ pc \in {"restore", "record"} => managed[run.to] = Rest
       /\ pc = "record" => Unmanaged /\ (run.due => Restored)

Settled == Settling /\ SwitchSettles /\ DroppedIsGone

\* Where no configure is under way or over, there is nothing to show.
LEMMA Elsewhere ==
  ASSUME pc' \notin {"purge", "done"} \cup Early \cup Late
  PROVE  Settled'
  BY DEF Settled, Settling, SwitchSettles, DroppedIsGone, Sound, Early, Late

LEMMA OtherCommand ==
  ASSUME pc' = "done", run'.op # "configure" \/ run'.kind = "launch"
  PROVE  Settled'
  BY DEF Settled, Settling, SwitchSettles, DroppedIsGone, Sound, Early, Late

\* What an agent's settings have for a name after a write.
LEMMA WrittenAt ==
  ASSUME NEW p \in Pairs, NEW gone, NEW in, NEW w
  PROVE  Written(gone, in, w)[p[2]][p[1]] =
           IF p \in in THEN w ELSE IF p \in gone THEN None ELSE conf[p[2]][p[1]]
<1>1. p[1] \in Names /\ p[2] \in Clients /\ p = <<p[1], p[2]>>
  BY DEF Pairs
<1> QED
  BY <1>1 DEF Written

LEMMA NoneFails == \A P : Except(P, {}) = P
  BY DEF Except

\* Entries that are taken away, or that lead to the workspace of the command, stray nowhere.
LEMMA StrayWas ==
  ASSUME IInv, run.to \in Workspaces, run'.to = run.to, user' = user,
         NEW gone, NEW in, NEW w \in {None, run.to}, conf' = Written(gone, in, w),
         NEW p \in Pairs, Stray(p)'
  PROVE  Stray(p) /\ p \notin gone /\ p \notin in
<1>1. conf'[p[2]][p[1]] = IF p \in in THEN w ELSE IF p \in gone THEN None ELSE conf[p[2]][p[1]]
  BY WrittenAt
<1>2. conf'[p[2]][p[1]] \in Workspaces \ {run.to}
  BY DEF Stray
<1> QED
  BY <1>1, <1>2 DEF Stray

LEMMA SharedSettles ==
  ASSUME IInv, Settled, Shared
  PROVE  Settled'
<1>1. run.to \in Workspaces /\ run \in Run /\ pc' = "purge" /\ current' = run.to
  BY DEF Shared, Goes, IInv, TypeOK
<1>2. PICK held : /\ managed' = [managed EXCEPT ![run.to] = held]
                  /\ run' = [run EXCEPT !.held = held]
  BY DEF Shared
<1>3. run'.to = run.to /\ run'.held = held
  BY <1>1, <1>2 DEF Run
<1>4. managed'[run.to] = held
  BY <1>1, <1>2 DEF IInv, TypeOK
<1>5. Settling'
  BY <1>1, <1>3, <1>4 DEF Settling, Early, Late
<1> QED
  BY <1>1, <1>5 DEF Settled, SwitchSettles, DroppedIsGone, Sound

\* The purge takes away what strays, except under the names of this workspace's block.
LEMMA PurgeSettles ==
  ASSUME IInv, Settled, Purge
  PROVE  Settled'
<1>1. run.to \in Workspaces /\ run \in Run /\ user' = user /\ managed' = managed
      /\ current' = current
  BY DEF Purge, IInv, TypeOK
<1> DEFINE due == ~run.wide /\ (Switched \/ pending)
           gone == IF due THEN Residue(run.to) ELSE {}
<1>2. PICK F : /\ conf' = Written(Except(gone, F), {}, None)
               /\ run' = [run EXCEPT !.due = due, !.sound = F = {}]
  BY Zenon DEF Purge
<1>3. /\ run'.to = run.to /\ run'.held = run.held /\ run'.due = due /\ run'.sound = (F = {})
      /\ run'.kind = run.kind /\ run'.wide = run.wide /\ run'.from = run.from
  BY <1>1, <1>2 DEF Run
<1>4. CASE run.kind = "launch"
  BY <1>3, <1>4, OtherCommand DEF Purge, Goes
<1>5. CASE run.kind # "launch"
  <2>1. pc' = "agents" /\ current' = run'.to /\ managed'[run'.to] = run'.held
    BY <1>1, <1>3, <1>5 DEF Purge, Goes, Settled, Settling
  <2>2. ASSUME Whole', run'.due PROVE run'.from # run'.to \/ pending'
    BY <1>3, <2>2 DEF Purge, Switched
  <2>3. ASSUME Whole', run'.due, NEW p \in Pairs, Stray(p)'
        PROVE  p \in user[run.to] \cup PairsOf(run.held)
    <3>1. F = {} /\ Except(gone, F) = Residue(run.to)
      BY <1>3, <2>3, NoneFails DEF Whole
    <3>2. Stray(p) /\ p \notin Residue(run.to)
      BY <1>1, <1>2, <1>3, <2>3, <3>1, StrayWas
    <3> QED
      BY <1>1, <3>2 DEF Residue, Stray, Settled, Settling, Purge
  <2>4. Settling'
    BY <1>1, <1>3, <2>1, <2>2, <2>3 DEF Settling, Early, Late
  <2> QED
    BY <2>1, <2>4 DEF Settled, SwitchSettles, DroppedIsGone, Sound
<1> QED
  BY <1>4, <1>5

LEMMA AgentsSettles ==
  ASSUME IInv, Settled, Agents
  PROVE  Settled'
<1>1. /\ run' = run /\ UNCHANGED <<current, pending, user, managed, conf, file, policy>>
      /\ pc' = IF run.kind = "other" THEN "restore" ELSE "resolve"
  BY DEF Agents, Goes, agents
<1>2. run.kind = "other" => ~Whole
  BY DEF Whole
<1>3. Whole' = Whole /\ \A p \in Pairs : Stray(p)' = Stray(p)
  BY <1>1 DEF Whole, Stray
<1>4. Settling'
  BY <1>1, <1>2, <1>3 DEF Agents, Settled, Settling, Early, Late
<1> QED
  BY <1>1, <1>4 DEF Settled, SwitchSettles, DroppedIsGone, Sound

LEMMA ResolveSettles ==
  ASSUME IInv, Settled, Resolve
  PROVE  Settled'
<1>1. run.to \in Workspaces /\ run \in Run /\ UNCHANGED <<current, pending, user, managed, file>>
  BY DEF Resolve, IInv, TypeOK, state
<1>2. PICK gone, sound :
        /\ conf' = Written(gone, {}, None) /\ sound \in BOOLEAN
        /\ run' = [run EXCEPT !.sound = run.sound /\ sound]
        /\ pc' = "files" \/ (pc' = "restore" /\ ~sound)
  <2>1. PICK g, F, refused :
          /\ conf' = Written(Except(g, F), {}, None)
          /\ run' = [run EXCEPT !.sound = run.sound /\ F = {} /\ ~refused]
          /\ pc' = IF refused THEN "restore" ELSE "files"
    BY <1>1 DEF Resolve, Goes
  <2> DEFINE sound == F = {} /\ ~refused
  <2>2. sound \in BOOLEAN /\ (run.sound /\ F = {} /\ ~refused) = (run.sound /\ sound)
    OBVIOUS
  <2>3. /\ run' = [run EXCEPT !.sound = run.sound /\ sound]
        /\ pc' = "files" \/ (pc' = "restore" /\ ~sound)
    BY <2>1, <2>2
  <2> HIDE DEF sound
  <2> QED
    BY <2>1, <2>2, <2>3
<1>3. /\ run'.to = run.to /\ run'.held = run.held /\ run'.due = run.due
      /\ run'.kind = run.kind /\ run'.wide = run.wide /\ run'.from = run.from
      /\ run'.sound = (run.sound /\ sound)
  BY <1>1, <1>2 DEF Run
<1>4. Whole' => Whole /\ pc' = "files"
  BY <1>2, <1>3 DEF Whole
<1>5. \A p \in Pairs : Stray(p)' => Stray(p)
  BY <1>1, <1>2, <1>3, StrayWas
<1>6. Settling'
  BY <1>1, <1>2, <1>3, <1>4, <1>5 DEF Resolve, Settled, Settling, Early, Late
<1> QED
  BY <1>2, <1>6 DEF Settled, SwitchSettles, DroppedIsGone, Sound

\* A server that a file delivers is one of those published, and its entry is in the file.
LEMMA FilesSettles ==
  ASSUME IInv, Settled, Files
  PROVE  Settled'
<1>1. run.to \in Workspaces /\ run \in Run
      /\ UNCHANGED <<current, pending, user, managed, own, conf, policy>>
  BY DEF Files, IInv, TypeOK, state, Goes
<1>2. PICK eligible \in SUBSET FileClients, writable \in SUBSET FileClients :
        LET fit == [c \in FileClients |-> IF c \in eligible THEN Fitting(c) ELSE {}] IN
        /\ file' = [c \in FileClients |->
                      IF c \notin writable THEN file[c]
                      ELSE [n \in Names |-> IF n \in fit[c] THEN run.to ELSE None]]
        /\ run' = [run EXCEPT !.sent = UNION {fit[c] \X {c} : c \in eligible \cap writable}]
  BY DEF Files
<1> DEFINE fit == [c \in FileClients |-> IF c \in eligible THEN Fitting(c) ELSE {}]
           sent == UNION {fit[c] \X {c} : c \in eligible \cap writable}
<1>3. /\ run'.to = run.to /\ run'.held = run.held /\ run'.due = run.due
      /\ run'.kind = run.kind /\ run'.wide = run.wide /\ run'.from = run.from
      /\ run'.sound = run.sound /\ run'.sent = sent
  BY <1>1, <1>2 DEF Run
<1>4. ASSUME NEW c \in FileClients, NEW n \in fit[c]
      PROVE  n \in Names /\ <<n, c>> \in PairsOf(Working)
  <2>2. n \in NamesOf(Working) /\ c \in policy[run.to].agents /\ n \in Native
    BY <1>4 DEF Fitting
  <2>3. PICK e \in Working : n = e[1]
    BY <2>2 DEF NamesOf
  <2>4. n \in policy[run.to].names
    BY <2>3 DEF Working, At
  <2> DEFINE q == <<n, c>>
  <2>5. q \in policy[run.to].names \X policy[run.to].agents /\ q[1] = n /\ q[2] = c
    BY <2>2, <2>4
  <2>6. <<q[1], q[2], run.to>> \in Working
    BY <2>5 DEF Working, At
  <2> DEFINE entry == <<q[1], q[2], run.to>>
  <2>7. <<entry[1], entry[2]>> \in PairsOf(Working)
    BY <2>6 DEF PairsOf
  <2> QED
    BY <2>2, <2>5, <2>7
<1>5. ASSUME NEW p \in sent
      PROVE  p \in PairsOf(Working) /\ p[2] \in FileClients /\ file'[p[2]][p[1]] # None
  <2>1. PICK c \in eligible \cap writable : p \in fit[c] \X {c}
    BY <1>5
  <2>2. PICK n \in fit[c] : p = <<n, c>>
    BY <2>1
  <2>3. n \in Names /\ <<n, c>> \in PairsOf(Working)
    BY <1>4, <2>1, <2>2
  <2>4. file'[c] = [m \in Names |-> IF m \in fit[c] THEN run.to ELSE None]
    BY <1>2, <2>1
  <2>5. file'[c][n] = run.to
    BY <2>2, <2>3, <2>4
  <2> QED
    BY <1>1, <2>1, <2>2, <2>3, <2>5
<1> HIDE DEF fit, sent
<1>6. Working' = Working
  BY <1>1, <1>3 DEF Working, At
<1>7. Delivered'
  BY <1>3, <1>5, <1>6 DEF Delivered
<1>8. pc' = (IF run.wide THEN "restore" ELSE "register") /\ (run.wide => ~Whole')
  BY <1>3 DEF Files, Goes, Whole
<1>9. (Whole' = Whole) /\ \A p \in Pairs : Stray(p)' = Stray(p)
  BY <1>1, <1>3 DEF Whole, Stray
<1>10. Settling'
  BY <1>1, <1>3, <1>7, <1>8, <1>9 DEF Files, Settled, Settling, Early, Late
<1> QED
  BY <1>8, <1>10 DEF Settled, SwitchSettles, DroppedIsGone, Sound

\* A name that stays published keeps its servers, delivered or not.
LEMMA RestFacts ==
  ASSUME IInv, run.to \in Workspaces
  PROVE  /\ Rest \subseteq Working /\ NamesOf(Rest) \subseteq NamesOf(Working)
         /\ \A p \in PairsOf(Without(managed[run.to], run.sent)) : p \in Pairs
         /\ \A p \in PairsOf(managed[run.to]) :
              p \in run.sent \/ p \in PairsOf(Without(managed[run.to], run.sent))
         /\ \A p \in Pairs : p \in PairsOf(Working) => p[1] \in NamesOf(Working)
<1>1. managed[run.to] \subseteq Servers
  BY DEF IInv, TypeOK
<1>2. Rest \subseteq Working
  BY DEF Rest, Without
<1>3. Without(managed[run.to], run.sent) \subseteq Servers
  BY <1>1 DEF Without
<1>4. \A p \in PairsOf(managed[run.to]) :
         p \in run.sent \/ p \in PairsOf(Without(managed[run.to], run.sent))
  BY DEF PairsOf, Without
<1> QED
  BY <1>2, <1>3, <1>4, PairsTyped DEF NamesOf, PairsOf

LEMMA RegisterSettles ==
  ASSUME IInv, Settled, Register
  PROVE  Settled'
<1>1. run.to \in Workspaces /\ run \in Run
      /\ UNCHANGED <<current, pending, user, managed, own, file, policy>>
  BY DEF Register, IInv, TypeOK, state, Goes
<1> DEFINE old == Without(managed[run.to], run.sent)
           drop == Dropped(managed[run.to])
           gone == Gone(old, Rest)
           in == In(old, Rest, FallbackClients)
<1>2. PICK F, G :
        /\ conf' = Written(Except(drop, G) \cup Except(gone, F), Except(in, F), run.to)
        /\ run' = [run EXCEPT !.sound = run.sound /\ F \cup G = {}]
        /\ pc' = IF F = {} THEN "save" ELSE "restore"
  BY <1>1, Zenon DEF Register, Goes
<1>3. /\ run'.to = run.to /\ run'.held = run.held /\ run'.due = run.due
      /\ run'.kind = run.kind /\ run'.wide = run.wide /\ run'.from = run.from
      /\ run'.sound = (run.sound /\ F \cup G = {}) /\ run'.sent = run.sent
  BY <1>1, <1>2 DEF Run
<1>4. Whole' => Whole /\ F = {} /\ G = {}
  BY <1>3 DEF Whole
<1>5. Working' = Working /\ Rest' = Rest
  BY <1>1, <1>3 DEF Rest, Working, At, Without
<1>6. Delivered' = Delivered
  BY <1>1, <1>3, <1>5 DEF Delivered
<1>7. ASSUME Whole' PROVE Cleaned'
  <2>1. conf' = Written(drop \cup gone, in, run.to)
    BY <1>2, <1>4, <1>7, NoneFails
  <2>2. Whole /\ Delivered /\ managed[run.to] = run.held
    BY <1>4, <1>7 DEF Register, Settled, Settling, Early, Late
  <2>3. ASSUME NEW p \in Pairs, run.due, Stray(p)'
        PROVE  p \in user[run.to] \cup run.sent \/ p[1] \in NamesOf(Rest)
    <3>1. Stray(p) /\ p \notin drop \cup gone
      BY <1>1, <1>3, <2>1, <2>3, StrayWas
    <3>2. p \in user[run.to] \cup PairsOf(managed[run.to])
      BY <2>2, <2>3, <3>1 DEF Register, Settled, Settling, Early
    <3> QED
      BY <1>1, <3>1, <3>2, RestFacts DEF Gone
  <2>4. ASSUME NEW p \in PairsOf(run.held), p[1] \notin NamesOf(Working), p \notin user[run.to]
        PROVE  conf'[p[2]][p[1]] = None
    <3>1. p \in Pairs /\ p \in PairsOf(managed[run.to])
      BY <2>2, <1>1, PairsTyped DEF IInv, TypeOK
    <3>2. p \notin run.sent
      BY <2>2, <2>4, <1>1, <3>1, RestFacts DEF Delivered
    <3>3. p[1] \notin NamesOf(Rest)
      BY <1>1, <2>4, RestFacts
    <3>4. p \in gone
      BY <1>1, <3>1, <3>2, <3>3, RestFacts DEF Gone
    <3>5. p \notin in
      BY <3>3 DEF In
    <3> QED
      BY <2>1, <3>1, <3>4, <3>5, WrittenAt
  <2> HIDE DEF old, drop, gone, in
  <2> QED
    BY <1>1, <1>3, <1>5, <2>3, <2>4 DEF Cleaned
<1>8. Settling'
  BY <1>1, <1>2, <1>3, <1>4, <1>6, <1>7 DEF Register, Settled, Settling, Early, Late
<1> QED
  BY <1>2, <1>8 DEF Settled, SwitchSettles, DroppedIsGone, Sound

LEMMA SaveSettles ==
  ASSUME IInv, Settled, Save
  PROVE  Settled'
<1>1. /\ run.to \in Workspaces /\ run' = run /\ pc' = "restore"
      /\ UNCHANGED <<current, pending, user, own, conf, file, policy>>
      /\ managed'[run.to] = Rest
  BY DEF Save, IInv, TypeOK, agents, Goes
<1>2. Working' = Working /\ Rest' = Rest /\ Whole' = Whole
  BY <1>1 DEF Rest, Working, At, Without, Whole
<1>3. Delivered' = Delivered /\ \A p : Stray(p)' = Stray(p)
  BY <1>1, <1>2 DEF Delivered, Stray
<1>4. Cleaned' = Cleaned
  BY <1>1, <1>2, <1>3 DEF Cleaned
<1>5. Settling'
  BY <1>1, <1>2, <1>3, <1>4 DEF Save, Settled, Settling, Early, Late
<1> QED
  BY <1>1, <1>5 DEF Settled, SwitchSettles, DroppedIsGone, Sound

\* A name that is still the administrator's is not the user's to have settled.
LEMMA ProvidedNames ==
  ASSUME IInv, current = run.to, run.to \in Workspaces, managed[run.to] = Rest, Delivered,
         NEW p \in Pairs, p \in run.sent \/ p[1] \in NamesOf(Rest)
  PROVE  ~Own(p)
<1>1. CASE p \in run.sent
  BY <1>1 DEF Delivered, Own, ManagedNames, Pairs
<1>2. CASE p[1] \in NamesOf(Rest)
  <2>1. PICK e \in Rest : p[1] = e[1]
    BY <1>2 DEF NamesOf
  <2>2. e[2] \in Clients
    BY <2>1, WorkingTyped DEF IInv, Servers
  <2>3. current # None
    OBVIOUS
  <2> QED
    BY <2>1, <2>2, <2>3 DEF Own, ManagedNames
<1> QED
  BY <1>1, <1>2

\* What is cleaned and restored is what a configure promises when it is over.
Finished ==
  /\ Whole /\ Cleaned /\ Delivered /\ (run.due => Restored)
  /\ current = run.to /\ run.to \in Workspaces /\ managed[run.to] = Rest

LEMMA FinishedIsSettled == IInv /\ Finished => SwitchSettles /\ DroppedIsGone
<1> SUFFICES ASSUME IInv, Finished PROVE SwitchSettles /\ DroppedIsGone
  OBVIOUS
<1> USE DEF Finished
<1>1. SwitchSettles
  <2>1. SUFFICES ASSUME run.due, NEW p \in Pairs, Own(p)
                 PROVE  /\ ~Stray(p)
                        /\ p \in user[run.to] => conf[p[2]][p[1]] = run.to
    BY DEF SwitchSettles, Sound, Stray
  <2>2. p \in user[run.to] => conf[p[2]][p[1]] = run.to
    BY <2>1 DEF Restored
  <2>3. p \notin run.sent /\ p[1] \notin NamesOf(Rest)
    BY <2>1, ProvidedNames
  <2>4. ~Stray(p)
    BY <2>1, <2>2, <2>3 DEF Cleaned, Stray
  <2> QED
    BY <2>2, <2>4
<1>2. DroppedIsGone
  BY DEF Cleaned, DroppedIsGone
<1> QED
  BY <1>1, <1>2

LEMMA RestoreSettles ==
  ASSUME IInv, IInv', Settled, Restore
  PROVE  Settled'
<1>1. /\ run.to \in Workspaces /\ run' = run
      /\ UNCHANGED <<current, user, managed, own, file, policy>>
      /\ current = run.to
  BY DEF Restore, IInv, TypeOK, Goes, Settled, Settling, Late
<1> DEFINE due == ~run.wide /\ (run.from # run.to \/ pending)
           in == IF due THEN Restorable ELSE {}
<1>2. PICK F :
        /\ conf' = Written({}, Except(in, F), run.to)
        /\ pc' = IF F # {} THEN "idle"
                 ELSE IF run.kind = "all" /\ Unmanaged THEN "record" ELSE "done"
  BY Zenon DEF Restore, Goes
<1>3. Working' = Working /\ Rest' = Rest /\ Whole' = Whole /\ Delivered' = Delivered
  BY <1>1 DEF Rest, Working, At, Without, Whole, Delivered
<1>4. CASE F # {}
  BY <1>2, <1>4, Elsewhere DEF Early, Late
<1>5. CASE F = {} /\ ~Whole
  BY <1>1, <1>2, <1>3, <1>5
     DEF Settled, Settling, SwitchSettles, DroppedIsGone, Sound, Whole, Early, Late
<1>6. CASE F = {} /\ Whole
  <2>1. conf' = Written({}, in, run.to)
    BY <1>2, <1>6, NoneFails
  <2>2. Cleaned /\ Delivered /\ managed[run.to] = Rest
        /\ (run.due => run.from # run.to \/ pending)
    BY <1>6 DEF Restore, Settled, Settling, Late
  <2>3. Cleaned'
    <3>1. ASSUME run.due, NEW p \in Pairs, Stray(p)'
          PROVE  p \in user[run.to] \cup run.sent \/ p[1] \in NamesOf(Rest)
      BY <1>1, <2>1, <2>2, <3>1, StrayWas DEF Cleaned
    <3>2. ASSUME NEW p \in PairsOf(run.held), p[1] \notin NamesOf(Working), p \notin user[run.to]
          PROVE  conf'[p[2]][p[1]] = None
      <4>1. p \in Pairs
        BY PairsTyped DEF IInv, TypeOK, Run
      <4>2. p \notin in
        BY <3>2 DEF Restorable
      <4> QED
        BY <2>1, <2>2, <3>2, <4>1, <4>2, WrittenAt DEF Cleaned
    <3> QED
      BY <1>1, <1>3, <3>1, <3>2 DEF Cleaned
  <2>4. run.due => Restored'
    <3>1. SUFFICES ASSUME run.due, NEW p \in user[run.to], Own(p)
                   PROVE  conf'[p[2]][p[1]] = run.to
      BY <1>1 DEF Restored, Own, ManagedNames
    <3>2. due /\ p \in Pairs
      BY <1>1, <1>6, <2>2, <3>1 DEF Whole, IInv, TypeOK
    <3>3. p \in in
      BY <3>1, <3>2 DEF Restorable, Own
    <3> HIDE DEF in
    <3> QED
      BY <2>1, <3>2, <3>3, WrittenAt
  <2>5. CASE pc' = "record"
    <3>1. Unmanaged'
      BY <1>1, <1>2, <1>6, <2>5 DEF Unmanaged
    <3>2. Settling'
      BY <1>1, <1>3, <2>2, <2>3, <2>4, <2>5, <3>1 DEF Settling, Early, Late
    <3> QED
      BY <2>5, <3>2 DEF Settled, SwitchSettles, DroppedIsGone, Sound
  <2>6. CASE pc' = "done"
    <3>1. Finished'
      BY <1>1, <1>3, <1>6, <2>2, <2>3, <2>4 DEF Finished
    <3>2. SwitchSettles' /\ DroppedIsGone'
      BY <3>1, FinishedIsSettled, PTL
    <3>3. Settling'
      BY <2>6 DEF Settling, Early, Late
    <3> QED
      BY <3>2, <3>3 DEF Settled
  <2> QED
    BY <1>2, <1>6, <2>5, <2>6
<1> QED
  BY <1>4, <1>5, <1>6

\* Only a workspace without a policy is recorded so, and nothing of it is registered then: what
\* the command has held since it began can make no name the user's again.
LEMMA RecordSettles ==
  ASSUME IInv, Settled, Record
  PROVE  Settled'
<1>1. /\ run.to \in Workspaces /\ run' = run /\ pc' = "done" /\ current = run.to
      /\ UNCHANGED <<current, pending, user, conf, file, policy>>
  BY DEF Record, IInv, TypeOK, agents, Goes, Settled, Settling, Late
<1>2. CASE ~Whole
  BY <1>1, <1>2 DEF Settled, Settling, SwitchSettles, DroppedIsGone, Sound, Whole, Early, Late
<1>3. CASE Whole
  <2>1. /\ Unmanaged /\ (run.due => Restored) /\ managed[run.to] = Rest /\ Cleaned /\ Delivered
    BY <1>3 DEF Record, Settled, Settling, Late
  <2>2. Working = {} /\ Rest = {}
    BY <2>1 DEF Unmanaged, Working, At, Rest, Without
  <2>3. \A p \in Pairs : Own(p)' => Own(p)
    BY <1>1, <2>1, <2>2 DEF Own, ManagedNames
  <2>4. SwitchSettles /\ DroppedIsGone
    BY <1>1, <1>3, <2>1, FinishedIsSettled DEF Finished
  <2>5. DroppedIsGone'
    BY <1>1, <1>3, <2>1 DEF DroppedIsGone, Cleaned, Working, At
  <2>6. SwitchSettles'
    <3>1. SUFFICES ASSUME run.due, NEW p \in Pairs, Own(p)'
                   PROVE  /\ ~Stray(p)
                          /\ p \in user[run.to] => conf[p[2]][p[1]] = run.to
      BY <1>1 DEF SwitchSettles, Sound, Stray
    <3>2. Own(p)
      BY <2>3, <3>1
    <3>3. p \notin run.sent /\ p[1] \notin NamesOf(Rest)
      BY <1>1, <2>1, <3>2, ProvidedNames
    <3> QED
      BY <2>1, <3>1, <3>2, <3>3 DEF Cleaned, Restored, Stray
  <2> QED
    BY <1>1, <2>5, <2>6 DEF Settled, Settling, Early, Late
<1> QED
  BY <1>2, <1>3

LEMMA CommandSettles ==
  ASSUME IInv, Settled, Commands
  PROVE  Settled'
<1>1. pc' \in {"shared", "entry", "revert", "idle"}
  <2>1. ASSUME NEW w, NEW k, NEW wide, Configure(w, k, wide) PROVE pc' = "shared"
    BY <2>1 DEF Configure, Start
  <2>2. ASSUME NEW op, NEW n, NEW S, Change(op, n, S) PROVE pc' = "entry"
    BY <2>2 DEF Change, Start
  <2>3. ASSUME Revert PROVE pc' = "revert"
    BY <2>3 DEF Revert, Start
  <2>4. ASSUME NEW w, NEW p, Publish(w, p) PROVE pc' = "idle"
    BY <2>4 DEF Publish
  <2> QED
    BY <2>1, <2>2, <2>3, <2>4 DEF Commands
<1> QED
  BY <1>1, Elsewhere DEF Early, Late

LEMMA UsersStepSettles ==
  ASSUME IInv, Settled, Add \/ Remove \/ Book \/ RevertEntries \/ Clear \/ Stop
  PROVE  Settled'
<1>1. CASE Add \/ Remove
  BY <1>1, Elsewhere, OtherCommand DEF Add, Remove, Goes, IInv, Holding, Early, Late
<1>2. CASE Book
  BY <1>2, OtherCommand DEF Book, Goes, IInv, Holding
<1>3. CASE RevertEntries
  BY <1>3, Elsewhere DEF RevertEntries, Goes, Early, Late
<1>4. CASE Clear
  BY <1>4, OtherCommand DEF Clear, Goes, IInv, Holding
<1>5. CASE Stop
  BY <1>5, Elsewhere DEF Stop, Early, Late
<1> QED
  BY <1>1, <1>2, <1>3, <1>4, <1>5

LEMMA StutterSettles ==
  ASSUME Settled, UNCHANGED vars
  PROVE  Settled'
<1>1. UNCHANGED <<current, pending, user, managed, own, conf, file, policy, pc, run>>
  BY DEF vars, state, agents
<1>2. /\ Working' = Working /\ Rest' = Rest /\ Whole' = Whole /\ Unmanaged' = Unmanaged
      /\ \A p : Stray(p)' = Stray(p) /\ Own(p)' = Own(p)
  BY <1>1 DEF Working, At, Rest, Without, Whole, Unmanaged, Stray, Own, ManagedNames
<1>3. Settling'
  BY <1>1, <1>2 DEF Settled, Settling, Cleaned, Delivered, Restored
<1>4. SwitchSettles' /\ DroppedIsGone'
  BY <1>1, <1>2 DEF Settled, SwitchSettles, DroppedIsGone, Sound
<1> QED
  BY <1>3, <1>4 DEF Settled

\* At every step of every command, what has been settled so far stays so to its end.
THEOREM SettledHolds == Spec => []Settled
<1>1. Init => Settled
  BY Elsewhere DEF Init, Settled, Settling, SwitchSettles, DroppedIsGone, Sound, Early, Late
<1>2. IInv /\ IInv' /\ Settled /\ [Next]_vars => Settled'
  BY CommandSettles, UsersStepSettles, StutterSettles, SharedSettles, PurgeSettles,
     AgentsSettles, ResolveSettles, FilesSettles, RegisterSettles, SaveSettles,
     RestoreSettles, RecordSettles DEF Next, Steps
<1> QED
  BY <1>1, <1>2, Invariance, PTL DEF Spec

\* A configure that moves to another workspace leaves no agent with an entry of another one's
\* block, and registers what the user chose there (cli.py, mcp.py): for any number of earlier
\* commands that failed or were killed.
THEOREM SwitchIsSettled == Spec => []SwitchSettles
<1>1. Settled => SwitchSettles
  BY DEF Settled
<1> QED
  BY <1>1, SettledHolds, PTL

\* After a configure without errors no agent has an entry under a name that was an
\* administrator's and is no longer published (apply_mcp_server_changes).
THEOREM DroppedServersGo == Spec => []DroppedIsGone
<1>1. Settled => DroppedIsGone
  BY DEF Settled
<1> QED
  BY <1>1, SettledHolds, PTL
=============================================================================
