---------------------------- MODULE McpRegistry -----------------------------
(***************************************************************************)
(* MCP servers across workspaces (src/src/ucode/mcp.py, cli.py, state.py). *)
(*                                                                         *)
(* state.json keeps a block for each workspace and names the current one.  *)
(* A block has the servers its user chose (mcp_servers) and those that the *)
(* workspace's administrator publishes, as far as they are registered at   *)
(* user scope (managed_mcp_servers).  The agents' own settings have one    *)
(* entry for a name, which leads to one workspace; some agents also have a *)
(* machine-wide file for what the administrator publishes.                 *)
(*                                                                         *)
(* `ug configure` may switch the workspace: it must then take the entries  *)
(* of the old one out of every agent and put those of the new one in, one  *)
(* write after another, any of which may fail or be the last before the    *)
(* command is killed.  `configure --global` leaves what is per user for a  *)
(* later run; a launch may switch without touching MCP.  One command runs  *)
(* at a time.  The settings of agents and what is published are external.  *)
(***************************************************************************)
EXTENDS Naturals

CONSTANTS
  Workspaces,
  Clients,      \* MCP clients that are installed and configured
  FileClients,  \* those with a machine-wide file: Claude Code
  Names,
  Native,       \* names whose service Claude's file can hold
  None,
  Kinds,        \* the ways to run it, of Kind
  Policies,     \* what an administrator may publish: agents and server names
  Widths,       \* whether `configure --global` is used
  Mishaps,      \* whether writes may fail and commands be killed
  MaxCommands

Kind == {"all",     \* configure, or --agents: every agent
         "agent",   \* --agent with one that takes the policy
         "other",   \* --agent with one that does not
         "launch"}
Pairs == Names \X Clients
Servers == Names \X Clients \X Workspaces    \* by name, on a client, with a workspace's URL
Places == Workspaces \cup {None}
Policy == [agents : SUBSET Clients, names : SUBSET Names]

ASSUME ConstantsAssumption ==
  /\ FileClients \subseteq Clients /\ Native \subseteq Names
  /\ None \notin Workspaces
  /\ Kinds \subseteq Kind /\ Policies \subseteq Policy
  /\ Widths \subseteq BOOLEAN /\ Mishaps \in BOOLEAN
  /\ MaxCommands \in Nat

VARIABLES
  current,    \* current_workspace
  pending,    \* user_mcp_reconcile_pending
  user,       \* mcp_servers of each block; the URL is the block's workspace
  managed,    \* managed_mcp_servers of each block
  own,        \* blocks that list the agent in self_managed_agents
  conf,       \* an agent's user settings: the workspace a name's entry leads to
  file,       \* the machine-wide file of an agent, likewise
  policy,     \* what each workspace publishes
  pc,         \* where the command is
  run,        \* and what it holds
  commands    \* history: how many commands and publications there were

state == <<current, pending, user, managed, own>>
agents == <<conf, file>>
vars == <<state, agents, policy, pc, run, commands>>

Idle == [op |-> "none", kind |-> "all", to |-> None, from |-> None, wide |-> FALSE,
         held |-> {}, sent |-> {}, on |-> {}, name |-> None, sound |-> TRUE, due |-> FALSE]
Ops == {"none", "configure", "add", "select", "remove", "revert"}
Run == [op : Ops, kind : Kind, to : Places, from : Places, wide : BOOLEAN,
        held : SUBSET Servers, sent : SUBSET Pairs, on : SUBSET Clients,
        name : Names \cup {None}, sound : BOOLEAN, due : BOOLEAN]
Labels == {"idle", "shared", "purge", "agents", "resolve", "files", "register", "save",
           "restore", "record", "entry", "book", "revert", "clear", "done"}

Init ==
  /\ current = None /\ pending = FALSE
  /\ user = [w \in Workspaces |-> {}]
  /\ managed = [w \in Workspaces |-> {}]
  /\ own = {}
  /\ conf = [c \in Clients |-> [n \in Names |-> None]]
  /\ file = [c \in FileClients |-> [n \in Names |-> None]]
  /\ policy \in [Workspaces -> Policies]
  /\ pc = "idle" /\ run = Idle /\ commands = 0

-----------------------------------------------------------------------------
(* What a command may start from, and how one ends. *)

Free == pc \in {"idle", "done"} /\ commands < MaxCommands

Start(label, r) ==
  /\ pc' = label /\ run' = r /\ commands' = commands + 1

Goes(label) == pc' = label /\ UNCHANGED <<commands, policy>>

\* The clients, of those to be written, whose settings cannot be this time.
Failing(P) == IF Mishaps THEN SUBSET {p[2] : p \in P} ELSE {{}}
Except(P, F) == {p \in P : p[2] \notin F}

\* Killed, or a step raised an error that ends the command.
Stop ==
  /\ Mishaps /\ pc \notin {"idle", "done"}
  /\ pc' = "idle" /\ run' = Idle
  /\ UNCHANGED <<state, agents, policy, commands>>

\* The administrator publishes something else.
Publish(w, p) ==
  /\ Free /\ policy[w] # p
  /\ policy' = [policy EXCEPT ![w] = p]
  /\ pc' = "idle" /\ run' = Idle /\ commands' = commands + 1
  /\ UNCHANGED <<state, agents>>

-----------------------------------------------------------------------------
(* Registered servers and the agents' settings. *)

On(S, n) == {e \in S : e[1] = n}
NamesOf(S) == {e[1] : e \in S}
At(w, P) == {<<p[1], p[2], w>> : p \in P}
PairsOf(S) == {<<e[1], e[2]>> : e \in S}

\* Names that the managed configuration provides to some of the clients.
ManagedNames(S) ==
  (IF current = None THEN {} ELSE {e[1] : e \in {m \in managed[current] : m[2] \in S}})
    \cup {n \in Names : \E c \in S \cap FileClients : file[c][n] # None}

\* The settings without the pairs gone, and with the pairs in, which lead to w.
Written(gone, in, w) ==
  [c \in Clients |-> [n \in Names |->
     IF <<n, c>> \in in THEN w ELSE IF <<n, c>> \in gone THEN None ELSE conf[c][n]]]

\* Mistaken form: only a client that still takes managed servers is cleaned.
GoneInScope(old, new) ==
  {p \in PairsOf(old) : p[1] \notin NamesOf(new) /\ p[2] \in policy[run.to].agents}

\* A server that is new or has changed is written to every one of the clients.
Gone(old, new) == {p \in PairsOf(old) : p[1] \notin NamesOf(new)}
In(old, new, S) == {n \in NamesOf(new) : On(old, n) # On(new, n)} \X S

\* Entries of other workspaces' blocks that the block of w has not.
Residue(w) ==
  {p \in Pairs : /\ \E v \in Workspaces \ {w} : p \in user[v]
                 /\ p \notin user[w] \cup PairsOf(managed[w])}

-----------------------------------------------------------------------------
(* ug configure, and what of it a launch does. *)

Configure(w, k, wide) ==
  /\ Free /\ (wide => k \in {"all", "agent"})
  /\ k = "launch" => current # None
  /\ Start("shared", [Idle EXCEPT !.op = "configure", !.kind = k, !.to = w, !.wide = wide,
                                  !.from = IF k = "launch" THEN w ELSE current])
  /\ current' = IF k = "launch" THEN w ELSE current
  /\ UNCHANGED <<pending, user, managed, own, agents, policy>>

Switched == run.from \notin {run.to, None}

\* Mistaken form: the choice of the workspace that was current is kept.
SelectionCarried(from, to) == IF from = None THEN {} ELSE user[from]

\* The destination's own choice of servers.
Selection(from, to) == user[to]

Shared ==
  /\ pc = "shared"
  /\ LET held == IF current = None THEN {} ELSE managed[current] IN
       /\ managed' = [managed EXCEPT ![run.to] = held]
       /\ run' = [run EXCEPT !.held = held]
  /\ user' = [user EXCEPT ![run.to] = Selection(run.from, run.to)]
  /\ current' = run.to
  /\ Goes("purge")
  /\ UNCHANGED <<pending, own, agents>>

Purge ==
  /\ pc = "purge"
  /\ LET due == ~run.wide /\ (Switched \/ pending)
         gone == IF due THEN Residue(run.to) ELSE {} IN
       \E F \in Failing(gone) :
         /\ conf' = Written(Except(gone, F), {}, None)
         /\ run' = [run EXCEPT !.due = due, !.sound = F = {}]
  /\ pending' = (pending \/ (run.wide /\ Switched))
  /\ Goes(IF run.kind = "launch" THEN "done" ELSE "agents")
  /\ UNCHANGED <<current, user, managed, own, file>>

Unmanaged == policy[run.to].agents = {}

\* The agents' settings are written; --agent records an agent that nobody else manages.
Agents ==
  /\ pc = "agents"
  /\ own' = IF run.kind # "all" /\ Unmanaged THEN own \cup {run.to} ELSE own
  /\ run' = run
  /\ Goes(IF run.kind = "other" THEN "restore" ELSE "resolve")
  /\ UNCHANGED <<current, pending, user, managed, agents>>

Working == At(run.to, policy[run.to].names \X policy[run.to].agents)

\* setup_mcp_clients purges again; the services' listing may be refused.
Resolve ==
  /\ pc = "resolve"
  /\ LET gone == IF Unmanaged \/ run.wide THEN {} ELSE Residue(run.to) IN
       \E F \in Failing(gone), refused \in IF Mishaps /\ ~Unmanaged THEN BOOLEAN ELSE {FALSE} :
         /\ conf' = Written(Except(gone, F), {}, None)
         /\ run' = [run EXCEPT !.sound = @ /\ F = {} /\ ~refused]
         /\ Goes(IF refused THEN "restore" ELSE "files")
  /\ UNCHANGED <<state, file>>

Fitting(c) == {n \in NamesOf(Working) : c \in policy[run.to].agents /\ n \in Native}

Files ==
  /\ pc = "files"
  /\ \E eligible \in SUBSET FileClients, writable \in SUBSET FileClients :
       LET fit == [c \in FileClients |-> IF c \in eligible THEN Fitting(c) ELSE {}] IN
         /\ file' = [c \in FileClients |->
                       IF c \notin writable THEN file[c]
                       ELSE [n \in Names |-> IF n \in fit[c] THEN run.to ELSE None]]
         /\ run' = [run EXCEPT !.sent =
                      UNION {fit[c] \X {c} : c \in eligible \cap writable}]
  /\ Goes(IF run.wide THEN "restore" ELSE "register")
  /\ UNCHANGED <<state, conf>>

Without(S, P) == {e \in S : <<e[1], e[2]>> \notin P}
Rest == Without(Working, run.sent)

\* The agents that a file does not serve, or not for every server.
FallbackClients ==
  policy[run.to].agents \ {c \in FileClients : \A e \in Rest : e[2] # c}

Dropped(old) == (PairsOf(old) \cap run.sent) \ user[run.to]

Register ==
  /\ pc = "register"
  /\ LET old == Without(managed[run.to], run.sent)
         drop == Dropped(managed[run.to])
         gone == Gone(old, Rest)
         in == In(old, Rest, FallbackClients) IN
       \E F \in Failing(gone \cup in), G \in Failing(drop) :
         /\ conf' = Written(Except(drop, G) \cup Except(gone, F), Except(in, F), run.to)
         /\ run' = [run EXCEPT !.sound = @ /\ F \cup G = {}]
         /\ Goes(IF F = {} THEN "save" ELSE "restore")
  /\ UNCHANGED <<state, file>>

Save ==
  /\ pc = "save"
  /\ managed' = [managed EXCEPT ![run.to] = Rest]
  /\ run' = run
  /\ Goes("restore")
  /\ UNCHANGED <<current, pending, user, own, agents>>

\* Mistaken form: what is managed is read from the state held since Shared.
RestorableHeld == {p \in user[run.to] : p[1] \notin NamesOf(run.held)}

Restorable == {p \in user[run.to] : p[1] \notin ManagedNames(Clients)}

\* The user's choice is registered again, and then the reconciliation is no longer due; an
\* agent that cannot be written ends the command, when others may have been.
Restore ==
  /\ pc = "restore"
  /\ LET due == ~run.wide /\ (run.from # run.to \/ pending)
         in == IF due THEN Restorable ELSE {} IN
       \E F \in Failing(in) :
         /\ conf' = Written({}, Except(in, F), run.to)
         /\ pending' = (pending /\ ~(due /\ F = {}))
         /\ Goes(IF F # {} THEN "idle"
                 ELSE IF run.kind = "all" /\ Unmanaged THEN "record" ELSE "done")
  /\ run' = run
  /\ UNCHANGED <<current, user, managed, own, file>>

\* The agents configured are recorded as the user's, with the state held since Shared.
Record ==
  /\ pc = "record"
  /\ managed' = IF run.to \in own THEN managed ELSE [managed EXCEPT ![run.to] = run.held]
  /\ own' = own \cup {run.to}
  /\ run' = run
  /\ Goes("done")
  /\ UNCHANGED <<current, pending, user, agents>>

-----------------------------------------------------------------------------
(* ug mcp add and remove: settings first, then the block. *)

\* Mistaken form: without the question whether a workspace is configured.
ChangeUnconfigured(op, n, S) ==
  /\ Free /\ S # {}
  /\ Start("entry", [Idle EXCEPT !.op = op, !.name = n, !.on = S, !.to = current,
                                 !.from = current])
  /\ UNCHANGED <<state, agents, policy>>

Change(op, n, S) ==
  /\ Free /\ current # None /\ S # {}
  /\ Start("entry", [Idle EXCEPT !.op = op, !.name = n, !.on = S, !.to = current,
                                 !.from = current])
  /\ UNCHANGED <<state, agents, policy>>

\* What the block will say of the name: a service adds clients to it, a typed selector
\* (`external:conn`) names them all.
Chosen ==
  LET had == {p \in user[run.to] : p[1] = run.name}
      said == {run.name} \X run.on IN
    CASE run.op = "add" -> had \cup said
      [] run.op = "select" -> said
      [] run.op = "remove" -> had \ said

Others == {p \in user[run.to] : p[1] # run.name}

Provided == run.name \in ManagedNames(run.on)

Add ==
  /\ pc = "entry" /\ run.op # "remove" /\ run' = run
  /\ IF Provided \/ Others \cup Chosen = user[run.to]
       THEN Goes("done") /\ conf' = conf
       ELSE \E F \in Failing({run.name} \X run.on) :
              /\ conf' = Written({}, Except({run.name} \X run.on, F), run.to)
              /\ Goes(IF F = {} THEN "book" ELSE "idle")
  /\ UNCHANGED <<state, file>>

\* Removal first purges what other workspaces left.
Remove ==
  /\ pc = "entry" /\ run.op = "remove" /\ run' = run
  /\ LET gone == user[run.to] \ (Others \cup Chosen) IN
       \E F \in Failing(gone), G \in Failing(Residue(run.to)) :
         /\ conf' = Written(Except(gone, F) \cup Except(Residue(run.to), G), {}, None)
         /\ Goes(IF F = {} THEN "book" ELSE "idle")
  /\ UNCHANGED <<state, file>>

Book ==
  /\ pc = "book"
  /\ user' = [user EXCEPT ![run.to] = Others \cup Chosen]
  /\ run' = run
  /\ Goes("done")
  /\ UNCHANGED <<current, pending, managed, own, agents>>

-----------------------------------------------------------------------------
(* ug revert: the settings, then the block. *)

Revert ==
  /\ Free /\ current # None
  /\ Start("revert", [Idle EXCEPT !.op = "revert", !.to = current, !.from = current])
  /\ UNCHANGED <<state, agents, policy>>

RevertEntries ==
  /\ pc = "revert"
  /\ LET gone == user[run.to] \cup PairsOf(managed[run.to]) IN
       \E F \in Failing(gone) :
         /\ conf' = Written(Except(gone, F), {}, None)
         /\ run' = [run EXCEPT !.sound = F = {}]
  /\ \E kept \in IF Mishaps THEN SUBSET FileClients ELSE {{}} :
       file' = [c \in FileClients |-> IF c \in kept THEN file[c] ELSE [n \in Names |-> None]]
  /\ Goes("clear")
  /\ UNCHANGED state

Clear ==
  /\ pc = "clear"
  /\ current' = None
  /\ user' = [user EXCEPT ![run.to] = {}]
  /\ managed' = [managed EXCEPT ![run.to] = {}]
  /\ own' = own \ {run.to}
  /\ run' = run
  /\ Goes("done")
  /\ UNCHANGED <<pending, agents>>

-----------------------------------------------------------------------------
Commands ==
  \/ \E w \in Workspaces, k \in Kinds, wide \in Widths : Configure(w, k, wide)
  \/ \E op \in {"add", "select", "remove"}, n \in Names, S \in SUBSET Clients :
       Change(op, n, S)
  \/ Revert
  \/ \E w \in Workspaces, p \in Policies : Publish(w, p)

Steps ==
  \/ Shared \/ Purge \/ Agents \/ Resolve \/ Files \/ Register \/ Save
  \/ Restore \/ Record
  \/ Add \/ Remove \/ Book
  \/ RevertEntries \/ Clear
  \/ Stop

Next == Commands \/ Steps

Spec == Init /\ [][Next]_vars

-----------------------------------------------------------------------------
(* Properties. *)

\* Every variable keeps to its domain, and only pairs of one workspace are in a block.
TypeOK ==
  /\ current \in Places /\ pending \in BOOLEAN
  /\ user \in [Workspaces -> SUBSET Pairs]
  /\ managed \in [Workspaces -> SUBSET Servers]
  /\ own \subseteq Workspaces
  /\ conf \in [Clients -> [Names -> Places]]
  /\ file \in [FileClients -> [Names -> Places]]
  /\ policy \in [Workspaces -> Policies]
  /\ pc \in Labels /\ run \in Run /\ (pc # "idle" => run.to \in Workspaces)
  /\ commands \in 0 .. MaxCommands

Sound ==
  /\ pc = "done" /\ run.op = "configure" /\ run.kind \in {"all", "agent"}
  /\ ~run.wide /\ run.sound

Own(p) == p[1] \notin ManagedNames(Clients)

\* A configure that moves to another workspace, or finds that one is left to do, and meets no
\* error, leaves no agent with an entry that another workspace's block lists, and registers
\* all that the user chose in this one: whatever earlier commands failed or were killed.
SwitchSettles ==
  Sound /\ run.due => \A p \in Pairs :
    LET to == conf[p[2]][p[1]] IN
      Own(p) => /\ to \in Workspaces \ {run.to} => p \notin user[to]
                /\ p \in user[run.to] => to = run.to

\* After a configure without errors no agent has an entry under a name that was registered for
\* an administrator before and is neither published now nor the user's, whichever agents the
\* old policy and the new one are for.
DroppedIsGone ==
  Sound => \A p \in PairsOf(run.held) :
    (p[1] \notin NamesOf(Working) /\ p \notin user[run.to]) => conf[p[2]][p[1]] = None

\* What a user chose in a workspace changes only by `ug mcp` in it and by its revert, however
\* often other commands save the block, and whichever block they began with.
ChoicesKept ==
  [][\A w \in Workspaces : user'[w] # user[w] =>
       run.op \in {"add", "select", "remove", "revert"} /\ current = w]_vars
=============================================================================
