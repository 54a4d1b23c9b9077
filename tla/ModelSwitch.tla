---------------------------- MODULE ModelSwitch ----------------------------
(***************************************************************************)
(* First-prompt routing of Claude Code                                     *)
(* (src/src/ucode/smart_routing/claude_pty.py and v2.py).                  *)
(*                                                                         *)
(* A wrapper runs Claude in a pseudo-terminal.  A hook asks the wrapper's  *)
(* socket about every prompt; the first is blocked, and while the terminal *)
(* is quiet the wrapper types "/model <routed>", gives the user's default  *)
(* model back, which that command has replaced in the settings file all    *)
(* wrappers share, and replays the prompt.                                 *)
(*                                                                         *)
(* The socket server is a thread of its own, the rest one select loop; a   *)
(* pass of that loop is a step, and a deadline may pass in any pass.       *)
(* Claude and the user are external: Claude may run the command, ask for a *)
(* confirmation first, show and store its result in either order, late or  *)
(* never, absorb an Enter, or end; the user may submit prompts of their    *)
(* own, press Enter on the blocked one, and choose a model.                *)
(***************************************************************************)
EXTENDS Naturals, FiniteSets

CONSTANTS
  Wrappers,     \* launches of Claude with first-prompt routing
  Nobody,       \* no wrapper
  UserModels,   \* the models a user chooses
  RoutedModels, \* those the router chooses; the user's default may be one of them
  Unset,        \* _before is None
  Users,        \* who sits at each wrapper: how many prompts they type at most (none:
                \* it is not started), and whether they, their hook's timeouts and
                \* lost Enters interfere
  MaxChoices    \* how often a user changes the default model

ASSUME WrappersAssumption ==
  /\ Nobody \notin Wrappers
  /\ Unset \notin UserModels \cup RoutedModels
  /\ Users \subseteq [Wrappers -> [prompts : Nat, interferes : BOOLEAN]]
  /\ MaxChoices \in Nat

Models == UserModels \cup RoutedModels
MAX_SUBMIT_ATTEMPTS == 3    \* Enters for one replay

\* "acquiring" is waiting_to_switch, blocked on the lock in begin().
Phases == {"waiting_prompt", "waiting_to_switch", "acquiring", "switching",
           "waiting_persist", "esc_gap", "pasting", "verifying", "done"}
\* After the loop, because Claude is gone or a write failed.
Ends == {"leaving", "unwinding", "over", "killed"}
Commands == {"none", "typed", "dialog", "running", "stored", "cancelled"}

VARIABLES
  user,        \* one of Users, from the start
  settings,    \* the model in the user's settings.json
  guard,       \* the wrapper that holds claude-v2-model.lock
  phase,       \* where the select loop is
  before,      \* _before of _ClaudeModelSettingGuard
  server,      \* the socket's thread: "up", "routing", "down"
  caller,      \* the hook whose prompt is being routed: "none", "there", "leaving", "gone"
  held,        \* the prompt being routed, or 0
  asked,       \* the prompt whose hook waits to be served, or 0
  claimed,     \* a prompt has been blocked
  captured,    \* that prompt, once the loop may see it, or 0
  routed,      \* its model
  submitted,   \* submitted_event
  attempts,    \* submit_attempts
  box,         \* the prompt in Claude's input box, or 0
  typed,       \* how many prompts the user has typed
  command,     \* what became of "/model" in Claude
  shown,       \* Claude has shown that the model is set
  claude,      \* Claude runs
  own,         \* history: the default model the user chose
  choices,     \* history: how often they have
  stray,       \* history: something has come between a wrapper and its restore
  runs,        \* history: how often Claude took each prompt
  meddled,     \* history: sessions whose user submitted something after the claim
  crossed,     \* history: sessions whose hook gave up as the answer came
  confirmed    \* history: the wrapper took its replay for submitted

file == <<settings, guard, before>>
hook == <<server, caller, held, asked, claimed>>
loop == <<phase, captured, routed, submitted, attempts>>
agent == <<box, typed, command, shown, claude>>
history == <<own, choices, stray, runs, meddled, crossed, confirmed>>
switchVars == <<user, file, hook, loop, agent, history>>

PromptIds(w) == 0 .. user[w].prompts

SwitchInit ==
  /\ user \in Users
  /\ settings \in Models /\ own = settings
  /\ guard = Nobody
  /\ phase = [w \in Wrappers |-> IF user[w].prompts = 0 THEN "over" ELSE "waiting_prompt"]
  /\ before = [w \in Wrappers |-> Unset]
  /\ server = [w \in Wrappers |-> "up"]
  /\ caller = [w \in Wrappers |-> "none"]
  /\ held = [w \in Wrappers |-> 0]
  /\ asked = [w \in Wrappers |-> 0]
  /\ claimed = [w \in Wrappers |-> FALSE]
  /\ captured = [w \in Wrappers |-> 0]
  /\ routed = [w \in Wrappers |-> Unset]
  /\ submitted = [w \in Wrappers |-> FALSE]
  /\ attempts = [w \in Wrappers |-> 0]
  /\ box = [w \in Wrappers |-> 0]
  /\ typed = [w \in Wrappers |-> 0]
  /\ command = [w \in Wrappers |-> "none"]
  /\ shown = [w \in Wrappers |-> FALSE]
  /\ claude = [w \in Wrappers |-> user[w].prompts # 0]
  /\ choices = 0 /\ stray = FALSE
  /\ runs = [w \in Wrappers |-> [i \in PromptIds(w) |-> 0]]
  /\ meddled = {} /\ crossed = {} /\ confirmed = {}

Running(w) == phase[w] \in Phases
Goes(w, label) == phase' = [phase EXCEPT ![w] = label]
Takes(w, i) == runs' = [runs EXCEPT ![w][i] = @ + 1]

-----------------------------------------------------------------------------
(* Claude's prompts, their hook, and the socket server. *)

\* Claude waits for one hook at a time.
HookIdle(w) == asked[w] = 0 /\ caller[w] \notin {"there", "leaving"}

\* Enter on prompt i: the hook connects, or finds no server and lets it through.
SubmitPrompt(w, i) ==
  IF server[w] = "down"
  THEN Takes(w, i) /\ UNCHANGED asked
  ELSE asked' = [asked EXCEPT ![w] = i] /\ UNCHANGED runs

\* The user types a prompt of their own, over whatever the box holds.
UserTypes(w) ==
  /\ Running(w) /\ phase[w] # "acquiring" /\ claude[w] /\ HookIdle(w)
  /\ typed[w] < user[w].prompts
  /\ typed' = [typed EXCEPT ![w] = @ + 1]
  /\ SubmitPrompt(w, typed[w] + 1)
  /\ box' = [box EXCEPT ![w] = 0]
  /\ meddled' = IF claimed[w] THEN meddled \cup {w} ELSE meddled
  /\ UNCHANGED <<file, server, caller, held, claimed, loop, command, shown, claude,
                 own, choices, stray, crossed, confirmed>>

\* The user presses Enter on the prompt in the box.
UserEnters(w) ==
  /\ user[w].interferes
  /\ Running(w) /\ phase[w] # "acquiring" /\ claude[w] /\ HookIdle(w)
  /\ box[w] # 0
  /\ SubmitPrompt(w, box[w])
  /\ box' = [box EXCEPT ![w] = 0]
  /\ meddled' = IF claimed[w] THEN meddled \cup {w} ELSE meddled
  /\ UNCHANGED <<file, server, caller, held, claimed, loop, typed, command, shown, claude,
                 own, choices, stray, crossed, confirmed>>

\* The server reads a request: it routes the first prompt, any later one is let
\* through and reported to the loop.
Serve(w) ==
  /\ server[w] = "up" /\ asked[w] # 0
  /\ asked' = [asked EXCEPT ![w] = 0]
  /\ IF claimed[w]
     THEN /\ submitted' = [submitted EXCEPT ![w] = TRUE]
          /\ Takes(w, asked[w])
          /\ UNCHANGED <<server, caller, held>>
     ELSE /\ server' = [server EXCEPT ![w] = "routing"]
          /\ caller' = [caller EXCEPT ![w] = "there"]
          /\ held' = [held EXCEPT ![w] = asked[w]]
          /\ UNCHANGED <<submitted, runs>>
  /\ UNCHANGED <<file, claimed, phase, captured, routed, attempts, agent,
                 own, choices, stray, meddled, crossed, confirmed>>

\* The hook's timeout passes, or the user presses Escape.
GiveUp(w) ==
  /\ user[w].interferes
  /\ caller[w] = "there"
  /\ caller' = [caller EXCEPT ![w] = "leaving"]
  /\ UNCHANGED <<file, server, held, asked, claimed, loop, agent, history>>

\* Claude goes on without the hook: with the prompt, or with it back in the box.
LetThrough(w) ==
  \/ Takes(w, held[w]) /\ UNCHANGED box
  \/ box' = [box EXCEPT ![w] = held[w]] /\ UNCHANGED runs

\* The hook closes its socket.
HangUp(w) ==
  /\ caller[w] = "leaving"
  /\ caller' = [caller EXCEPT ![w] = "gone"]
  /\ LetThrough(w)
  /\ UNCHANGED <<file, server, held, asked, claimed, loop, typed, command, shown, claude,
                 own, choices, stray, meddled, crossed, confirmed>>

\* The answer is written; to a hook that hung up it fails, and the thread ends.
Answered(w) ==
  /\ server' = [server EXCEPT ![w] = IF caller[w] = "gone" THEN "down" ELSE "up"]
  /\ caller' = [caller EXCEPT ![w] = "none"]
  /\ held' = [held EXCEPT ![w] = 0]
  /\ UNCHANGED <<file, asked, phase, submitted, attempts, typed, command, shown, claude,
                 own, choices, stray, meddled, confirmed>>

\* The router fails or names no usable model: the prompt is let through.
RouteFails(w) ==
  /\ server[w] = "routing"
  /\ CASE caller[w] = "there" -> Takes(w, held[w]) /\ UNCHANGED box
       [] caller[w] = "leaving" -> LetThrough(w)
       [] OTHER -> UNCHANGED <<runs, box>>
  /\ Answered(w)
  /\ UNCHANGED <<claimed, captured, routed, crossed>>

\* Mistaken form: the loop hears of the prompt before the hook has its answer.
BlockUnanswered(w) ==
  /\ server[w] = "routing"
  /\ claimed' = [claimed EXCEPT ![w] = TRUE]
  /\ \E m \in RoutedModels : routed' = [routed EXCEPT ![w] = m]
  /\ captured' = [captured EXCEPT ![w] = held[w]]
  /\ crossed' = IF caller[w] = "leaving" THEN crossed \cup {w} ELSE crossed
  /\ CASE caller[w] = "there" -> box' = [box EXCEPT ![w] = held[w]] /\ UNCHANGED runs
       [] caller[w] = "leaving" -> LetThrough(w)
       [] OTHER -> UNCHANGED <<runs, box>>
  /\ Answered(w)

\* The router chooses a model: the prompt is blocked, and stays in the box.
Block(w) ==
  /\ server[w] = "routing"
  /\ claimed' = [claimed EXCEPT ![w] = TRUE]
  /\ \E m \in RoutedModels : routed' = [routed EXCEPT ![w] = m]
  /\ captured' = [captured EXCEPT ![w] = IF caller[w] = "gone" THEN 0 ELSE held[w]]
  /\ crossed' = IF caller[w] = "leaving" THEN crossed \cup {w} ELSE crossed
  /\ CASE caller[w] = "there" -> box' = [box EXCEPT ![w] = held[w]] /\ UNCHANGED runs
       [] caller[w] = "leaving" -> LetThrough(w)
       [] OTHER -> UNCHANGED <<runs, box>>
  /\ Answered(w)

-----------------------------------------------------------------------------
(* The guard of the user's default model. *)

\* Mistaken form: the settings are read before the lock is there.
SnapshotUnlocked(w) ==
  /\ guard' = w
  /\ before' = [before EXCEPT ![w] = settings]

\* Mistaken form: the lock is taken, and the settings are read later.
SnapshotLater(w) ==
  /\ guard = Nobody
  /\ guard' = w
  /\ UNCHANGED before

\* begin() under the lock: what the settings say now is to be restored.
Snapshot(w) ==
  /\ guard = Nobody
  /\ guard' = w
  /\ before' = [before EXCEPT ![w] = settings]

\* Mistaken form: the lock is left to the end of the process.
RestoreModelOnly(w) ==
  IF before[w] = Unset
  THEN UNCHANGED file
  ELSE settings' = before[w] /\ UNCHANGED <<before, guard>>

\* restore(): the model goes back before the lock does; nothing without a snapshot.
Restore(w) ==
  IF before[w] = Unset
  THEN UNCHANGED file
  ELSE /\ settings' = before[w]
       /\ before' = [before EXCEPT ![w] = Unset]
       /\ guard' = IF guard = w THEN Nobody ELSE guard

\* restore() cannot write: the lock is released all the same, the snapshot stays.
RestoreFails(w) ==
  /\ before[w] # Unset
  /\ guard' = IF guard = w THEN Nobody ELSE guard
  /\ UNCHANGED <<settings, before>>

-----------------------------------------------------------------------------
(* The select loop. *)

\* A blocked prompt is taken up.
Capture(w) ==
  /\ phase[w] = "waiting_prompt" /\ captured[w] # 0
  /\ Goes(w, "waiting_to_switch")
  /\ UNCHANGED <<file, hook, captured, routed, submitted, attempts, agent, history>>

\* The terminal is quiet: the loop waits for the lock, and nothing else.
Idle(w) ==
  /\ phase[w] = "waiting_to_switch"
  /\ Goes(w, "acquiring")
  /\ UNCHANGED <<file, hook, captured, routed, submitted, attempts, agent, history>>

\* prepare_model_switch, and "/model" is typed into the emptied box.  A wrapper
\* whose write failed no longer holds the lock for the model it left behind.
Begin(w) ==
  /\ phase[w] = "acquiring" /\ claude[w]
  /\ Snapshot(w)
  /\ Goes(w, "switching")
  /\ box' = [box EXCEPT ![w] = 0]
  /\ command' = [command EXCEPT ![w] = "typed"]
  /\ stray' = (stray \/ \E v \in Wrappers : phase[v] = "unwinding")
  /\ UNCHANGED <<settings, hook, captured, routed, submitted, attempts, typed, shown,
                 claude, own, choices, runs, meddled, crossed, confirmed>>

\* The blocked prompt is pasted into the emptied box.
Paste(w) ==
  /\ Goes(w, "pasting")
  /\ box' = [box EXCEPT ![w] = captured[w]]
  /\ UNCHANGED <<hook, captured, routed, submitted, attempts, typed, shown, claude, history>>

\* The output never went quiet.
SkipSwitch(w) ==
  /\ phase[w] = "waiting_to_switch"
  /\ Paste(w)
  /\ UNCHANGED <<file, command>>

SeesMarker(w) ==
  /\ phase[w] = "switching" /\ shown[w]
  /\ Goes(w, "waiting_persist")
  /\ UNCHANGED <<file, hook, captured, routed, submitted, attempts, agent, history>>

\* Escape ends a command that Claude has not begun to run.
Escape(w) ==
  command' = [command EXCEPT ![w] = IF @ \in {"typed", "dialog"} THEN "cancelled" ELSE @]

SwitchTimesOut(w) ==
  /\ phase[w] = "switching"
  /\ Escape(w)
  /\ Restore(w)
  /\ Goes(w, "esc_gap")
  /\ UNCHANGED <<hook, captured, routed, submitted, attempts, box, typed, shown, claude,
                 history>>

AfterEscape(w) ==
  /\ phase[w] = "esc_gap"
  /\ Paste(w)
  /\ UNCHANGED <<file, command>>

\* is_routed, or MODEL_PERSIST_TIMEOUT_S has passed: the same goes on either way.
Persisted(w) ==
  /\ phase[w] = "waiting_persist"
  /\ Restore(w)
  /\ Paste(w)
  /\ UNCHANGED command

\* An Enter in Claude's terminal: it submits the box, or is absorbed.
Enter(w) ==
  \/ /\ box[w] # 0 /\ HookIdle(w)
     /\ SubmitPrompt(w, box[w])
     /\ box' = [box EXCEPT ![w] = 0]
  \/ /\ box[w] # 0 => user[w].interferes \/ ~HookIdle(w)
     /\ UNCHANGED <<asked, runs, box>>

PressEnter(w) ==
  /\ phase[w] = "pasting"
  /\ Enter(w)
  /\ attempts' = [attempts EXCEPT ![w] = 1]
  /\ Goes(w, "verifying")
  /\ UNCHANGED <<file, server, caller, held, claimed, captured, routed, submitted,
                 typed, command, shown, claude, own, choices, stray, meddled, crossed,
                 confirmed>>

\* The hook has not reported the replay in time.
EnterAgain(w) ==
  /\ phase[w] = "verifying" /\ ~submitted[w]
  /\ attempts[w] < MAX_SUBMIT_ATTEMPTS
  /\ Enter(w)
  /\ attempts' = [attempts EXCEPT ![w] = @ + 1]
  /\ UNCHANGED <<file, server, caller, held, claimed, phase, captured, routed, submitted,
                 typed, command, shown, claude, own, choices, stray, meddled, crossed,
                 confirmed>>

Verified(w) ==
  /\ phase[w] = "verifying"
  /\ submitted[w] \/ attempts[w] = MAX_SUBMIT_ATTEMPTS
  /\ Goes(w, "done")
  /\ confirmed' = IF submitted[w] THEN confirmed \cup {w} ELSE confirmed
  /\ UNCHANGED <<file, hook, captured, routed, submitted, attempts, agent, own, choices,
                 stray, runs, meddled, crossed>>

-----------------------------------------------------------------------------
(* Ends. *)

\* The loop is over: the socket is closed, and what the session kept is gone.
Close(w, label) ==
  /\ Goes(w, label)
  /\ server' = [server EXCEPT ![w] = "down"]
  /\ caller' = [caller EXCEPT ![w] = "none"]
  /\ held' = [held EXCEPT ![w] = 0] /\ asked' = [asked EXCEPT ![w] = 0]
  /\ claimed' = [claimed EXCEPT ![w] = FALSE]
  /\ captured' = [captured EXCEPT ![w] = 0]
  /\ submitted' = [submitted EXCEPT ![w] = FALSE]
  /\ attempts' = [attempts EXCEPT ![w] = 0]
  /\ box' = [box EXCEPT ![w] = 0]
  /\ typed' = [typed EXCEPT ![w] = 0] /\ shown' = [shown EXCEPT ![w] = FALSE]
  /\ runs' = [runs EXCEPT ![w] = [i \in DOMAIN @ |-> 0]]
  /\ meddled' = meddled \ {w} /\ crossed' = crossed \ {w} /\ confirmed' = confirmed \ {w}
  /\ UNCHANGED <<routed, own, choices>>

ClaudeEnds(w) ==
  /\ claude[w]
  /\ claude' = [claude EXCEPT ![w] = FALSE]
  /\ command' = [command EXCEPT ![w] = "none"]
  /\ UNCHANGED <<file, hook, loop, box, typed, shown, history>>

\* The terminal has no reader any more; begin() is not interrupted by that.
LoopEnds(w) ==
  /\ Running(w) /\ phase[w] # "acquiring" /\ ~claude[w]
  /\ Close(w, "leaving")
  /\ UNCHANGED <<file, command, claude, stray>>

\* begin() gets the lock after Claude has ended: the write to its terminal fails.
BeginInVain(w) ==
  /\ phase[w] = "acquiring" /\ ~claude[w]
  /\ Snapshot(w)
  /\ stray' = (stray \/ \E v \in Wrappers : phase[v] = "unwinding")
  /\ Close(w, "leaving")
  /\ UNCHANGED <<settings, command, claude>>

\* A failed restore raises out of the loop; launch_claude restores once more.
LoopRaises(w) ==
  /\ phase[w] \in {"switching", "waiting_persist"}
  /\ RestoreFails(w)
  /\ Close(w, "unwinding")
  /\ UNCHANGED <<command, claude, stray>>

Leave(w) ==
  /\ phase[w] \in {"leaving", "unwinding"}
  /\ Restore(w)
  /\ Goes(w, "over")
  /\ UNCHANGED <<hook, captured, routed, submitted, attempts, agent, history>>

\* The second attempt fails too, and the snapshot ends with the process.
LeaveFails(w) ==
  /\ phase[w] \in {"leaving", "unwinding"} /\ before[w] # Unset
  /\ guard' = IF guard = w THEN Nobody ELSE guard
  /\ before' = [before EXCEPT ![w] = Unset]
  /\ UNCHANGED settings
  /\ Goes(w, "over")
  /\ stray' = TRUE
  /\ UNCHANGED <<hook, captured, routed, submitted, attempts, agent, own, choices, runs,
                 meddled, crossed, confirmed>>

\* The wrapper is killed: the kernel frees the lock, nobody restores the model.
Kill(w) ==
  /\ phase[w] \notin {"over", "killed"}
  /\ guard' = IF guard = w THEN Nobody ELSE guard
  /\ before' = [before EXCEPT ![w] = Unset]
  /\ stray' = (stray \/ before[w] # Unset)
  /\ Close(w, "killed")
  /\ UNCHANGED <<settings, command, claude>>

-----------------------------------------------------------------------------
(* Claude runs "/model", and the user chooses. *)

\* Claude asks to confirm the cost of the switch.
Asks(w) ==
  /\ claude[w] /\ command[w] = "typed"
  /\ command' = [command EXCEPT ![w] = "dialog"]
  /\ UNCHANGED <<file, hook, loop, box, typed, shown, claude, history>>

\* It runs the command, at once or confirmed by the wrapper in time or the user.
Runs(w) ==
  /\ claude[w] /\ command[w] \in {"typed", "dialog"}
  /\ command' = [command EXCEPT ![w] = "running"]
  /\ UNCHANGED <<file, hook, loop, box, typed, shown, claude, history>>

Shows(w) ==
  /\ claude[w] /\ command[w] \in {"running", "stored"} /\ ~shown[w] /\ Running(w)
  /\ shown' = [shown EXCEPT ![w] = TRUE]
  /\ UNCHANGED <<file, hook, loop, box, typed, command, claude, history>>

\* It makes the routed model the user's default; late when its wrapper has
\* restored already.
Stores(w) ==
  /\ claude[w] /\ command[w] = "running"
  /\ command' = [command EXCEPT ![w] = "stored"]
  /\ settings' = routed[w]
  /\ stray' = (stray \/ guard # w)
  /\ UNCHANGED <<guard, before, hook, loop, box, typed, shown, claude, own, choices, runs,
                 meddled, crossed, confirmed>>

\* The user makes another model the default, in whichever program.
UserChooses(m) ==
  /\ choices < MaxChoices
  /\ choices' = choices + 1
  /\ settings' = m /\ own' = m
  /\ stray' = \E w \in Wrappers : before[w] # Unset
  /\ UNCHANGED <<guard, before, hook, loop, agent, runs, meddled, crossed, confirmed>>

Loop(w) ==
  /\ UNCHANGED user
  /\ \/ Capture(w) \/ Idle(w) \/ Begin(w) \/ SkipSwitch(w) \/ SeesMarker(w)
     \/ SwitchTimesOut(w) \/ AfterEscape(w) \/ Persisted(w)
     \/ PressEnter(w) \/ EnterAgain(w) \/ Verified(w)
     \/ LoopEnds(w) \/ BeginInVain(w) \/ LoopRaises(w) \/ Leave(w) \/ LeaveFails(w)

Outside(w) ==
  /\ UNCHANGED user
  /\ \/ Serve(w) \/ RouteFails(w) \/ Block(w)
     \/ UserTypes(w) \/ UserEnters(w) \/ GiveUp(w) \/ HangUp(w)
     \/ Asks(w) \/ Runs(w) \/ Shows(w) \/ Stores(w) \/ ClaudeEnds(w) \/ Kill(w)

SwitchNext ==
  \/ \E w \in Wrappers : Loop(w) \/ Outside(w)
  \/ \E m \in UserModels : UserChooses(m) /\ UNCHANGED user

\* The loop's next pass comes: select() returns after 0.2 s at the latest, and
\* every phase has a deadline.
SwitchFairness == \A w \in Wrappers : WF_switchVars(Loop(w))

SwitchSpec == SwitchInit /\ [][SwitchNext]_switchVars /\ SwitchFairness

-----------------------------------------------------------------------------
(* Properties. *)

\* Every variable has its type.
SwitchTypeOK ==
  /\ user \in Users
  /\ settings \in Models /\ own \in Models
  /\ guard \in Wrappers \cup {Nobody}
  /\ phase \in [Wrappers -> Phases \cup Ends]
  /\ before \in [Wrappers -> Models \cup {Unset}]
  /\ server \in [Wrappers -> {"up", "routing", "down"}]
  /\ caller \in [Wrappers -> {"none", "there", "leaving", "gone"}]
  /\ claimed \in [Wrappers -> BOOLEAN] /\ submitted \in [Wrappers -> BOOLEAN]
  /\ shown \in [Wrappers -> BOOLEAN] /\ claude \in [Wrappers -> BOOLEAN]
  /\ routed \in [Wrappers -> RoutedModels \cup {Unset}]
  /\ attempts \in [Wrappers -> 0 .. MAX_SUBMIT_ATTEMPTS]
  /\ command \in [Wrappers -> Commands]
  /\ held \in [Wrappers -> Nat] /\ asked \in [Wrappers -> Nat]
  /\ captured \in [Wrappers -> Nat]
  /\ box \in [Wrappers -> Nat] /\ typed \in [Wrappers -> Nat]
  /\ \A w \in Wrappers :
       /\ held[w] \in PromptIds(w) /\ asked[w] \in PromptIds(w)
       /\ captured[w] \in PromptIds(w)
       /\ box[w] \in PromptIds(w) /\ typed[w] \in PromptIds(w)
  /\ runs = [w \in Wrappers |-> runs[w]]
  /\ \A w \in Wrappers : runs[w] \in [PromptIds(w) -> Nat]
  /\ choices \in 0 .. MaxChoices
  /\ stray \in BOOLEAN
  /\ meddled \subseteq Wrappers /\ crossed \subseteq Wrappers /\ confirmed \subseteq Wrappers

\* The settings file is the user's again.  Where no wrapper holds a snapshot, the
\* default is the model the user chose last, and a snapshot is that model and
\* never one that another wrapper switched to (_ClaudeModelSettingGuard).  What
\* breaks this is named: a write of Claude's after its wrapper restored, a kill or
\* a second failed write in between, a choice of the user's meanwhile, and another
\* wrapper that took the lock from one whose write failed.
DefaultIsOwn ==
  ~stray =>
    /\ (\A w \in Wrappers : before[w] = Unset) => settings = own
    /\ \A w \in Wrappers : before[w] # Unset => before[w] = own

\* Claude takes the first prompt once: blocking, replay and repeated Enters do not
\* run it twice, and a replay the wrapper counts as submitted has been taken.  A
\* user who submits something in between, and a hook that gives up in the instant
\* of its answer, are excepted.
FirstPromptRunsOnce ==
  \A w \in Wrappers : captured[w] # 0 /\ w \notin meddled \cup crossed =>
    /\ runs[w][captured[w]] <= 1
    /\ w \in confirmed => runs[w][captured[w]] = 1

\* A blocked prompt is not kept waiting: the loop comes to its end, or the session
\* does, whether or not Claude runs the command, and although the loop waits for
\* the lock without a deadline: whoever holds it gives it back.
PromptSettles ==
  \A w \in Wrappers :
    captured[w] # 0 ~> (phase[w] = "done" \/ phase[w] \in Ends)

=============================================================================
