------------------------------- MODULE IvrFlow -------------------------------
(***************************************************************************)
(* One call in an IVR flow: IVRExecutor, which walks the nodes of a graph, *)
(* and the AudioPlayer it plays prompts with.  Both run on one event loop; *)
(* a step goes from one await to the next, and in between come the frames  *)
(* of prompts that are still playing, digits, timers, the end of a request *)
(* or of a transfer, and stop().                                           *)
(*                                                                         *)
(* Left out: digits collected and variables set, the path that is logged,  *)
(* and the text of requests.  A timing node goes either way.               *)
(***************************************************************************)
EXTENDS Naturals, FiniteSets

CONSTANTS
    Node,      \* nodes of the flow
    First,     \* the one it starts with
    Config,    \* of each node: its type and how it is configured
    Edge,      \* where each outcome of a node leads, None if nowhere
    Digit,     \* keys of the caller
    Play,      \* bound on calls of playFile that run at a time
    Frames,    \* packets of a prompt
    None       \* no node, no prompt

Types == {"greeting", "menu", "gather", "http_callback", "transfer", "goto_flow",
          "timing", "hangup", "unknown"}
Outcome == {"default", "max_retries", "2xx", "non2xx", "goto_flow", "in_hours",
            "out_of_hours"} \union Digit

ASSUME FlowAssumption ==
    /\ First \in Node /\ None \notin Node \union Play \union Digit
    /\ Config \in [Node -> [type: Types, audio: BOOLEAN, interruptible: BOOLEAN,
                            timed: BOOLEAN,   \* of a menu: timeout_seconds > 0
                            options: SUBSET Digit, retries: Nat]]
    /\ Edge \in [Node -> [Outcome -> Node \union {None}]]
    /\ Frames \in Nat

VARIABLES
    node,      \* context.currentNode
    pc,        \* what execute waits for
    attempt,   \* retries of a menu or a gather so far
    gathered,  \* a gather has a digit
    current,   \* the prompt that execute waits for
    running,   \* isRunning: stop() was not called
    stopFlag,  \* AudioPlayer.stopFlag
    play,      \* calls of playFile: what each waits for, and packets left
    used,      \* a packet with the present sequenceNumber has been written
    repeated,  \* observed: two packets had the same number
    timedOut,  \* observed: the timer of a menu fired during its prompt
    behind     \* observed: the prompts that such timers left playing

flowVars == <<node, pc, attempt, gathered, current, running>>
playerVars == <<stopFlag, play, used, repeated>>
observed == <<timedOut, behind>>
vars == <<flowVars, playerVars, observed>>

Pcs == {"enter", "retry", "prompt", "race", "listen", "gather", "http", "body", "transfer",
        "ended"}
Silent == [at |-> "off", left |-> 0]

Init ==
    /\ node = First
    /\ pc = "enter"
    /\ attempt = 0
    /\ gathered = FALSE
    /\ current = None
    /\ running = TRUE
    /\ stopFlag = FALSE
    /\ play = [p \in Play |-> Silent]
    /\ used = FALSE /\ repeated = FALSE /\ timedOut = FALSE /\ behind = {}

Is(type) == Config[node].type = type
On(p) == play[p].at # "off"

\* playFile is called: it reads the file first.
StartPlay(p) ==
    /\ ~On(p)
    /\ play' = [play EXCEPT ![p] = [at |-> "file", left |-> Frames]]
    /\ current' = p

-----------------------------------------------------------------------------
(* execute: from node to node.                                             *)

\* A node is left; without an edge for its outcome the flow is complete.
Leave(outcome) ==
    /\ attempt' = 0 /\ gathered' = FALSE /\ current' = None
    /\ IF Edge[node][outcome] = None
       THEN pc' = "ended" /\ UNCHANGED node
       ELSE pc' = "enter" /\ node' = Edge[node][outcome]

\* The head of the loop, the one place that looks at isRunning.
StopSeen ==
    /\ pc = "enter" /\ ~running
    /\ pc' = "ended"
    /\ UNCHANGED <<node, attempt, gathered, current, running, playerVars, observed>>

Entering == pc = "enter" /\ running
WaitAt(at) == pc' = at /\ UNCHANGED <<node, attempt, gathered, current>>

EnterPrompt(p) ==
    /\ Entering
    /\ Config[node].audio /\ Config[node].type \in {"greeting", "gather", "hangup"}
    /\ StartPlay(p)
    /\ pc' = IF Is("greeting") /\ Config[node].interruptible THEN "race" ELSE "prompt"
    /\ UNCHANGED <<node, attempt, gathered, running, stopFlag, used, repeated, observed>>

Enter ==
    /\ Entering
    /\ \/ Is("menu") /\ WaitAt("retry")
       \/ Is("gather") /\ ~Config[node].audio /\ WaitAt("retry")
       \/ Is("http_callback") /\ WaitAt("http")
       \/ Is("transfer") /\ WaitAt("transfer")
       \/ Is("greeting") /\ ~Config[node].audio /\ Leave("default")
       \/ Is("goto_flow") /\ Leave("goto_flow")
       \/ Is("timing") /\ (Leave("in_hours") \/ Leave("out_of_hours"))
       \/ Is("unknown") /\ WaitAt("ended")
       \/ Is("hangup") /\ ~Config[node].audio /\ WaitAt("ended")
    /\ running' = ~Is("hangup")
    /\ UNCHANGED <<playerVars, observed>>

\* The loop of a menu or of a gather: once more, or max_retries.
Retry(p) ==
    /\ pc = "retry" /\ attempt < Config[node].retries
    /\ gathered' = FALSE
    /\ IF Is("menu") /\ Config[node].audio
       THEN pc' = "race" /\ StartPlay(p)
       ELSE pc' = (IF Is("menu") THEN "listen" ELSE "gather") /\ UNCHANGED <<play, current>>
    /\ UNCHANGED <<node, attempt, running, stopFlag, used, repeated, observed>>

GiveUp ==
    /\ pc = "retry" /\ attempt = Config[node].retries
    /\ Leave("max_retries")
    /\ UNCHANGED <<running, playerVars, observed>>

\* The next round of the loop.
Again ==
    /\ pc' = "retry" /\ attempt' = attempt + 1 /\ current' = None
    /\ UNCHANGED <<node, gathered>>

-----------------------------------------------------------------------------
(* AudioPlayer.                                                            *)

\* What execute does when the prompt it waits for is over.
PromptOver ==
    /\ running' = (running /\ ~Is("hangup"))
    /\ CASE Is("menu") -> Again
         [] Is("greeting") -> Leave("default")
         [] OTHER -> /\ pc' = (IF Is("gather") THEN "retry" ELSE "ended")
                     /\ current' = None
                     /\ UNCHANGED <<node, attempt, gathered>>

Over(p) ==
    /\ play' = [play EXCEPT ![p] = Silent] /\ behind' = behind \ {p}
    /\ IF p = current THEN PromptOver ELSE UNCHANGED flowVars

\* Mutant of Frame: the packet is built before the number is incremented.
FrameEarly(p) ==
    /\ On(p)
    /\ IF stopFlag \/ play[p].left = 0
       THEN Over(p) /\ UNCHANGED <<used, repeated>>
       ELSE /\ play' = [play EXCEPT ![p] = [at |-> "write", left |-> @.left - 1]]
            /\ repeated' = (repeated \/ used)
            /\ used' = (play[p].at = "file")
            /\ UNCHANGED <<flowVars, behind>>
    /\ UNCHANGED <<stopFlag, timedOut>>

\* The file is read or a packet written: the number is incremented after a
\* write, and the next packet is written unless the player was stopped.
Frame(p) ==
    /\ On(p)
    /\ LET taken == used /\ play[p].at = "file" IN
       IF stopFlag \/ play[p].left = 0
       THEN Over(p) /\ used' = taken /\ UNCHANGED repeated
       ELSE /\ play' = [play EXCEPT ![p] = [at |-> "write", left |-> @.left - 1]]
            /\ repeated' = (repeated \/ taken)
            /\ used' = TRUE
            /\ UNCHANGED <<flowVars, behind>>
    /\ UNCHANGED <<stopFlag, timedOut>>

\* The file cannot be read or the connection is gone: execute throws if it
\* waits for this prompt, and reports nothing.
PlayFails(p) ==
    /\ On(p)
    /\ play' = [play EXCEPT ![p] = Silent] /\ behind' = behind \ {p}
    /\ IF p = current THEN pc' = "ended" /\ current' = None ELSE UNCHANGED <<pc, current>>
    /\ UNCHANGED <<node, attempt, gathered, running, stopFlag, used, repeated, timedOut>>

-----------------------------------------------------------------------------
(* Digits, timers, and what the flow waits for outside.                    *)

\* A digit that ends the wait of a menu or of an interruptible greeting.  It
\* stops the player if a prompt was playing; nothing starts it again.
Answered(d) ==
    CASE Is("greeting") -> Leave("default")
      [] Is("menu") /\ (Config[node].options = {} \/ d \in Config[node].options) -> Leave(d)
      [] OTHER -> Again

\* Mutant of Press: the prompt goes on.
PressKeepsPlaying(d) ==
    /\ pc \in {"race", "listen"}
    /\ Answered(d)
    /\ UNCHANGED <<running, playerVars, observed>>

Press(d) ==
    /\ pc \in {"race", "listen"}
    /\ Answered(d)
    /\ stopFlag' = (stopFlag \/ pc = "race")
    /\ UNCHANGED <<running, play, used, repeated, observed>>

\* A digit of a gather: the terminator, the last one, or one more.
Collect ==
    /\ pc = "gather"
    /\ \/ ~gathered /\ Again
       \/ Leave("default")
       \/ gathered' = TRUE /\ UNCHANGED <<node, pc, attempt, current>>
    /\ UNCHANGED <<running, playerVars, observed>>

\* Mutant of MenuTimer: it is started for the prompt alone, so that a menu
\* without one waits for a digit.
MenuNoTimer ==
    /\ pc = "race" /\ Is("menu") /\ Config[node].timed
    /\ Again
    /\ timedOut' = TRUE /\ behind' = behind \union {current}
    /\ UNCHANGED <<running, playerVars>>

\* A menu whose timeout is not 0 asks again; if its prompt is still playing, it
\* plays on.
MenuTimer ==
    /\ pc \in {"race", "listen"} /\ Is("menu") /\ Config[node].timed
    /\ Again
    /\ timedOut' = (timedOut \/ pc = "race")
    /\ behind' = IF pc = "race" THEN behind \union {current} ELSE behind
    /\ UNCHANGED <<running, playerVars>>

GatherTimer ==
    /\ pc = "gather"
    /\ IF gathered THEN Leave("default") ELSE Again
    /\ UNCHANGED <<running, playerVars, observed>>

\* The answer begins, or there is none in time.  The timer is cleared before
\* the body is read, which then ends when the other side ends it.
HttpAnswer ==
    /\ pc = "http"
    /\ WaitAt("body") \/ Leave("non2xx")
    /\ UNCHANGED <<running, playerVars, observed>>

HttpBody ==
    /\ pc = "body"
    /\ Leave("2xx") \/ Leave("non2xx")
    /\ UNCHANGED <<running, playerVars, observed>>

\* Whatever the outcome that is reported: an edge of the node or none.
TransferEnds(outcome) ==
    /\ pc = "transfer"
    /\ Leave(outcome)
    /\ UNCHANGED <<running, playerVars, observed>>

\* stop(), by the owner of the call.
Stop ==
    /\ running
    /\ running' = FALSE
    /\ UNCHANGED <<node, pc, attempt, gathered, current, playerVars, observed>>

-----------------------------------------------------------------------------
Walk == StopSeen \/ Enter \/ GiveUp \/ \E p \in Play : EnterPrompt(p) \/ Retry(p)
Timers == MenuTimer \/ GatherTimer \/ HttpAnswer

Next ==
    \/ Walk \/ Timers
    \/ \E p \in Play : Frame(p) \/ PlayFails(p)
    \/ \E d \in Digit : Press(d)
    \/ Collect \/ HttpBody
    \/ \E outcome \in {"default"} \union Digit : TransferEnds(outcome)
    \/ Stop

Spec == Init /\ [][Next]_vars

\* Files are read, packets written, timers fire and requests time out; nobody
\* has to press a key, end an answer, end a transfer or stop the flow.
FairSpec ==
    /\ Spec
    /\ WF_vars(Walk) /\ WF_vars(Timers)
    /\ \A p \in Play : WF_vars(Frame(p) \/ PlayFails(p))
-----------------------------------------------------------------------------
TypeOK ==
    /\ node \in Node
    /\ pc \in Pcs
    /\ attempt \in Nat
    /\ gathered \in BOOLEAN
    /\ current \in Play \union {None}
    /\ running \in BOOLEAN /\ stopFlag \in BOOLEAN
    /\ play \in [Play -> [at: {"off", "file", "write"}, left: 0 .. Frames]]
    /\ used \in BOOLEAN /\ repeated \in BOOLEAN /\ timedOut \in BOOLEAN
    /\ behind \subseteq Play

\* Packets of a call have numbers of their own, unless prompts overlapped: the
\* number is incremented after the write, and two loops may write the same.
NumbersUnique == repeated => timedOut

\* A prompt that goes on when the flow is over was left playing by the timer of
\* its menu; any other was stopped by a digit and ends with its next packet.
QuietWhenOver == pc = "ended" => \A p \in Play : On(p) => stopFlag \/ p \in behind

\* Every node comes to an end, but for three that wait on others without a timer:
\* a transfer, until somebody reports what became of it, a request whose answer
\* has begun, and a menu with neither a prompt nor a timeout, until a digit.
\* stop() ends none of them.
Untimed == pc = "listen" /\ ~Config[node].timed
WaitsForOthers == pc \in {"transfer", "body"} \/ Untimed
NodesEnd == pc \notin {"enter", "ended"} ~> (pc \in {"enter", "ended"} \/ WaitsForOthers)
=============================================================================
