---------------------------- MODULE IvrFlowProofs ----------------------------
(***************************************************************************)
(* Proofs about IvrFlow, for any flow, any number of prompts and packets:  *)
(* only the timer of a menu makes prompts overlap, and only prompts it     *)
(* left playing go on after the flow.                                      *)
(***************************************************************************)
EXTENDS IvrFlow, TLAPS

-----------------------------------------------------------------------------
(* The inductive invariant.                                                *)

\* The types of the executor's variables; it has a prompt when it waits for one.
FlowSound ==
    /\ node \in Node /\ pc \in Pcs /\ attempt \in Nat /\ gathered \in BOOLEAN
    /\ current \in Play \union {None}
    /\ pc \in {"race", "prompt"} <=> current # None

\* Until the player is stopped, or a timer fires during a prompt, the prompt that
\* is awaited is the only one, and a number is in use only while it is played
\* (or when it broke off and the flow with it).
OnePrompt ==
    /\ \A p \in Play : On(p) => p = current
    /\ used => pc = "ended" \/ \E p \in Play : play[p].at = "write"

\* Until the player is stopped, a prompt that plays is awaited, or the timer of
\* its menu left it playing.
Accounted == stopFlag \/ \A p \in Play : On(p) => p = current \/ p \in behind

Inv == TypeOK /\ FlowSound /\ NumbersUnique /\ Accounted /\ (timedOut \/ stopFlag \/ OnePrompt)

\* Initially the flow is at its first node and nothing is played.
LEMMA InitInv == Init => Inv
<1> SUFFICES ASSUME Init PROVE Inv
  OBVIOUS
<1> USE FlowAssumption DEF Init
<1>1. FlowSound
  BY DEF FlowSound, Pcs
<1>2. play \in [Play -> [at: {"off", "file", "write"}, left: 0 .. Frames]]
  BY DEF Silent
<1>3. running \in BOOLEAN /\ stopFlag \in BOOLEAN /\ used \in BOOLEAN /\ repeated \in BOOLEAN
      /\ timedOut \in BOOLEAN /\ behind \subseteq Play
  OBVIOUS
<1>4. TypeOK
  BY <1>1, <1>2, <1>3 DEF FlowSound, TypeOK
<1>5. NumbersUnique /\ OnePrompt /\ Accounted
  BY DEF NumbersUnique, OnePrompt, Accounted, On, Silent
<1> QED
  BY <1>1, <1>4, <1>5 DEF Inv

-----------------------------------------------------------------------------
(* What execute does next.                                                 *)

\* A node is left for another one or for the end, without a prompt.
LEMMA LeaveSound ==
  ASSUME FlowSound, NEW outcome \in Outcome, Leave(outcome)
  PROVE  FlowSound' /\ current' = None
<1>1. Edge[node][outcome] \in Node \union {None}
  BY FlowAssumption DEF FlowSound
<1> QED
  BY <1>1 DEF Leave, FlowSound, Pcs

\* The loop of a menu or a gather begins another round, without a prompt.
LEMMA AgainSound == FlowSound /\ Again => FlowSound' /\ current' = None
  BY DEF FlowSound, Again, Pcs

\* The wait for something else than a prompt.
LEMMA WaitSound ==
  ASSUME FlowSound, current = None, NEW at \in Pcs \ {"race", "prompt"}, WaitAt(at)
  PROVE  FlowSound' /\ current' = None
  BY DEF FlowSound, WaitAt

\* The names of outcomes.
LEMMA Outcomes ==
  /\ \A o \in {"default", "max_retries", "2xx", "non2xx", "goto_flow", "in_hours",
              "out_of_hours"} : o \in Outcome
  /\ \A d \in Digit : d \in Outcome
  BY DEF Outcome

\* A prompt that is over, or broke off, is no longer awaited.
LEMMA PromptOverSound == FlowSound /\ PromptOver => FlowSound' /\ current' = None
<1> SUFFICES ASSUME FlowSound, PromptOver PROVE FlowSound' /\ current' = None
  OBVIOUS
<1>1. CASE Is("menu")
  BY <1>1, AgainSound DEF PromptOver, Is
<1>2. CASE Is("greeting") /\ ~Is("menu")
  BY <1>2, LeaveSound, Outcomes DEF PromptOver
<1>3. CASE ~Is("greeting") /\ ~Is("menu")
  <2>1. /\ pc' = (IF Is("gather") THEN "retry" ELSE "ended") /\ current' = None
        /\ UNCHANGED <<node, attempt, gathered>>
    BY <1>3 DEF PromptOver
  <2>2. pc' \in {"retry", "ended"}
    BY <2>1
  <2> QED
    BY <2>1, <2>2 DEF FlowSound, Pcs
<1> QED
  BY <1>1, <1>2, <1>3

\* A digit ends the wait for a prompt.
LEMMA AnsweredSound ==
  ASSUME FlowSound, NEW d \in Digit, Answered(d)
  PROVE  FlowSound' /\ current' = None
<1>1. CASE Is("greeting")
  BY <1>1, LeaveSound, Outcomes DEF Answered
<1>2. CASE Is("menu") /\ (Config[node].options = {} \/ d \in Config[node].options) /\ ~Is("greeting")
  BY <1>2, LeaveSound, Outcomes DEF Answered
<1>3. CASE ~Is("greeting") /\ ~(Is("menu") /\ (Config[node].options = {} \/ d \in Config[node].options))
  BY <1>3, AgainSound DEF Answered
<1> QED
  BY <1>1, <1>2, <1>3

\* The steps of execute that start no prompt and do not touch the player.
Silently ==
    \/ StopSeen \/ Enter \/ GiveUp \/ Timers \/ Collect \/ HttpBody \/ Stop
    \/ \E outcome \in {"default"} \union Digit : TransferEnds(outcome)

\* They leave the executor without a prompt, unless it waits for the one it had.
LEMMA SilentlySound ==
  ASSUME TypeOK, FlowSound, Silently
  PROVE  /\ FlowSound' /\ UNCHANGED playerVars /\ running' \in BOOLEAN
         /\ \/ timedOut' = TRUE /\ current \in Play /\ behind' = behind \union {current}
            \/ UNCHANGED <<current, pc, timedOut, behind>>
            \/ /\ current = None /\ current' = None /\ pc # "ended"
               /\ UNCHANGED <<timedOut, behind>>
<1> USE DEF observed
<1>r. running \in BOOLEAN
  BY DEF TypeOK
<1>1. CASE StopSeen
  BY <1>1, <1>r DEF StopSeen, FlowSound, Pcs
<1>2. CASE Enter
  <2>1. current = None /\ pc # "ended"
    BY <1>2 DEF Enter, Entering, FlowSound
  <2>2. FlowSound' /\ current' = None
    <3>1. {"retry", "http", "transfer", "ended"} \subseteq Pcs \ {"race", "prompt"}
      BY DEF Pcs
    <3> QED
      BY <1>2, <2>1, <3>1, WaitSound, LeaveSound, Outcomes DEF Enter
  <2>3. running' \in BOOLEAN /\ UNCHANGED <<playerVars, timedOut, behind>>
    BY <1>2 DEF Enter
  <2> QED
    BY <2>1, <2>2, <2>3
<1>3. CASE GiveUp
  <2>1. current = None /\ pc # "ended"
    BY <1>3 DEF GiveUp, FlowSound
  <2> QED
    BY <1>3, <1>r, <2>1, LeaveSound, Outcomes DEF GiveUp
<1>4. CASE MenuTimer
  <2>1. CASE pc = "race"
    <3>1. current \in Play
      BY <2>1 DEF FlowSound
    <3>2. timedOut' = TRUE
      BY <1>4, <2>1 DEF MenuTimer
    <3> QED
      BY <1>4, <1>r, <2>1, <3>1, <3>2, AgainSound DEF MenuTimer
  <2>2. CASE pc = "listen"
    <3>1. current = None
      BY <2>2 DEF FlowSound
    <3>2. timedOut' = timedOut /\ behind' = behind
      BY <1>4, <2>2 DEF MenuTimer, TypeOK
    <3> QED
      BY <1>4, <1>r, <2>2, <3>1, <3>2, AgainSound DEF MenuTimer
  <2> QED
    BY <1>4, <2>1, <2>2 DEF MenuTimer
<1>5. CASE GatherTimer
  <2>1. current = None /\ pc # "ended"
    BY <1>5 DEF GatherTimer, FlowSound
  <2> QED
    BY <1>5, <1>r, <2>1, LeaveSound, AgainSound, Outcomes DEF GatherTimer
<1>6. CASE HttpAnswer \/ HttpBody
  <2>1. current = None /\ pc # "ended"
    BY <1>6 DEF HttpAnswer, HttpBody, FlowSound
  <2>2. "body" \in Pcs \ {"race", "prompt"}
    BY DEF Pcs
  <2> QED
    BY <1>6, <1>r, <2>1, <2>2, LeaveSound, WaitSound, Outcomes DEF HttpAnswer, HttpBody
<1>7. CASE Collect
  <2>1. current = None /\ pc # "ended"
    BY <1>7 DEF Collect, FlowSound
  <2>2. CASE gathered' = TRUE /\ UNCHANGED <<node, pc, attempt, current>>
    BY <1>7, <1>r, <2>1, <2>2 DEF Collect, FlowSound
  <2>3. CASE Again \/ Leave("default")
    BY <1>7, <1>r, <2>1, <2>3, LeaveSound, AgainSound, Outcomes DEF Collect
  <2> QED
    BY <1>7, <2>2, <2>3 DEF Collect
<1>8. CASE \E outcome \in {"default"} \union Digit : TransferEnds(outcome)
  <2>1. current = None /\ pc # "ended"
    BY <1>8 DEF TransferEnds, FlowSound
  <2> QED
    BY <1>8, <1>r, <2>1, LeaveSound, Outcomes DEF TransferEnds
<1>9. CASE Stop
  BY <1>9 DEF Stop, FlowSound
<1> QED
  BY <1>1, <1>2, <1>3, <1>4, <1>5, <1>6, <1>7, <1>8, <1>9 DEF Silently, Timers

\* They keep the invariant.
LEMMA SilentlyInv == Inv /\ Silently => Inv'
<1> SUFFICES ASSUME Inv, Silently PROVE Inv'
  OBVIOUS
<1> DEFINE Sure == /\ FlowSound' /\ UNCHANGED playerVars /\ running' \in BOOLEAN
                   /\ \/ /\ timedOut' = TRUE /\ current \in Play
                         /\ behind' = behind \union {current}
                      \/ UNCHANGED <<current, pc, timedOut, behind>>
                      \/ /\ current = None /\ current' = None /\ pc # "ended"
                         /\ UNCHANGED <<timedOut, behind>>
<1>1. Sure
  BY SilentlySound DEF Inv
<1>2. timedOut' \in BOOLEAN /\ (timedOut => timedOut')
  <2>1. timedOut \in BOOLEAN
    BY DEF Inv, TypeOK
  <2>2. timedOut' = TRUE \/ timedOut' = timedOut
    BY <1>1
  <2> QED
    BY <2>1, <2>2, Zenon
<1>b. behind' \subseteq Play
  BY <1>1 DEF Inv, TypeOK
<1>3. TypeOK'
  BY <1>1, <1>2, <1>b DEF Inv, TypeOK, FlowSound, playerVars
<1>4. NumbersUnique'
  BY <1>1, <1>2 DEF Inv, NumbersUnique, playerVars
<1>a. Accounted'
  <2>1. UNCHANGED <<play, stopFlag>>
    BY <1>1 DEF playerVars
  <2> QED
    BY <1>1, <2>1, FlowAssumption DEF Inv, Accounted, On
<1>5. ASSUME ~timedOut', ~stopFlag' PROVE OnePrompt'
  <2>1. OnePrompt
    BY <1>1, <1>2, <1>5 DEF Inv, playerVars
  <2>2. UNCHANGED <<play, used>>
    BY <1>1 DEF playerVars
  <2>3. CASE UNCHANGED <<current, pc>>
    BY <2>1, <2>2, <2>3 DEF OnePrompt, On
  <2>4. CASE current = None /\ current' = None /\ pc # "ended"
    BY <2>1, <2>2, <2>4 DEF OnePrompt, On
  <2> QED
    BY <1>1, <1>5, <2>3, <2>4
<1> QED
  BY <1>1, <1>3, <1>4, <1>5, <1>a DEF Inv

-----------------------------------------------------------------------------
(* Prompts.                                                                *)

PlayType == [Play -> [at: {"off", "file", "write"}, left: 0 .. Frames]]

\* A prompt starts when execute waits for none, so that it is the only one
\* unless the player was stopped or prompts overlap.
LEMMA StartInv ==
  ASSUME Inv, NEW p \in Play, EnterPrompt(p) \/ Retry(p)
  PROVE  Inv'
<1>1. current = None /\ pc # "ended"
  BY DEF Inv, FlowSound, EnterPrompt, Entering, Retry
<1>2. UNCHANGED <<running, stopFlag, used, repeated, timedOut, behind, node, attempt>>
  BY DEF EnterPrompt, Retry, observed
<1>3. CASE UNCHANGED <<play, current>> /\ pc' \in {"listen", "gather"} /\ gathered' = FALSE
  <2>2. FlowSound'
    BY <1>1, <1>2, <1>3 DEF Inv, FlowSound, Pcs
  <2>3. TypeOK'
    BY <1>2, <1>3, <2>2 DEF Inv, TypeOK, FlowSound
  <2>4. NumbersUnique'
    BY <1>2 DEF Inv, NumbersUnique
  <2>5. OnePrompt => OnePrompt'
    BY <1>1, <1>2, <1>3 DEF OnePrompt, On
  <2>6. Accounted'
    BY <1>2, <1>3 DEF Inv, Accounted, On
  <2> QED
    BY <1>2, <2>2, <2>3, <2>4, <2>5, <2>6 DEF Inv
<1>4. CASE StartPlay(p) /\ pc' \in {"race", "prompt"} /\ gathered' \in BOOLEAN
  <2>1. p # None
    BY FlowAssumption
  <2>2. FlowSound'
    BY <1>2, <1>4, <2>1 DEF StartPlay, Inv, FlowSound, Pcs
  <2>3. play' \in PlayType
    <3>1. [at |-> "file", left |-> Frames] \in [at: {"off", "file", "write"}, left: 0 .. Frames]
      BY FlowAssumption
    <3> QED
      BY <1>4, <3>1 DEF StartPlay, Inv, TypeOK, PlayType
  <2>4. TypeOK'
    BY <1>2, <2>2, <2>3 DEF Inv, TypeOK, FlowSound, PlayType
  <2>5. NumbersUnique'
    BY <1>2 DEF Inv, NumbersUnique
  <2>6. ASSUME OnePrompt PROVE OnePrompt'
    <3>1. \A r \in Play : ~On(r)
      BY <1>1, <2>6, FlowAssumption DEF OnePrompt
    <3>2. ~used
      BY <1>1, <2>6, <3>1 DEF OnePrompt, On
    <3>3. \A r \in Play : r # p => play'[r] = play[r]
      BY <1>4 DEF StartPlay, Inv, TypeOK
    <3> QED
      BY <1>2, <1>4, <3>1, <3>2, <3>3 DEF OnePrompt, On, StartPlay
  <2>7. Accounted'
    <3>1. \A r \in Play : r # p => play'[r] = play[r]
      BY <1>4 DEF StartPlay, Inv, TypeOK
    <3> QED
      BY <1>1, <1>2, <1>4, <3>1, FlowAssumption DEF Inv, Accounted, On, StartPlay
  <2> QED
    BY <1>2, <2>2, <2>4, <2>5, <2>6, <2>7 DEF Inv
<1>5. \/ UNCHANGED <<play, current>> /\ pc' \in {"listen", "gather"} /\ gathered' = FALSE
      \/ StartPlay(p) /\ pc' \in {"race", "prompt"} /\ gathered' \in BOOLEAN
  <2>1. CASE EnterPrompt(p)
    BY <2>1 DEF EnterPrompt, Inv, TypeOK
  <2>2. CASE Retry(p)
    BY <2>2 DEF Retry
  <2> QED
    BY <2>1, <2>2
<1> QED
  BY <1>3, <1>4, <1>5

\* What a prompt that is over leaves of the executor's variables.
LEMMA OverSound ==
  ASSUME Inv, NEW p \in Play, Over(p)
  PROVE  /\ FlowSound' /\ running' \in BOOLEAN /\ play' \in PlayType
         /\ \A r \in Play : r # p => play'[r] = play[r]
         /\ play'[p] = Silent
         /\ IF p = current THEN current' = None ELSE UNCHANGED <<current, pc>>
         /\ behind' = behind \ {p}
<1>b. behind' = behind \ {p}
  BY DEF Over
<1>1. play' \in PlayType /\ play'[p] = Silent /\ \A r \in Play : r # p => play'[r] = play[r]
  <2>1. Silent \in [at: {"off", "file", "write"}, left: 0 .. Frames]
    BY FlowAssumption DEF Silent
  <2> QED
    BY <2>1 DEF Over, Inv, TypeOK, PlayType
<1>2. CASE p = current
  <2>1. FlowSound' /\ current' = None
    BY <1>2, PromptOverSound DEF Over, Inv
  <2>2. running' \in BOOLEAN
    BY <1>2 DEF Over, PromptOver
  <2> QED
    BY <1>1, <1>2, <1>b, <2>1, <2>2
<1>3. CASE p # current
  BY <1>1, <1>3, <1>b DEF Over, flowVars, Inv, FlowSound, TypeOK
<1> QED
  BY <1>2, <1>3

\* A packet, or the end of a prompt.
LEMMA FrameInv ==
  ASSUME Inv, NEW p \in Play, Frame(p)
  PROVE  Inv'
<1> DEFINE taken == used /\ play[p].at = "file"
<1>t. /\ play \in PlayType /\ used \in BOOLEAN /\ repeated \in BOOLEAN
      /\ stopFlag \in BOOLEAN /\ timedOut \in BOOLEAN /\ running \in BOOLEAN
      /\ behind \subseteq Play
  BY DEF Inv, TypeOK, PlayType
<1>u. UNCHANGED <<stopFlag, timedOut>>
  BY DEF Frame
<1>s. OnePrompt => p = current /\ ~taken /\ pc # "ended"
  <2> SUFFICES ASSUME OnePrompt PROVE p = current /\ ~taken /\ pc # "ended"
    OBVIOUS
  <2>1. p = current /\ pc # "ended"
    BY FlowAssumption DEF OnePrompt, Frame, Inv, FlowSound
  <2>2. taken => \E r \in Play : play[r].at = "write"
    BY <2>1 DEF OnePrompt
  <2>3. \A r \in Play : play[r].at = "write" => r = p
    BY <2>1 DEF OnePrompt, On
  <2> QED
    BY <2>1, <2>2, <2>3
<1>1. CASE stopFlag \/ play[p].left = 0
  <2>0. Over(p) /\ used' = taken /\ UNCHANGED repeated
    BY <1>1 DEF Frame
  <2>1. /\ FlowSound' /\ running' \in BOOLEAN /\ play' \in PlayType
        /\ \A r \in Play : r # p => play'[r] = play[r]
        /\ play'[p] = Silent
        /\ IF p = current THEN current' = None ELSE UNCHANGED <<current, pc>>
        /\ behind' = behind \ {p}
    BY <2>0, OverSound
  <2>2. used' \in BOOLEAN
    BY <2>0
  <2>3. TypeOK'
    BY <1>t, <1>u, <2>0, <2>1, <2>2 DEF TypeOK, FlowSound, PlayType
  <2>4. NumbersUnique'
    BY <1>u, <2>0 DEF Inv, NumbersUnique
  <2>5. ASSUME OnePrompt PROVE OnePrompt'
    <3>1. ~used'
      BY <1>s, <2>0, <2>5
    <3>2. \A r \in Play : ~On(r)'
      BY <1>s, <2>1, <2>5 DEF OnePrompt, On, Silent
    <3> QED
      BY <3>1, <3>2 DEF OnePrompt
  <2>6. Accounted'
    BY <1>u, <2>1 DEF Inv, Accounted, On, Silent
  <2> QED
    BY <1>u, <2>1, <2>3, <2>4, <2>5, <2>6 DEF Inv
<1>2. CASE ~stopFlag /\ play[p].left # 0
  <2>0. /\ play' = [play EXCEPT ![p] = [at |-> "write", left |-> @.left - 1]]
        /\ repeated' = (repeated \/ taken)
        /\ used' = TRUE
        /\ UNCHANGED <<flowVars, behind>>
    BY <1>2 DEF Frame
  <2>1. FlowSound' /\ UNCHANGED running
    BY <2>0 DEF flowVars, Inv, FlowSound
  <2>2. play' \in PlayType
    <3>1. [at |-> "write", left |-> play[p].left - 1]
            \in [at: {"off", "file", "write"}, left: 0 .. Frames]
      <4>1. play[p].left \in 0 .. Frames
        BY <1>t DEF PlayType
      <4>f. Frames \in Nat
        BY FlowAssumption
      <4>l. \A l \in 0 .. Frames : l # 0 => l - 1 \in 0 .. Frames
        BY <4>f
      <4>2. play[p].left - 1 \in 0 .. Frames
        BY <1>2, <4>1, <4>l
      <4> QED
        BY <4>2
    <3> QED
      BY <1>t, <2>0, <3>1 DEF PlayType
  <2>3. repeated' \in BOOLEAN
    BY <1>t, <2>0, Zenon
  <2>4. TypeOK'
    BY <1>t, <1>u, <2>0, <2>1, <2>2, <2>3 DEF TypeOK, FlowSound, PlayType
  <2>5. repeated' => timedOut'
    BY <1>2, <1>s, <1>u, <2>0 DEF Inv, NumbersUnique
  <2>6. ASSUME OnePrompt PROVE OnePrompt'
    <3>1. play'[p].at = "write" /\ \A r \in Play : r # p => play'[r] = play[r]
      BY <1>t, <2>0 DEF PlayType
    <3>2. current' = current /\ p = current
      BY <1>s, <2>0, <2>6 DEF flowVars
    <3> QED
      BY <2>6, <3>1, <3>2 DEF OnePrompt, On
  <2>7. Accounted'
    <3>1. \A r \in Play : On(r)' => On(r)
      BY <1>t, <2>0 DEF PlayType, On, Frame
    <3> QED
      BY <1>u, <2>0, <3>1 DEF Inv, Accounted, flowVars
  <2> QED
    BY <1>u, <2>1, <2>4, <2>5, <2>6, <2>7 DEF Inv, NumbersUnique
<1> QED
  BY <1>1, <1>2

\* A prompt breaks off, and the flow with it if it waits for that prompt.
LEMMA PlayFailsInv ==
  ASSUME Inv, NEW p \in Play, PlayFails(p)
  PROVE  Inv'
<1>t. /\ play \in PlayType /\ used \in BOOLEAN /\ repeated \in BOOLEAN
      /\ stopFlag \in BOOLEAN /\ timedOut \in BOOLEAN /\ running \in BOOLEAN
      /\ behind \subseteq Play
  BY DEF Inv, TypeOK, PlayType
<1>u. UNCHANGED <<node, attempt, gathered, running, stopFlag, used, repeated, timedOut>>
  BY DEF PlayFails
<1>1. FlowSound'
  BY <1>u DEF PlayFails, Inv, FlowSound, Pcs
<1>2. play' \in PlayType
  <2>1. Silent \in [at: {"off", "file", "write"}, left: 0 .. Frames]
    BY FlowAssumption DEF Silent
  <2> QED
    BY <1>t, <2>1 DEF PlayFails, PlayType
<1>b. behind' = behind \ {p}
  BY DEF PlayFails
<1>3. TypeOK'
  BY <1>t, <1>u, <1>b, <1>1, <1>2 DEF TypeOK, FlowSound, PlayType
<1>4. NumbersUnique'
  BY <1>u DEF Inv, NumbersUnique
<1>a. Accounted'
  BY <1>t, <1>u, <1>b DEF Inv, Accounted, On, PlayFails, Silent, PlayType
<1>5. ASSUME OnePrompt PROVE OnePrompt'
  <2>1. p = current
    BY <1>5 DEF OnePrompt, PlayFails
  <2>2. pc' = "ended"
    BY <2>1 DEF PlayFails
  <2>3. \A r \in Play : ~On(r)'
    BY <1>5, <1>t, <2>1 DEF OnePrompt, On, PlayFails, Silent, PlayType
  <2> QED
    BY <2>2, <2>3 DEF OnePrompt
<1> QED
  BY <1>u, <1>1, <1>3, <1>4, <1>5, <1>a DEF Inv

\* A digit stops the player if it ends the wait for a prompt.
LEMMA PressInv ==
  ASSUME Inv, NEW d \in Digit, Press(d)
  PROVE  Inv'
<1>t. /\ play \in PlayType /\ used \in BOOLEAN /\ repeated \in BOOLEAN
      /\ stopFlag \in BOOLEAN /\ timedOut \in BOOLEAN /\ running \in BOOLEAN
      /\ behind \subseteq Play
  BY DEF Inv, TypeOK, PlayType
<1>u. UNCHANGED <<running, play, used, repeated, timedOut, behind>>
  BY DEF Press, observed
<1>1. FlowSound' /\ current' = None
  BY AnsweredSound DEF Press, Inv
<1>2. stopFlag' \in BOOLEAN /\ stopFlag' = (stopFlag \/ pc = "race")
  BY DEF Press
<1>3. TypeOK'
  BY <1>t, <1>u, <1>1, <1>2 DEF TypeOK, FlowSound, PlayType
<1>4. NumbersUnique'
  BY <1>u DEF Inv, NumbersUnique
<1>a. Accounted'
  BY <1>1, <1>2, <1>u, FlowAssumption DEF Press, Inv, FlowSound, Accounted, On
<1>5. ASSUME OnePrompt, ~stopFlag' PROVE OnePrompt'
  <2>1. pc = "listen"
    BY <1>2, <1>5 DEF Press
  <2>2. current = None
    BY <2>1 DEF Inv, FlowSound
  <2> QED
    BY <1>5, <1>1, <1>u, <2>1, <2>2, FlowAssumption DEF OnePrompt, On
<1> QED
  BY <1>u, <1>1, <1>2, <1>3, <1>4, <1>5, <1>a DEF Inv

-----------------------------------------------------------------------------
\* The invariant is inductive.
LEMMA InvStep == Inv /\ [Next]_vars => Inv'
<1> SUFFICES ASSUME Inv, [Next]_vars PROVE Inv'
  OBVIOUS
<1>1. CASE Silently
  BY <1>1, SilentlyInv
<1>2. CASE \E p \in Play : EnterPrompt(p) \/ Retry(p)
  BY <1>2, StartInv
<1>3. CASE \E p \in Play : Frame(p) \/ PlayFails(p)
  BY <1>3, FrameInv, PlayFailsInv
<1>4. CASE \E d \in Digit : Press(d)
  BY <1>4, PressInv
<1>5. CASE UNCHANGED vars
  BY <1>5 DEF vars, flowVars, playerVars, observed, Inv, TypeOK, FlowSound, NumbersUnique,
       OnePrompt, Accounted, On
<1> QED
  BY <1>1, <1>2, <1>3, <1>4, <1>5 DEF Next, Walk, Silently

\* The invariant holds in every state.
LEMMA InvAlways == Spec => []Inv
  BY InitInv, InvStep, PTL DEF Spec

-----------------------------------------------------------------------------
(* The theorems.                                                           *)

\* The executor and the player keep their types.
THEOREM TypesHold == Spec => []TypeOK
<1>1. Inv => TypeOK
  BY DEF Inv
<1> QED
  BY <1>1, InvAlways, PTL

\* Two packets of a call carry the same number only after the timer of a menu
\* has fired during its prompt, in any flow.
THEOREM PacketsNumbered == Spec => []NumbersUnique
<1>1. Inv => NumbersUnique
  BY DEF Inv
<1> QED
  BY <1>1, InvAlways, PTL

\* When the flow is over, a prompt that goes on was left playing by the timer of
\* its menu, or a digit stopped it, which its next packet sees.
THEOREM QuietInTheEnd == Spec => []QuietWhenOver
<1>1. Inv => QuietWhenOver
  <2> SUFFICES ASSUME Inv, pc = "ended", NEW p \in Play, On(p), ~stopFlag PROVE p \in behind
    BY DEF QuietWhenOver
  <2>1. p = current \/ p \in behind
    BY DEF Inv, Accounted
  <2>2. current = None
    BY DEF Inv, FlowSound
  <2> QED
    BY <2>1, <2>2, FlowAssumption
<1> QED
  BY <1>1, InvAlways, PTL
=============================================================================
