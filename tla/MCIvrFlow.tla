------------------------------ MODULE MCIvrFlow ------------------------------
(* IvrFlow with a flow of every type of node and a way back to its menu.   *)
EXTENDS IvrFlow, TLC

CONSTANTS hello, menu, hours, pin, hook, team, more, bye, gone, ask, odd, one, two

Plain == [type |-> "greeting", audio |-> FALSE, interruptible |-> FALSE, timed |-> TRUE,
          options |-> {}, retries |-> 0]
FlowConfig ==
    hello :> [Plain EXCEPT !.audio = TRUE, !.interruptible = TRUE]
    @@ menu :> [Plain EXCEPT !.type = "menu", !.audio = TRUE, !.options = {one, two},
                             !.retries = 2]
    @@ hours :> [Plain EXCEPT !.type = "timing"]
    @@ pin :> [Plain EXCEPT !.type = "gather", !.audio = TRUE, !.retries = 2]
    @@ hook :> [Plain EXCEPT !.type = "http_callback"]
    @@ team :> [Plain EXCEPT !.type = "transfer"]
    @@ more :> [Plain EXCEPT !.type = "goto_flow"]
    @@ bye :> [Plain EXCEPT !.type = "hangup", !.audio = TRUE]
    @@ odd :> [Plain EXCEPT !.type = "unknown"]
    @@ gone :> [Plain EXCEPT !.type = "menu", !.options = {one}, !.retries = 1]
    @@ ask :> [Plain EXCEPT !.type = "menu", !.timed = FALSE, !.retries = 1]

To(f) == [o \in Outcome |-> IF o \in DOMAIN f THEN f[o] ELSE None]
FlowEdge ==
    hello :> To("default" :> menu)
    @@ menu :> To(one :> hours @@ two :> pin @@ "max_retries" :> gone)
    @@ hours :> To("in_hours" :> team @@ "out_of_hours" :> bye)
    @@ pin :> To("default" :> hook @@ "max_retries" :> ask)
    @@ hook :> To("2xx" :> more @@ "non2xx" :> odd)
    @@ team :> To("default" :> menu)
    @@ more :> To("goto_flow" :> bye)
    @@ bye :> To(<<>>)
    @@ odd :> To(<<>>)
    @@ gone :> To(one :> menu @@ "max_retries" :> bye)
    @@ ask :> To(one :> menu)
=============================================================================
