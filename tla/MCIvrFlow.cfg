SPECIFICATION FairSpec
CONSTANTS
    hello = hello
    menu = menu
    hours = hours
    pin = pin
    hook = hook
    team = team
    more = more
    bye = bye
    gone = gone
    ask = ask
    odd = odd
    one = one
    two = two
    Node = {hello, menu, hours, pin, hook, team, more, bye, gone, ask, odd}
    First = hello
    Config <- FlowConfig
    Edge <- FlowEdge
    Digit = {one, two}
    Play = {p1, p2, p3}
    Frames = 2
    None = None
INVARIANTS
    NumbersUnique
    QuietWhenOver
PROPERTIES
    NodesEnd
CHECK_DEADLOCK FALSE
