CONSTANTS
    ann = ann  bea = bea
    rm = rm  f = f  home = home  Blank = Blank
    web = web  cli = cli  first = first  second = second  Nobody = Nobody
    Users = {ann, bea}
    Names = {1, 2}
    FileName = 1
    Rules <- MCRules
    File <- MCFile
    Values <- MCValues
    Calls <- MCCalls
    Requests = {web, cli}
    Cli = cli
    Fetches = {first, second}
    MaxLayers = 4
    MaxRules = 5
    MaxBegun = 2
SPECIFICATION DrawnSpec
INVARIANTS
    RefreshedIsInForce
    OrderIsTotal
    ApplyGivesFile
SYMMETRY Alike
CHECK_DEADLOCK FALSE
