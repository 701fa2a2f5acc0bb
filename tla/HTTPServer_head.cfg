\* Registration and dispatch by method over two patterns that overlap.
CONSTANTS
    Paths <- MCPaths
    Match <- MCMatch
    ErrorStatuses <- MCErrorStatuses
    BadPatterns = {}
    MemfsStates <- MCMemfsStates
    IndexOf <- MCIndexOf
    Endpoints <- MCHeadEndpoints
    Origins <- MCOrigins
    AllowOrigins <- MCAllowOrigins
    Wildcard = star
    None = none
    ab = ab  ac = ac  aid = aid  root = root  ri = ri  rii = rii  dbl = dbl  o1 = o1  o2 = o2  star = star  none = none
    Evaluators <- MCEvaluators
    MaxRoutes = 2
    MaxEvals = 1
SPECIFICATION Spec
INVARIANT HeadMirrorsGet
