SPECIFICATION Spec
CONSTANTS
    Prefixes = {d, p1, p2}
    DefaultRoutes = {d}
    Asns = {a1, a2, x}
    PrivateAsns = {x}
    Ends = {{a1}, {a1, a2, x}, {x}}
    NoPath = NoPath
    EmptyPath = EmptyPath
    NoRoute = NoRoute
INVARIANT SameWay
