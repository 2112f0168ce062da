SPECIFICATION Spec
CONSTANTS
    Contexts = {c1, c2}
    OneContext = {c1}
    ProfileLists <- MCProfileLists
    AuthModes = {"optional"}
    CallbackData = {d1}
    MaxConfigs = 2
    MaxSessions = 2
    OpensslProfileLists <- MCOpensslProfileLists
    OpensslConfigs = 1
    OpensslSessions = 1
SYMMETRY Symmetry
INVARIANTS LifetimesKept SessionData ConfigAsAsked CodesComeBack
