CONSTANTS
    basic = basic
    pro = pro
    enterprise = enterprise
    Requests = {r1, r2, r3, r4}
    Keys = {k1, k2}
    Tiers <- MCTiers
    Limits <- MCLimits
    Window = 2
    MaxTime = 4
SPECIFICATION Spec
PROPERTY IsSlidingWindow
SYMMETRY Alike
