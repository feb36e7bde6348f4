SPECIFICATION Spec
CONSTANTS
    T = 10
    InbStart = 3
    PostStart = 2
    MarginStart = 2
    MarginMin = 1
    MarginMax = 2
    MarginStep = 1
    MarginDecay = 1
    Slack = 1
    Recover = 1
    ProbeMin = 1
    ProbeMax = 2
    LightInb = {1}
    LightPost = {2}
    LightStart = {0, 1}
    HeavyInb = {3}
    HeavyPost = {9}
    HeavyStart = {2}
    Swaps = {0}
PROPERTIES
    FullRate
