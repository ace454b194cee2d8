SPECIFICATION Spec
CONSTANTS
    r1 = r1
    Calls = {"c1", "c2"}
    Repos = {r1}
    Configs <- MCConfigs
    Margin = 1
    None = None
    MaxTime = 2
    MaxCalls = 2
INVARIANTS TokensInv CredentialsStay RefusalIsReal VerifiedMayPush
PROPERTIES CallsAnswered
CHECK_DEADLOCK FALSE
