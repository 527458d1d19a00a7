\* One tab, one account.
CONSTANTS
    None = None
    testnet = testnet
    public = public
    Tab = {t1}
    Account = {a1}
    Network = {testnet, public}
    Expected = testnet
    MaxChallenges = 1
SPECIFICATION Spec
PROPERTIES
    SignedInRequestsAreServed
