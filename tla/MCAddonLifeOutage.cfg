CONSTANTS
    Account = {owner, member}
    NoAccount = NoAccount
    Denied = {member}
SPECIFICATION AddonSpec
INVARIANT OutageSurvived
