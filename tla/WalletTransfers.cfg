SPECIFICATION Spec
CONSTANTS
    gold = gold
    goldX = goldX
    gold1 = gold1
    gold2 = gold2
    art = art
    item = item
    None = None
    NoID = NoID
    GroupOf <- MCGroupOf
    Collectibles = {item}
    MaxAmount = 7
    Hrp <- MCHrp
    ExactOf <- MCExactOf
    Coins <- MCCoins
    RecipientLists <- MCRecipientLists
    SingleSends <- MCSingleSends
    InteractiveAsks <- MCInteractiveAsks
    Burns <- MCBurns
    Advanced = TRUE
    MaxFundings = 2
    MaxCommits = 2
    MaxTransfers = 2
    MaxSetups = 2
INVARIANTS
    PaidOnce
    PaidAsAsked
    PublishedIsCoherent
    WalletViewsAgree
CHECK_DEADLOCK FALSE
