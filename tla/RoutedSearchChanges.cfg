SPECIFICATION FairSpec
CONSTANTS
    logs = logs
    shop = shop
    title = title
    body = body
    stamp = stamp
    created = created
    Root = Root
    Unset = Unset
    Nil = Nil
    Index <- MCIndex
    Rank <- MCRank
    Field <- MCField
    Inferable <- MCInferable
    Configs <- MCConfigs
    Mappings <- MCMappings
    Requests <- MCRequests
    Reader = {r1}
    MaxChanges = 1
INVARIANTS TypeOK ModeByPrecedence SinceRespected NothingPartial ProfileTellsMode
PROPERTY StaleProfilesLeave

