\* One handle and one goroutine besides other clients, which change
\* the catalog once; the second index is not on the allowlist.
CONSTANTS
    i1 = i1
    i2 = i2
    a1 = a1
    Index = {i1, i2}
    Alias = {a1}
    Hidden = {}
    Allow = {i1, a1}
    Global <- MCGlobal
    Overrides <- MCOverrides
    Flags <- MCFlags
    Handle = {h1}
    Proc = {t1}
    None = None
    MaxVersions <- MCMaxVersions
    MaxChanges = 1
SPECIFICATION FairSpec
INVARIANTS TypeOK AllowlistHolds SaveStaysHome PoliciesHold DefiniteAnswers
PROPERTIES StaleListsLeave
