SPECIFICATION FairSpec
CONSTANTS
    Users = {1, 2, 3, 4}
    Teams = {1, 2}
    Roles = {0, 1}
    Txs = {x1, x2}
    Lists <- MCLists
    InitAccounts = {1, 2, 3}
    InitAdmins = {1, 2}
    InitTeams = {1}
    InitLists <- MCInitLists
    MaxOps = 2
INVARIANTS
    OwnerAdministers
    AdministratorRemains
PROPERTIES
    ChangesAreAuthorised
    TransactionsEnd
CHECK_DEADLOCK FALSE
