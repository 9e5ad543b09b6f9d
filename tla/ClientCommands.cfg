CONSTANTS
    Names = {n1, n2}
    NoName = NoName
    Accounts = {n1}
    Kinds = {"Login", "Register", "Delete", "Logoff", "Send", "Echo", "Exit"}
    MaxCommands = 2
    MaxExpiries = 1
SPECIFICATION FairSpec
INVARIANTS TypeOK SessionIsTheUsers CredentialsBelongTogether
PROPERTIES AnswersFindTheirCommand CallbacksAreUsedUp ExpiryIsNoticed
CHECK_DEADLOCK FALSE
