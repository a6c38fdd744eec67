\* Two computers, a command line on the first, one key of the account, one
\* command and one aborted pass.  With the bounds spent and the key withdrawn
\* nobody need do anything.
CONSTANTS
    w1 = w1
    w2 = w2
    x1 = x1
    c1 = c1
    c2 = c2
    Web = {w1, w2}
    Cli = {x1}
    Computer = {c1, c2}
    Home <- HomeOf
    Key <- Keys
    Local <- First
    None = None
    MaxCommands = 1
    MaxAborts = 1
SPECIFICATION FairSpec
INVARIANTS WebAuthTypeOK OneHolder UnverifiedOnlyIfAborted
PROPERTIES ReportedAuthHappened UndisturbedPassAuthenticates
CHECK_DEADLOCK FALSE
