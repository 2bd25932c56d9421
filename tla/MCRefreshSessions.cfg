SPECIFICATION AfterLoginsSpec
CONSTANTS
    Tokens = {t1, t2, t3, t4}
    Users = {u1}
    Requests = {1, 2, 3}
    NoToken = NoToken
    NoUser = NoUser
    NoRequest = 0
    LoggedIn = {t1, t2}
    LoggedInUser = u1
    Last = t4
    Expiring = {t1}
INVARIANTS
    TypeOK
    SingleUse
    OneLiveSessionPerLogin
    LogoutRevokesWhatItSaw
PROPERTIES
    Lifecycle
    EveryRequestAnswered
CHECK_DEADLOCK FALSE
