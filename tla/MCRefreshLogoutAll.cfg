SPECIFICATION Spec
CONSTANTS
    Tokens = {t1, t2}
    Users = {u1}
    Requests = {r1, r2, r3}
    NoToken = NoToken
    NoUser = NoUser
    NoRequest = NoRequest
    LoggedIn = {}
    LoggedInUser = u1
    Last = t2
    Expiring = {t1}
INVARIANT LogoutAllEndsEveryLogin
CHECK_DEADLOCK FALSE
