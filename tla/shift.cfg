SPECIFICATION FairSpec
CONSTANTS
    c1 = c1  c2 = c2  r1 = r1  r2 = r2
    Codes = {c1, c2}
    NoCode = NoCode
    Requests = {r1, r2}
    MaxDisturbances = 1
    Mixes = {{"SetAvailability", "UpdateLocation", "Poll", "Fail", "Restart", "Review"},
             {"SetAvailability", "UpdateLocation", "Poll", "Login"},
             {"SetAvailability", "UpdateLocation", "Poll", "AcceptOffer"},
             {"AcceptOffer", "Press", "CustomerPoll", "Poll", "OtpExpires", "Fail"}}
INVARIANTS
    TypeOK
    IndexFollowsAvailability
PROPERTIES
    IndexRecovers
    AppFollows
    StartIsPossible
