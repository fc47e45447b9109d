SPECIFICATION ServicesSpec
CONSTANTS
    bot = bot
    trial = trial
    Urls = 2
    Retries = 3
    Timeout = 15
    Backoff <- Backoffs
    Longest = 120
    Patience = 5
    MaxFailures = 3
    MaxTurns = 0
    Programs = {bot, trial}
    NoGrant = NoGrant
    MaxLogins = 2
    MaxIssued = 3
    MaxLost = 0
    Bot = bot
    Gap = 60
    MaxAge = 2
INVARIANT NoTokenIsReplayed
