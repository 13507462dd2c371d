SPECIFICATION Spec
CONSTANTS
    MaxTime = 3
    MaxGrants = 2
    Rates = {1, 2}
    Shares = 2
    Handlers = {h1}
INVARIANTS QuoteCoversWindow  ServedOnlyWhilePaid
