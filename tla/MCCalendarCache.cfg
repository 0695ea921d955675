SPECIFICATION Spec
CONSTANTS
    Urls <- MCUrls
    Callers <- MCCallers
    Fetches <- MCFetches
    MaxVersion = 2
INVARIANTS
    TypeOK
    OneFetchPerUrl
PROPERTIES
    NeverOlder
    FeedsStayFetchable
