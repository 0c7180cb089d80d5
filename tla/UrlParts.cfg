SPECIFICATION Spec

CONSTANT
    Urls <- MCUrls

INVARIANT
    PartsAsDescribed
