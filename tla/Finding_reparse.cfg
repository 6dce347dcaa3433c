SPECIFICATION Spec
CONSTANTS
    Scripts <- MCScripts
    Rates <- MCRates
    BodyLimits <- MCBodyLimits
    Settings <- MCSettings
    Fetchable <- MCFetchable
    Limits <- MCLimits
    MaxNow = 5
INVARIANT AcceptedIsReadable
