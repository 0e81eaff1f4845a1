\* Two scenes, requests of every kind, and callers that answer.
SPECIFICATION MCSpec
CONSTANTS
    government = government
    emergency = emergency
    theme = theme
    hazard = hazard
    predict = predict
    qgis = qgis
    indicator = indicator
    facility = facility
    situation = situation
    Unknown = Unknown
    None = None
    Scenes = {government, emergency}
    Default = government
    Profiles <- MCProfiles
    Fields = {theme, hazard}
    Actions = {predict}
    Capabilities = {qgis}
    Tasks = {indicator, facility, situation}
INVARIANTS NeverAskedTwice FewRounds DispatchedIsComplete
CHECK_DEADLOCK FALSE
