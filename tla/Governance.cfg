\* Directory trees of five places, one change by others; documents of three
\* containers with a depth limit of two; three invocations over two nonce
\* databases; up to three segments over two keys; four checks; two records;
\* all permissions of three known roles; two levels of values; two routes.
SPECIFICATION MCSpec
CONSTANTS
    top = top
    left = left
    right = right
    one = one
    true = true
    two = two
    brand = brand
    style = style
    passerby = passerby
    trunk = trunk
    list = list
    leaf = leaf
    secret = secret
    open = open
    PathNames = {"in", "out", "a", "b", "..", "nul"}
    Places <- MCPlaces
    Up = ".."
    Reserved = {"nul"}
    MaxSteps = 10
    MaxChanges = 1
    Containers = {top, left, right}
    Scalar = Scalar
    MaxDepth = 2
    Databases = {"nonces", "others"}
    Arguments <- MCArguments
    MaxInvocations = 3
    Keys = {"color", "width"}
    Literals = {one, true, two}
    Equal <- MCEqual
    Owners = {brand, style}
    Strangers = {passerby}
    Checks = {"crs", "seal", "page", "font"}
    Definitions <- MCDefinitions
    Phases = {"before", "after"}
    Checkers = {"lax", "strict", "cleaner"}
    Subjects = {"clean", "dirty"}
    Passes <- MCPasses
    Rewrite <- MCRewrite
    NoChecker = NoChecker
    NoReport = NoReport
    Words = {"river", "bridge"}
    Sources = {"dictionary", "gazette", "remote", "stranger"}
    Registered <- MCRegistered
    Jurisdictions = {"general", "north", "south"}
    Askers = {"public", "internal"}
    Roles = {"viewer", "author", "publisher", "stranger"}
    Namespaces = {"maps", "*", ""}
    Services = {"tiles", "unknown"}
    ApprovedServices = {"tiles"}
    Operations = {"read", "join", "shell", "unlisted"}
    AllowedOperations = {"read", "join"}
    ForbiddenOperations = {"shell"}
    Parts = {trunk, list, leaf}
    Texts = {secret, open}
    Names = {"brief", "plan", "token", "item"}
    SensitiveNames = {"token"}
    Items = {"template", "symbol"}
    Versions = {"v1"}
    Contents = {"map", "icon"}
    Routes = {"plan", "compose"}
    Handlers = {"first", "second"}
    MaxNested = 2
    SchemaIds = {"urn:a", "urn:b", "urn:c"}
    Absent = Absent
INVARIANTS
    TypeOK
    AcceptedIsInside AcceptedIsReal PlainIsAccepted
    LoadedIsSound RefusalsAreRight
    SuccessIsEarned SpentIsSuccessOrLost VerifiedAgainOnlyAtExpiry
    MergedIsAttributed RefusalsAreOrderFree
    
    AnswersAreExact
    ProbeIsEarned
    PermissionsAreMonotone ShownIsOpen
    TablesAreWhole
CHECK_DEADLOCK FALSE
