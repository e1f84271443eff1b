SPECIFICATION DocumentsSpec
CONSTANTS
    Name = {n, m}
    Prop = {p, q}
    MaxEvents = 6
    Star = Star
    Id = idp
    NotAList = NotAList
    D = D
    e = e
    x = x
    f = f
    g = g
    i1 = i1
    Instance = {i1, i2}
    Entity = {e, x}
    Set = {e, x}
    Allowed = {e}
    Added = {etag}
    MaxRows = 1
    PropsOf <- MCPropsOf
    SelectOf <- MCSelectOf
    Expand <- MCExpand
    File <- MCFile
    Names <- MCNames
    MaxChars = 2
    a = a
    b = b
    t = t
    u = u
    EntityName <- MCName
    Pattern <- MCPattern
    InstanceNames <- MCInstance
    Default = "default"
    Token = {t, u}
    Source <- MCSource
    Tools <- MCTools
    Exposition <- MCExposition
SYMMETRY MCSymmetry
INVARIANT ParsedAsMeant
CHECK_DEADLOCK FALSE
