SPECIFICATION Spec
CONSTANTS
    Fabrics <- AllFabrics
    NoName = NoName
    SystemId = "sys"
INVARIANTS
    RenderingIsStable
    LinksAsSpecified
    DomainsAsSpecified
