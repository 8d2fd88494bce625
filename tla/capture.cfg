SPECIFICATION Spec
CONSTANTS
    Handlers = {1, 2}
    Kinds = {"meta", "spotMeta", "metaAndAssetCtxs", "exchange", "unreadable"}
    MaxRequests = 4
    MaxClears = 1
INVARIANTS TypeOK SkipsTwo FixturesComplete
PROPERTIES LogRefined Served
