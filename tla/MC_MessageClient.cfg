CONSTANTS
    NumMsgs = 4
    Cap = 2
    MaxParts = 3
    NoData = NoData
    LinkMeta = LinkMeta
    LinkImage = LinkImage

SPECIFICATION Spec

INVARIANT TypeOK BodiesInPlace ReturnedIdAccepted

