SPECIFICATION Spec
CONSTANTS
    Field <- MCField
    Identity = {"kind"}
    FieldType <- MCFieldType
    Optional = {"state_sensors"}
    Content <- MCContent
    Report <- MCReport
    Custom <- MCCustom
INVARIANT PreselectedIsMerged
PROPERTY ApprovedAsOffered
