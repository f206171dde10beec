\* Every combination of present, null and missing schema fields at four places.
CONSTANTS
    Blank = blank
    Target = t1
    UUID = u1
    Fields <- MCFields
SPECIFICATION Spec
INVARIANTS
    TypeOK
    MetadataIsMostSpecific
    CommitsTheRecord
\* The record is applied or refused.
CHECK_DEADLOCK FALSE
