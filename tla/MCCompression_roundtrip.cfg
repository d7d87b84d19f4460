\* Every small document through encoder, dictionary and decoder, and mixed prompts.
CONSTANTS
    JSONDocuments <- MCDocuments
    CanEncode <- Encodable
    Dictionaries <- BuildDictionary
    Encoded <- Encode
    Decoded <- Decode
    Prompts <- MCPrompts
SPECIFICATION Spec
INVARIANTS
    PlainDocumentsReadBack
    OnlyBlocksAreReplaced
    PotentialIsAFloor
\* The request ends.
CHECK_DEADLOCK FALSE
