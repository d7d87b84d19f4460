\* decode(encode(x)) == x, as core.py and jtf_ops.py say.
CONSTANTS
    JSONDocuments <- MCDocuments
    CanEncode <- Encodable
    Dictionaries <- BuildDictionary
    Encoded <- Encode
    Decoded <- Decode
    Prompts <- SinglePrompts
SPECIFICATION Spec
INVARIANTS
    Lossless
\* The request ends.
CHECK_DEADLOCK FALSE
