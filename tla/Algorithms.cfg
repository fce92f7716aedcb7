\* Two fields of up to three characters, strings of up to six bytes (base32 comes
\* round after five), and every directory graph on three folders, or on two with
\* two entries each.  Every run of the functions ends.
SPECIFICATION Answering
CONSTANTS
    Char <- MCChar
    FieldLists <- MCFieldLists
    ByteStrings <- MCByteStrings
    Walks <- MCWalks
    MaxText = 3
    Bytes = {0, 1, 129, 255}
    MaxBytes = 6
    Folder = {root, sample, subs}
    Root = root
    Twins = {root, sample}
    MaxDepth = 3
INVARIANTS
    ConversionsAreExact
    WalkIsSound
CHECK_DEADLOCK FALSE
