\* One foreground process, the single-writer pattern the seqlock is made for.
SPECIFICATION AnchorSpec
CONSTANTS
    Docs = {editor}
    Mortal = {editor}
    Fields = {sentenceStart, syllable}
    Contexts = {ctx1, ctx2}
    Cleared = Cleared
    MaxWrites = 5
SYMMETRY ContextSymmetry
PROPERTY IsRegister
CHECK_DEADLOCK FALSE
