SPECIFICATION Spec
CONSTANTS
    author1 = author1
    author2 = author2
    Author <- Authors
    Key <- Keys
    CodePointRank <- CodePoints
    Utf16Rank <- Utf16Units
    ArrayIndex <- Indices
    Astral = {"astral"}
    HighBmp = {"wide"}
    Char <- Chars
    Spelling <- Spellings
    Value <- Values
    Depth <- Depths
    Input <- Inputs
    MaxKeys = 2
SYMMETRY Symmetry
INVARIANT DigestsStayIdentical
