SPECIFICATION HexSpec
CONSTANTS
    Chars = {"B", "f", "space", "newline", "/", "*", "other"}
    Tokens <- MCTokens
    MaxChars = 6
    MaxTokens = 2
INVARIANT BlockCommentsEnd
