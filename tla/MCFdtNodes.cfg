CONSTANTS
  Names = {"", "a"}
  Properties <- MCProperties
  MaxTokens = 9
  MaxNodes = 3
  MaxProps = 2
SPECIFICATION TreeSpec
INVARIANTS
  TreeIsText
  AcceptsExactly
