--------------------------- MODULE MCControlFlow ---------------------------
\* Model checking the translation of control flow, every construct of the language
\* having a chance in short programs.
EXTENDS ControlFlow

AllTokens == {"FUNCTION", "RETURN", "CALL", "IF", "FOR", "WHILE",
              "NOT", "LPAREN", "AND", "OR", "INVERSE"}
=============================================================================
