SPECIFICATION LexerSpec
CONSTANT Texts <- MCTexts
INVARIANTS SourceTextExact ScanningExact SpansCanBeSliced
\* A text has been scanned, or refused.
CHECK_DEADLOCK FALSE
