----------------------------- MODULE MCRegistry -----------------------------
EXTENDS RegistrySystem

\* "A", "A" followed by a quote, "AB" and "B": one name is the beginning of
\* two others, and one has a character that JSON escapes.
MCTokens == {<<65>>, <<65, 34>>, <<65, 66>>, <<66>>}

=============================================================================
