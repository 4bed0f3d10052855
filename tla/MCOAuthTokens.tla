---------------------------- MODULE MCOAuthTokens ----------------------------
\* OAuthTokens for TLC: codes, tokens and requests are interchangeable.
EXTENDS OAuthTokens, TLC

Symmetry == Permutations(Code) \cup Permutations(Tok) \cup Permutations(Req)
=============================================================================
