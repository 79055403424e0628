---------------------------- MODULE MCOAuthRefresh ----------------------------
EXTENDS OAuthRefresh, TLC

\* Redeemers are interchangeable, and so are tokens.
Symmetric == Permutations(Redeemers) \cup Permutations(Tokens)
=============================================================================
