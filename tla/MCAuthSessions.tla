--------------------------- MODULE MCAuthSessions ---------------------------
EXTENDS AuthSessions, TLC

CONSTANTS l1, l2, l3, t1, t2, codex, opencode
MCLogins == {l1, l2, l3}
MCTerminals == {t1, t2}
MCScopes == {codex, opencode}
Symmetry == Permutations(MCLogins) \cup Permutations(MCTerminals)
              \cup Permutations(MCScopes)
=============================================================================
