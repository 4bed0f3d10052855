------------------------------ MODULE MCAccounts ------------------------------
\* Accounts for TLC: users, codes, passkeys, sessions and ceremonies are
\* interchangeable.
EXTENDS Accounts, TLC

Symmetry == Permutations(User) \cup Permutations(Code) \cup Permutations(Key)
                \cup Permutations(Sess) \cup Permutations(Flow)
=============================================================================
