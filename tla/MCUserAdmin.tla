---------------------------- MODULE MCUserAdmin ----------------------------
EXTENDS UserAdmin, TLC

\* Users who are not seeded are interchangeable; every property of the run is
\* a safety property and treats them alike.
Newcomers == Permutations(Users \ Seeded)
=============================================================================
