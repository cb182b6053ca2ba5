---------------------------- MODULE MCDocuments ----------------------------
EXTENDS Documents

CONSTANTS alice, bob, tenant

\* An owner and a manager who processes documents too, in one organization.
MCOrganization == [o \in {alice, bob} |-> tenant]
=============================================================================
