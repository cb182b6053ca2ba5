---------------------------- MODULE MCContacts ----------------------------
EXTENDS Contacts

CONSTANTS
  clerk, manager, guest, demo, elsewhere, legacy, finance,
  vendor, plain, upper, other, l1

\* A clerk and a manager of one department, and the manager of another
\* organization; an address written in two ways.
MCOrganization == [u \in Users |-> IF u = guest THEN elsewhere ELSE demo]
MCDepartment == [u \in Users |-> IF u = guest THEN NoDepartment ELSE finance]
MCAddress == [s \in Spellings |-> IF s = other THEN other ELSE plain]
MCSeedSpelling == [i \in {vendor} |-> plain]
=============================================================================
