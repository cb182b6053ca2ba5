----------------------------- MODULE MCLibrary -----------------------------
EXTENDS Library

LOCAL TLC == INSTANCE TLC

CONSTANTS
  writer, editor, tenant, elsewhere, team,
  lib, held, audit, n1, n2, t1, t2, s1, c1, c2, tp, guest

\* One organization; the editor has no department.
MCOrganization == [o \in Owners |-> IF o = Legacy THEN elsewhere ELSE tenant]
MCDepartment == [u \in Principals |-> IF u = editor THEN NoDepartment ELSE team]

\* One prompt is shipped, the id its legacy row would move to is the other.
MCSeedText == [p \in {lib} |-> t1]
MCHeld == [p \in {lib} |-> held]

\* What a call selects pins a version.
MCSelections == {[prompt |-> lib, number |-> n1, skills |-> {audit}]}

\* A step that pins a version, one that follows whatever is newest, and one that
\* does not follow the prompt it names.
MCStepLists ==
  {{[library |-> TRUE, prompt |-> lib, number |-> n1, skills |-> {audit}],
    [library |-> TRUE, prompt |-> lib, number |-> Latest, skills |-> {}],
    [library |-> FALSE, prompt |-> held, number |-> n1, skills |-> {}]}}

\* A list of the others with a name too long to keep.
MCSharings == {[visibility |-> "private", with |-> {writer, editor, guest}]}

MCSymmetry == TLC!Permutations(Calls)
=============================================================================
