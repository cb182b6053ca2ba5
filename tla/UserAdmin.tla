----------------------------- MODULE UserAdmin -----------------------------
(***************************************************************************)
(* core/users.py: users, role profiles and who may change them.  A role    *)
(* profile belongs to one organization or, as the shipped ones do, to all. *)
(* Its grants matter here only by the wildcard that makes an               *)
(* administrator; a user's deviations only by a denied user.manage.        *)
(*                                                                         *)
(* Every method runs under the registry's lock and without an await: one   *)
(* request is one step.  A name or description carries nothing, and the    *)
(* shipped profiles without the wildcard are one, Viewer.                  *)
(***************************************************************************)
EXTENDS FiniteSets

CONSTANTS
  Users,           \* user ids
  Organizations,
  Profiles,        \* role profile ids
  Administrator,   \* the shipped profile with the wildcard
  Viewer,          \* the shipped profile a tombstone carries
  Seeded,          \* the seeded users
  FirstAdmin,      \* the seeded administrator
  Home,            \* the seeded users' organization
  Unassigned,      \* legacy-unassigned, an organization like any other but for a start
  Global,          \* the organization of a profile open to all of them
  Absent           \* what a store returns for an id it does not hold

ASSUME SeedAssumption ==
  /\ {Administrator, Viewer} \subseteq Profiles /\ Administrator # Viewer
  /\ FirstAdmin \in Seeded /\ Seeded \subseteq Users
  /\ {Home, Unassigned} \subseteq Organizations /\ Home # Unassigned
  /\ Global \notin Organizations

VARIABLES profile, user

userVars == <<profile, user>>

Owners == Organizations \cup {Global}
Shipped == {Administrator, Viewer}

ProfileRows == [org : Owners, wildcard : BOOLEAN]
UserRows ==
  [org : Organizations, profile : Profiles,
   status : {"active", "suspended", "deleted"}, denied : BOOLEAN]

ASSUME AbsentAssumption == Absent \notin ProfileRows \cup UserRows

Tombstone(row) ==
  [row EXCEPT !.profile = Viewer, !.status = "deleted", !.denied = FALSE]

UsersTypeOK ==
  /\ profile \in [Profiles -> ProfileRows \cup {Absent}]
  /\ user \in [Users -> UserRows \cup {Absent}]
  /\ \A u \in Users : user[u] # Absent /\ user[u].status = "deleted" =>
                        user[u] = Tombstone(user[u])

ShippedRow(p) == [org |-> Global, wildcard |-> p = Administrator]

UsersInit ==
  /\ profile = [p \in Profiles |-> IF p \in Shipped THEN ShippedRow(p) ELSE Absent]
  /\ user = [u \in Users |->
               IF u \notin Seeded THEN Absent
               ELSE [org |-> Home, status |-> "active", denied |-> FALSE,
                     profile |-> IF u = FirstAdmin THEN Administrator ELSE Viewer]]

-----------------------------------------------------------------------------
\* The console asks for the principal's organization; only code inside the
\* deployment asks system-wide, and its organization then counts for nothing.
Callers ==
  [org : Organizations, wide : {FALSE}] \cup {[org |-> Home, wide |-> TRUE]}

Administers(who, org) == who.wide \/ who.org = org

GovernsProfile(who, p) ==
  IF profile[p].org = Global THEN who.wide ELSE Administers(who, profile[p].org)

\* _is_active_administrator, with the profiles as they are or as they would be.
IsActiveAdministrator(row, profiles) ==
  /\ row.status = "active"
  /\ profiles[row.profile] # Absent /\ profiles[row.profile].wildcard
  /\ ~row.denied

Administrators(org, profiles) ==
  {u \in Users : user[u] # Absent /\ user[u].org = org
                                  /\ IsActiveAdministrator(user[u], profiles)}

AnotherAdministers(u) == Administrators(user[u].org, profile) \ {u} # {}

\* A profile a user of org may carry.
Fits(p, org) == profile[p] # Absent /\ profile[p].org \in {Global, org}

InUse(p) == \E u \in Users : user[u] # Absent /\ user[u].profile = p

-----------------------------------------------------------------------------
(* Profiles.                                                                *)

\* Without system-wide authority a profile meant for all becomes the caller's.
CreateProfile(who, p, org, wildcard) ==
  /\ profile[p] = Absent
  /\ LET owner == IF org = Global /\ ~who.wide THEN who.org ELSE org
     IN  /\ owner # Global => Administers(who, owner)
         /\ profile' = [profile EXCEPT ![p] = [org |-> owner, wildcard |-> wildcard]]
  /\ UNCHANGED user

Regraded(p, wildcard) == [profile EXCEPT ![p] = [@ EXCEPT !.wildcard = wildcard]]

\* Mistake: the organizations are counted under the old grants.
UpdateProfileUnderOldGrants(who, p, wildcard) ==
  /\ profile[p] # Absent /\ GovernsProfile(who, p)
  /\ profile[p].wildcard /\ ~wildcard =>
       \A u \in Users :
         user[u] # Absent /\ user[u].profile = p /\ user[u].status = "active" =>
           Administrators(user[u].org, profile) # {}
  /\ profile' = Regraded(p, wildcard)
  /\ UNCHANGED user

\* A profile that loses the wildcard must leave every organization that uses
\* it an administrator.
UpdateProfile(who, p, wildcard) ==
  /\ profile[p] # Absent /\ GovernsProfile(who, p)
  /\ profile[p].wildcard /\ ~wildcard =>
       \A u \in Users :
         user[u] # Absent /\ user[u].profile = p /\ user[u].status = "active" =>
           Administrators(user[u].org, Regraded(p, wildcard)) # {}
  /\ profile' = Regraded(p, wildcard)
  /\ UNCHANGED user

\* Mistake: only active users count as users of the profile.
DeleteUnlessActive(who, p) ==
  /\ profile[p] # Absent /\ GovernsProfile(who, p)
  /\ \A u \in Users : user[u] # Absent /\ user[u].profile = p => user[u].status # "active"
  /\ profile' = [profile EXCEPT ![p] = Absent]
  /\ UNCHANGED user

DeleteProfile(who, p) ==
  /\ profile[p] # Absent /\ GovernsProfile(who, p)
  /\ ~InUse(p)
  /\ profile' = [profile EXCEPT ![p] = Absent]
  /\ UNCHANGED user

-----------------------------------------------------------------------------
(* Users.                                                                   *)

CreateUser(who, u, org, p) ==
  /\ Administers(who, org)
  /\ Fits(p, org)
  /\ user[u] = Absent
  /\ user' = [user EXCEPT ![u] = [org |-> org, profile |-> p, status |-> "active",
                                  denied |-> FALSE]]
  /\ UNCHANGED profile

\* A change that takes away an organization's administrator needs another.
UpdateUser(who, u, org, p, denied) ==
  /\ user[u] # Absent /\ user[u].status # "deleted"
  /\ Administers(who, user[u].org)
  /\ org # user[u].org => who.wide
  /\ Fits(p, org)
  /\ LET updated == [user[u] EXCEPT !.org = org, !.profile = p, !.denied = denied]
         remains == org = user[u].org /\ IsActiveAdministrator(updated, profile)
     IN  /\ IsActiveAdministrator(user[u], profile) /\ ~remains => AnotherAdministers(u)
         /\ user' = [user EXCEPT ![u] = updated]
  /\ UNCHANGED profile

SuspendUser(who, u) ==
  /\ user[u] # Absent /\ user[u].status = "active"
  /\ Administers(who, user[u].org)
  /\ IsActiveAdministrator(user[u], profile) => AnotherAdministers(u)
  /\ user' = [user EXCEPT ![u].status = "suspended"]
  /\ UNCHANGED profile

\* Mistake: a tombstone counts as suspended.
ReactivateInactive(who, u) ==
  /\ user[u] # Absent /\ user[u].status # "active"
  /\ Administers(who, user[u].org)
  /\ user' = [user EXCEPT ![u].status = "active"]
  /\ UNCHANGED profile

ReactivateUser(who, u) ==
  /\ user[u] # Absent /\ user[u].status = "suspended"
  /\ Administers(who, user[u].org)
  /\ user' = [user EXCEPT ![u].status = "active"]
  /\ UNCHANGED profile

\* The id stays taken by a tombstone.
DeleteUser(who, u) ==
  /\ user[u] # Absent /\ user[u].status # "deleted"
  /\ Administers(who, user[u].org)
  /\ IsActiveAdministrator(user[u], profile) => AnotherAdministers(u)
  /\ user' = [user EXCEPT ![u] = Tombstone(@)]
  /\ UNCHANGED profile

-----------------------------------------------------------------------------
ComesHome(u) == u \in Seeded /\ user[u] # Absent /\ user[u].org = Unassigned

\* A start ships the missing profiles again and gives the shipped ones the
\* grants they came with.  The seeded users' rows, tombstones too, are never
\* missing; one that stands in Unassigned goes Home, unchecked.
Restart ==
  /\ profile' = [p \in Profiles |->
                   IF p \notin Shipped THEN profile[p]
                   ELSE IF profile[p] = Absent THEN ShippedRow(p)
                   ELSE [profile[p] EXCEPT !.wildcard = @ \/ ShippedRow(p).wildcard]]
  /\ user' = [u \in Users |-> IF ComesHome(u) THEN [user[u] EXCEPT !.org = Home]
                                             ELSE user[u]]

UsersNext ==
  \/ \E who \in Callers :
       \/ \E p \in Profiles, org \in Owners, wildcard \in BOOLEAN :
            CreateProfile(who, p, org, wildcard)
       \/ \E p \in Profiles, wildcard \in BOOLEAN : UpdateProfile(who, p, wildcard)
       \/ \E p \in Profiles : DeleteProfile(who, p)
       \/ \E u \in Users, org \in Organizations, p \in Profiles :
            \/ CreateUser(who, u, org, p)
            \/ \E denied \in BOOLEAN : UpdateUser(who, u, org, p, denied)
       \/ \E u \in Users : SuspendUser(who, u) \/ ReactivateUser(who, u) \/ DeleteUser(who, u)
  \/ Restart

UsersSpec == UsersInit /\ [][UsersNext]_userVars

-----------------------------------------------------------------------------
\* An organization that has an active administrator always keeps one, however
\* suspensions, deletions, moves, deviations and profile edits are combined
\* (users.py:372-389).  The one exception: a start takes the seeded users out
\* of Unassigned, the last administrators among them too (users.py:279-285).
KeepsAnAdministrator ==
  [][\A org \in Organizations :
       Administrators(org, profile) # {} =>
         \/ Administrators(org, profile)' # {}
         \/ \A u \in Administrators(org, profile) :
              ComesHome(u) /\ user'[u].org = Home /\ org = Unassigned]_userVars

\* A seeded user a start moved Home with a profile that only Unassigned may use.
CarriedOver(u) ==
  LET p == user[u].profile
  IN  u \in Seeded /\ user[u].org = Home /\ profile[p] # Absent /\ profile[p].org = Unassigned

\* The profile of every user that is not deleted exists, and is open to the
\* user's organization unless a start carried it over: no update, move or
\* deletion of either leaves a user without (users.py:361-370, 505-506).
UserProfileFits ==
  \A u \in Users :
    user[u] # Absent /\ user[u].status # "deleted" =>
      Fits(user[u].profile, user[u].org) \/ CarriedOver(u)

\* A deleted user's id is never reused, revived or edited (users.py:543-544,
\* 596-597, 625-626); the most that happens to its row is that a start takes a
\* seeded one from Unassigned Home (users.py:279-285).
TombstonesAreFinal ==
  [][\A u \in Users :
       user[u] # Absent /\ user[u].status = "deleted" =>
         \/ user'[u] = user[u]
         \/ ComesHome(u) /\ user'[u] = [user[u] EXCEPT !.org = Home]]_userVars
=============================================================================
