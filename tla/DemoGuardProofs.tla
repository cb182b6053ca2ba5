-------------------------- MODULE DemoGuardProofs --------------------------
(***************************************************************************)
(* What DemoGuard promises, for any limits, windows and visitors.          *)
(***************************************************************************)
EXTENDS DemoGuard, SequenceTheorems, FiniteSetTheorems, TLAPS

FiniteRows ==
  \A k \in Kinds : /\ IsFiniteSet(global[k])
                   /\ \A w \in Workspaces : IsFiniteSet(shares[w][k])

\* A time stamp tells its charge.
Distinct ==
  /\ \A c \in charges : c.at <= now
  /\ \A c, d \in charges : c.at = d.at => c = d

\* What was charged within the window is in the rows.
Covered ==
  \A c \in charges : c.at + Window > now =>
    /\ c.at \in global[c.kind]
    /\ c \notin forgotten => c.at \in shares[c.workspace][c.kind]

IInv ==
  /\ TypeOK /\ FiniteRows /\ Distinct /\ Covered
  /\ RowsAreCharges /\ ServiceCeiling /\ ShareUnlessForgotten

\* The charges of cs that a window reaching back from t still holds.
Within(cs, t) == {c \in cs : c.at + Window > t}

-----------------------------------------------------------------------------
(* Counting.                                                                *)

\* Charges whose time stamps are among finitely many rows are no more than these.
LEMMA RowsBound ==
  ASSUME IInv, NEW cs \in SUBSET charges, NEW rows \in SUBSET Nat, IsFiniteSet(rows),
         NEW t \in Nat, \A c \in Within(cs, t) : c.at \in rows
  PROVE  /\ IsFiniteSet(Within(cs, t)) /\ IsFiniteSet(Recent(rows, t))
         /\ Cardinality(Within(cs, t)) \in Nat /\ Cardinality(Recent(rows, t)) \in Nat
         /\ Cardinality(Within(cs, t)) <= Cardinality(Recent(rows, t))
<1> DEFINE f == [c \in Within(cs, t) |-> c.at]
<1>1. IsFiniteSet(Recent(rows, t))
  BY FS_Subset DEF Recent
<1>2. f \in Injection(Within(cs, t), Recent(rows, t))
  <2>1. \A c \in Within(cs, t) : c.at \in Recent(rows, t)
    BY DEF Within, Recent
  <2>2. \A c, d \in Within(cs, t) : c.at = d.at => c = d
    BY DEF Within, IInv, Distinct
  <2> QED BY <2>1, <2>2 DEF Injection, IsInjective
<1> HIDE DEF f
<1> QED BY <1>1, <1>2, FS_Injection, FS_CardinalityType

LEMMA SmallerCount ==
  ASSUME NEW S, NEW T, IsFiniteSet(T), S \subseteq T, NEW n \in Nat, Cardinality(T) <= n
  PROVE  Cardinality(S) <= n
  BY FS_Subset, FS_CardinalityType

\* One more than what was below the limit is within it.
LEMMA OneMore ==
  ASSUME NEW S, NEW T, NEW x, IsFiniteSet(T), S \subseteq T \cup {x},
         NEW m \in Nat, NEW n \in Nat, Cardinality(T) <= m, m < n
  PROVE  Cardinality(S) <= n
<1>1. /\ IsFiniteSet(T \cup {x})
      /\ Cardinality(T \cup {x}) = IF x \in T THEN Cardinality(T) ELSE Cardinality(T) + 1
  BY FS_AddElement
<1>2. Cardinality(T) \in Nat
  BY FS_CardinalityType
<1>3. IsFiniteSet(S) /\ Cardinality(S) <= Cardinality(T \cup {x}) /\ Cardinality(S) \in Nat
  BY <1>1, FS_Subset, FS_CardinalityType
<1> QED BY <1>1, <1>2, <1>3

\* The charges of a kind, and those of a workspace, are within its rows.
LEMMA OfBound ==
  ASSUME IInv, NEW k \in Kinds, NEW t \in Nat, now <= t
  PROVE  /\ IsFiniteSet(Within(Of(k), t)) /\ Cardinality(Recent(global[k], t)) \in Nat
         /\ Cardinality(Within(Of(k), t)) <= Cardinality(Recent(global[k], t))
<1>1. \A c \in Within(Of(k), t) : c \in charges /\ c.kind = k /\ c.at + Window > now
  BY GuardAssumption DEF Within, Of, IInv, TypeOK, Leases
<1>2. \A c \in Within(Of(k), t) : c.at \in global[k]
  BY <1>1 DEF IInv, Covered
<1> QED BY <1>2, RowsBound DEF Of, IInv, TypeOK, FiniteRows

LEMMA SpentBound ==
  ASSUME IInv, NEW w \in Workspaces, NEW k \in Kinds, NEW t \in Nat, now <= t
  PROVE  /\ IsFiniteSet(Within(Spent(w, k), t)) /\ Cardinality(Recent(shares[w][k], t)) \in Nat
         /\ Cardinality(Within(Spent(w, k), t)) <= Cardinality(Recent(shares[w][k], t))
<1>1. \A c \in Within(Spent(w, k), t) :
        c \in charges /\ c.workspace = w /\ c.kind = k /\ c \notin forgotten /\ c.at + Window > now
  BY GuardAssumption DEF Within, Spent, IInv, TypeOK, Leases
<1>2. \A c \in Within(Spent(w, k), t) : c.at \in shares[w][k]
  BY <1>1 DEF IInv, Covered
<1> QED BY <1>2, RowsBound DEF Spent, IInv, TypeOK, FiniteRows

-----------------------------------------------------------------------------
(* A request.                                                               *)

\* What a look at the rows does to them, whatever it adds.
LEMMA LookStep ==
  ASSUME IInv, NEW w \in Workspaces, NEW k \in Kinds, NEW t \in Nat,
         NEW taken \in SUBSET {t}, Look(w, k, t, taken)
  PROVE  /\ now' = t /\ now < t /\ w \notin Dropped(w)
         /\ global' \in [Kinds -> SUBSET Nat] /\ shares' \in [Workspaces -> [Kinds -> SUBSET Nat]]
         /\ seen' \in [Workspaces -> Nat] /\ FiniteRows'
         /\ global'[k] = Recent(global[k], t) \cup taken
         /\ \A j \in Kinds : j # k => global'[j] = global[j]
         /\ \A v \in Workspaces \ Dropped(w), j \in Kinds :
              shares'[v][j] = IF v = w /\ j = k THEN Recent(shares[w][k], t) \cup taken
                                                ELSE shares[v][j]
         /\ \A v \in Dropped(w), j \in Kinds : shares'[v][j] = {}
<1>1. now' = t /\ now < t
  BY DEF Look
<1>2. w \notin Dropped(w) /\ Dropped(w) \subseteq Workspaces
  BY DEF Dropped
<1>3. /\ global \in [Kinds -> SUBSET Nat] /\ shares \in [Workspaces -> [Kinds -> SUBSET Nat]]
      /\ seen \in [Workspaces -> Nat]
  BY DEF IInv, TypeOK
<1>4. ASSUME NEW rows \in SUBSET Nat
      PROVE  /\ Recent(rows, t) \cup taken \in SUBSET Nat
             /\ IsFiniteSet(rows) => IsFiniteSet(Recent(rows, t) \cup taken)
  <2>1. Recent(rows, t) \subseteq rows
    BY DEF Recent
  <2>2. taken = {} \/ taken = {t}
    OBVIOUS
  <2> QED BY <2>1, <2>2, FS_Subset, FS_AddElement
<1>5. /\ global'[k] = Recent(global[k], t) \cup taken
      /\ \A j \in Kinds : j # k => global'[j] = global[j]
  BY <1>3 DEF Look
<1>6. global' \in [Kinds -> SUBSET Nat]
  BY <1>3, <1>4 DEF Look
<1>7. /\ \A v \in Workspaces \ Dropped(w), j \in Kinds :
           shares'[v][j] = IF v = w /\ j = k THEN Recent(shares[w][k], t) \cup taken
                                             ELSE shares[v][j]
      /\ \A v \in Dropped(w), j \in Kinds : shares'[v][j] = {}
  BY <1>2, <1>3 DEF Look, NoRows
<1>8. shares' \in [Workspaces -> [Kinds -> SUBSET Nat]]
  <2>1. [shares[w] EXCEPT ![k] = Recent(@, t) \cup taken] \in [Kinds -> SUBSET Nat]
    <3>1. /\ shares[w] \in [Kinds -> SUBSET Nat]
          /\ Recent(shares[w][k], t) \cup taken \in SUBSET Nat
      BY <1>3, <1>4
    <3> QED BY <3>1
  <2>2. NoRows \in [Kinds -> SUBSET Nat]
    BY DEF NoRows
  <2> QED BY <1>3, <2>1, <2>2 DEF Look
<1>9. seen' \in [Workspaces -> Nat]
  BY <1>3 DEF Look
<1>10. FiniteRows'
  <2>1. ASSUME NEW j \in Kinds PROVE IsFiniteSet(global'[j])
    BY <1>3, <1>4, <1>5 DEF IInv, FiniteRows
  <2>2. ASSUME NEW v \in Workspaces, NEW j \in Kinds PROVE IsFiniteSet(shares'[v][j])
    <3>1. CASE v \in Dropped(w)
      BY <3>1, <1>7, FS_EmptySet
    <3>2. CASE v \notin Dropped(w)
      BY <3>2, <1>3, <1>4, <1>7 DEF IInv, FiniteRows
    <3> QED BY <3>1, <3>2
  <2> QED BY <2>1, <2>2 DEF FiniteRows
<1> QED BY <1>1, <1>2, <1>5, <1>6, <1>7, <1>8, <1>9, <1>10

\* A request keeps the invariant, whether it is charged or refused.
LEMMA RequestStep ==
  ASSUME IInv, NEW w \in Workspaces, NEW k \in Kinds, NEW t \in Nat,
         NEW taken \in SUBSET {t}, Look(w, k, t, taken),
         NEW added \in SUBSET Leases, charges' = charges \cup added,
         \/ taken = {} /\ added = {}
         \/ /\ taken = {t} /\ added = {[workspace |-> w, kind |-> k, at |-> t]}
            /\ WithinLimits(w, k, t)
  PROVE  /\ now' \in Nat /\ global' \in [Kinds -> SUBSET Nat]
         /\ shares' \in [Workspaces -> [Kinds -> SUBSET Nat]] /\ seen' \in [Workspaces -> Nat]
         /\ charges' \subseteq Leases /\ forgotten' \subseteq charges'
         /\ FiniteRows' /\ Distinct' /\ Covered'
         /\ RowsAreCharges' /\ ServiceCeiling' /\ ShareUnlessForgotten'
<1>1. /\ now' = t /\ now < t /\ w \notin Dropped(w)
      /\ global' \in [Kinds -> SUBSET Nat] /\ shares' \in [Workspaces -> [Kinds -> SUBSET Nat]]
      /\ seen' \in [Workspaces -> Nat] /\ FiniteRows'
      /\ global'[k] = Recent(global[k], t) \cup taken
      /\ \A j \in Kinds : j # k => global'[j] = global[j]
      /\ \A v \in Workspaces \ Dropped(w), j \in Kinds :
           shares'[v][j] = IF v = w /\ j = k THEN Recent(shares[w][k], t) \cup taken
                                             ELSE shares[v][j]
      /\ \A v \in Dropped(w), j \in Kinds : shares'[v][j] = {}
  BY LookStep
<1>2. /\ now \in Nat /\ charges \subseteq Leases /\ forgotten \subseteq charges
      /\ \A c \in charges : c.at \in Nat /\ c.workspace \in Workspaces /\ c.kind \in Kinds /\ c.at <= now
  BY DEF IInv, TypeOK, Distinct, Leases
<1>3. \A c \in added : /\ taken = {t} /\ c.workspace = w /\ c.kind = k /\ c.at = t
                       /\ c \notin charges /\ WithinLimits(w, k, t)
  BY <1>1, <1>2
<1>4. \A c, d \in added : c = d
  OBVIOUS
<1>5. forgotten' = forgotten \cup {c \in charges : c.workspace \in Dropped(w)}
  BY DEF Look
<1>6. charges' \subseteq Leases /\ forgotten' \subseteq charges'
  BY <1>2, <1>5
<1>7. Distinct'
  <2>1. \A c \in charges' : c.at <= now'
    BY <1>1, <1>2, <1>3
  <2>2. ASSUME NEW c \in charges', NEW d \in charges', c.at = d.at PROVE c = d
    <3>1. CASE c \in charges /\ d \in charges
      BY <2>2, <3>1 DEF IInv, Distinct
    <3>2. CASE c \in added /\ d \in added
      BY <3>2, <1>4
    <3>3. ASSUME NEW x \in charges, NEW y \in added PROVE x.at # y.at
      BY <1>1, <1>2, <1>3
    <3> QED BY <2>2, <3>1, <3>2, <3>3
  <2> QED BY <2>1, <2>2 DEF Distinct
<1>8. Covered'
  <2> SUFFICES ASSUME NEW c \in charges', c.at + Window > now'
               PROVE  /\ c.at \in global'[c.kind]
                      /\ c \notin forgotten' => c.at \in shares'[c.workspace][c.kind]
    BY DEF Covered
  <2>1. CASE c \in charges
    <3>1. c.at + Window > now
      BY <2>1, <1>1, <1>2, GuardAssumption
    <3>2. c.at \in global[c.kind] /\ (c \notin forgotten => c.at \in shares[c.workspace][c.kind])
      BY <2>1, <3>1 DEF IInv, Covered
    <3>3. c.at \in global'[c.kind]
      BY <2>1, <3>2, <1>1, <1>2 DEF Recent
    <3>4. ASSUME c \notin forgotten' PROVE c.at \in shares'[c.workspace][c.kind]
      <4>1. c.workspace \in Workspaces \ Dropped(w) /\ c.kind \in Kinds /\ c \notin forgotten
        BY <2>1, <3>4, <1>2, <1>5
      <4>2. c.at \in shares[c.workspace][c.kind] /\ c.at \in Nat
        BY <2>1, <3>2, <4>1, <1>2
      <4>3. c.workspace = w /\ c.kind = k => c.at \in Recent(shares[w][k], t)
        BY <4>2, <1>1 DEF Recent
      <4> QED BY <4>1, <4>2, <4>3, <1>1
    <3> QED BY <3>3, <3>4
  <2>2. CASE c \in added
    BY <2>2, <1>1, <1>3
  <2> QED BY <2>1, <2>2
<1>9. RowsAreCharges'
  <2>1. ASSUME NEW j \in Kinds, NEW r \in global'[j] PROVE \E c \in charges' : c.kind = j /\ c.at = r
    <3>1. CASE r \in global[j]
      BY <3>1 DEF IInv, RowsAreCharges, Of
    <3>2. CASE r \in taken /\ j = k
      BY <3>2, <1>3
    <3> QED BY <1>1, <3>1, <3>2 DEF Recent
  <2>2. ASSUME NEW v \in Workspaces, NEW j \in Kinds, NEW r \in shares'[v][j]
        PROVE  \E c \in charges' : c.workspace = v /\ c.kind = j /\ c \notin forgotten' /\ c.at = r
    <3>1. v \notin Dropped(w)
      BY <1>1, <2>2
    <3>2. CASE r \in shares[v][j]
      <4>1. PICK c \in charges : c.workspace = v /\ c.kind = j /\ c \notin forgotten /\ c.at = r
        BY <3>2 DEF IInv, RowsAreCharges, Spent
      <4> QED BY <3>1, <4>1, <1>5
    <3>3. CASE r \in taken /\ v = w /\ j = k
      BY <3>3, <1>2, <1>3, <1>5
    <3>4. r \in shares[v][j] \/ (r \in taken /\ v = w /\ j = k)
      BY <1>1, <2>2, <3>1 DEF Recent
    <3> QED BY <3>2, <3>3, <3>4
  <2> QED BY <2>1, <2>2 DEF RowsAreCharges, Of, Spent
<1>10. \A j \in Kinds : GlobalLimit[j] \in Nat /\ ShareLimit[j] \in Nat
  BY GuardAssumption
<1>11. ASSUME NEW j \in Kinds PROVE Cardinality(InWindow(Of(j)))' <= GlobalLimit[j]
  <2>1. /\ IsFiniteSet(Within(Of(j), t)) /\ Cardinality(Recent(global[j], t)) \in Nat
        /\ Cardinality(Within(Of(j), t)) <= Cardinality(Recent(global[j], t))
    BY <1>1, <1>2, OfBound
  <2>2. CASE j = k /\ added # {}
    <3>1. PICK lease \in added : InWindow(Of(j))' \subseteq Within(Of(j), t) \cup {lease}
      BY <2>2, <1>1, <1>4 DEF InWindow, Of, Within
    <3>2. Cardinality(Recent(global[j], t)) < GlobalLimit[j]
      BY <2>2, <1>3 DEF WithinLimits
    <3> QED BY <2>1, <3>1, <3>2, <1>10, OneMore
  <2>3. CASE ~(j = k /\ added # {})
    <3>1. InWindow(Of(j))' \subseteq InWindow(Of(j))
      BY <2>3, <1>1, <1>2, <1>3, GuardAssumption DEF InWindow, Of
    <3>2. IsFiniteSet(InWindow(Of(j))) /\ Cardinality(InWindow(Of(j))) <= GlobalLimit[j]
      <4>1. InWindow(Of(j)) = Within(Of(j), now)
        BY DEF InWindow, Within
      <4> QED BY <4>1, <1>2, OfBound DEF IInv, ServiceCeiling
    <3> QED BY <3>1, <3>2, <1>10, SmallerCount
  <2> QED BY <2>2, <2>3
<1>12. ASSUME NEW v \in Workspaces, NEW j \in Kinds
       PROVE  Cardinality(InWindow(Spent(v, j)))' <= ShareLimit[j]
  <2>1. /\ IsFiniteSet(Within(Spent(v, j), t)) /\ Cardinality(Recent(shares[v][j], t)) \in Nat
        /\ Cardinality(Within(Spent(v, j), t)) <= Cardinality(Recent(shares[v][j], t))
    BY <1>1, <1>2, SpentBound
  <2>2. CASE v = w /\ j = k /\ added # {}
    <3>1. PICK lease \in added : InWindow(Spent(v, j))' \subseteq Within(Spent(v, j), t) \cup {lease}
      BY <2>2, <1>1, <1>4, <1>5 DEF InWindow, Spent, Within
    <3>2. Cardinality(Recent(shares[v][j], t)) < ShareLimit[j]
      BY <2>2, <1>3 DEF WithinLimits
    <3> QED BY <2>1, <3>1, <3>2, <1>10, OneMore
  <2>3. CASE ~(v = w /\ j = k /\ added # {})
    <3>1. InWindow(Spent(v, j))' \subseteq InWindow(Spent(v, j))
      BY <2>3, <1>1, <1>2, <1>3, <1>5, GuardAssumption DEF InWindow, Spent
    <3>2. IsFiniteSet(InWindow(Spent(v, j))) /\ Cardinality(InWindow(Spent(v, j))) <= ShareLimit[j]
      <4>1. InWindow(Spent(v, j)) = Within(Spent(v, j), now)
        BY DEF InWindow, Within
      <4> QED BY <4>1, <1>2, SpentBound DEF IInv, ShareUnlessForgotten
    <3> QED BY <3>1, <3>2, <1>10, SmallerCount
  <2> QED BY <2>2, <2>3
<1> QED BY <1>1, <1>6, <1>7, <1>8, <1>9, <1>11, <1>12 DEF ServiceCeiling, ShareUnlessForgotten

LEMMA AdmitStep ==
  ASSUME IInv, NEW w \in Workspaces, NEW k \in Kinds, NEW t \in Nat, Admit(w, k, t)
  PROVE  IInv'
<1> DEFINE lease == [workspace |-> w, kind |-> k, at |-> t]
<1>1. /\ WithinLimits(w, k, t) /\ Look(w, k, t, {t}) /\ open' = open \cup {lease}
      /\ charges' = charges \cup {lease} /\ UNCHANGED quarantines
  BY DEF Admit
<1>2. {lease} \subseteq Leases
  BY DEF Leases
<1>3. open' \subseteq charges' /\ quarantines' \in Seq(Workspaces \X Agents)
  BY <1>1 DEF IInv, TypeOK
<1>4. /\ now' \in Nat /\ global' \in [Kinds -> SUBSET Nat]
      /\ shares' \in [Workspaces -> [Kinds -> SUBSET Nat]] /\ seen' \in [Workspaces -> Nat]
      /\ charges' \subseteq Leases /\ forgotten' \subseteq charges'
      /\ FiniteRows' /\ Distinct' /\ Covered'
      /\ RowsAreCharges' /\ ServiceCeiling' /\ ShareUnlessForgotten'
  BY <1>1, <1>2, RequestStep, Zenon
<1> QED BY <1>3, <1>4 DEF IInv, TypeOK

LEMMA RefuseStep ==
  ASSUME IInv, NEW w \in Workspaces, NEW k \in Kinds, NEW t \in Nat, Refuse(w, k, t)
  PROVE  IInv'
<1>1. Look(w, k, t, {}) /\ UNCHANGED <<open, charges, quarantines>>
  BY DEF Refuse
<1>2. charges' = charges \cup {}
  BY <1>1
<1>3. open' \subseteq charges' /\ quarantines' \in Seq(Workspaces \X Agents)
  BY <1>1 DEF IInv, TypeOK
<1>4. PICK none \in SUBSET {t} : none = {}
  OBVIOUS
<1>5. PICK nothing \in SUBSET Leases : nothing = {}
  OBVIOUS
<1>6. Look(w, k, t, none) /\ charges' = charges \cup nothing /\ (none = {} /\ nothing = {})
  BY <1>1, <1>2, <1>4, <1>5
<1>7. /\ now' \in Nat /\ global' \in [Kinds -> SUBSET Nat]
      /\ shares' \in [Workspaces -> [Kinds -> SUBSET Nat]] /\ seen' \in [Workspaces -> Nat]
      /\ charges' \subseteq Leases /\ forgotten' \subseteq charges'
      /\ FiniteRows' /\ Distinct' /\ Covered'
      /\ RowsAreCharges' /\ ServiceCeiling' /\ ShareUnlessForgotten'
  BY <1>6, RequestStep, Zenon
<1> QED BY <1>3, <1>7 DEF IInv, TypeOK

-----------------------------------------------------------------------------
(* The rest.                                                                *)

LEMMA ReleaseStep ==
  ASSUME IInv, NEW lease \in open, Release(lease)
  PROVE  IInv'
<1> DEFINE k == lease.kind
           w == lease.workspace
<1>1. /\ lease \in charges /\ lease \in Leases /\ w \in Workspaces /\ k \in Kinds
      /\ now \in Nat /\ charges \subseteq Leases
      /\ global \in [Kinds -> SUBSET Nat] /\ shares \in [Workspaces -> [Kinds -> SUBSET Nat]]
  BY DEF IInv, TypeOK, Leases
<1>2. /\ charges' = charges \ {lease} /\ open' = open \ {lease} /\ forgotten' = forgotten \ {lease}
      /\ UNCHANGED <<now, seen, quarantines>>
  BY DEF Release
<1>3. /\ \A j \in Kinds :
           global'[j] = IF j = k THEN global[j] \ {lease.at} ELSE global[j]
      /\ \A v \in Workspaces, j \in Kinds :
           shares'[v][j] = IF v = w /\ j = k THEN shares[v][j] \ {lease.at} ELSE shares[v][j]
      /\ global' \in [Kinds -> SUBSET Nat] /\ shares' \in [Workspaces -> [Kinds -> SUBSET Nat]]
  BY <1>1 DEF Release
<1>4. TypeOK'
  BY <1>2, <1>3 DEF IInv, TypeOK
<1>5. FiniteRows'
  <2>1. ASSUME NEW rows, IsFiniteSet(rows) PROVE IsFiniteSet(rows \ {lease.at})
    BY <2>1, FS_RemoveElement
  <2>2. ASSUME NEW j \in Kinds PROVE IsFiniteSet(global'[j])
    <3>1. IsFiniteSet(global[j])
      BY DEF IInv, FiniteRows
    <3>2. IsFiniteSet(global[j] \ {lease.at})
      BY <2>1, <3>1
    <3>3. global'[j] = global[j] \/ global'[j] = global[j] \ {lease.at}
      BY <1>3
    <3> QED BY <3>1, <3>2, <3>3
  <2>3. ASSUME NEW v \in Workspaces, NEW j \in Kinds PROVE IsFiniteSet(shares'[v][j])
    <3>1. IsFiniteSet(shares[v][j])
      BY DEF IInv, FiniteRows
    <3>2. IsFiniteSet(shares[v][j] \ {lease.at})
      BY <2>1, <3>1
    <3>3. shares'[v][j] = shares[v][j] \/ shares'[v][j] = shares[v][j] \ {lease.at}
      BY <1>3
    <3> QED BY <3>1, <3>2, <3>3
  <2> QED BY <2>2, <2>3 DEF FiniteRows
<1>6. Distinct'
  BY <1>2 DEF IInv, Distinct
<1>7. \A c \in charges' : c # lease /\ c \in charges /\ c.at # lease.at
  BY <1>1, <1>2 DEF IInv, Distinct
<1>8. Covered'
  <2> SUFFICES ASSUME NEW c \in charges', c.at + Window > now'
               PROVE  /\ c.at \in global'[c.kind]
                      /\ c \notin forgotten' => c.at \in shares'[c.workspace][c.kind]
    BY DEF Covered
  <2>1. c \in charges /\ c.at # lease.at /\ c # lease /\ c.workspace \in Workspaces /\ c.kind \in Kinds
    BY <1>1, <1>7 DEF Leases
  <2>2. c.at \in global[c.kind] /\ (c \notin forgotten => c.at \in shares[c.workspace][c.kind])
    BY <2>1, <1>2 DEF IInv, Covered
  <2> QED BY <1>2, <1>3, <2>1, <2>2
<1>9. RowsAreCharges'
  <2>1. ASSUME NEW j \in Kinds, NEW r \in global'[j] PROVE \E c \in charges' : c.kind = j /\ c.at = r
    <3>1. PICK c \in charges : c.kind = j /\ c.at = r
      BY <1>3, <2>1 DEF IInv, RowsAreCharges, Of
    <3>2. c # lease
      BY <1>3, <2>1, <3>1
    <3> QED BY <3>1, <3>2, <1>2
  <2>2. ASSUME NEW v \in Workspaces, NEW j \in Kinds, NEW r \in shares'[v][j]
        PROVE  \E c \in charges' : c.workspace = v /\ c.kind = j /\ c \notin forgotten' /\ c.at = r
    <3>0. r \in shares[v][j]
      BY <1>3, <2>2
    <3>1. PICK c \in charges : c.workspace = v /\ c.kind = j /\ c \notin forgotten /\ c.at = r
      BY <3>0 DEF IInv, RowsAreCharges, Spent
    <3>2. c # lease
      BY <1>3, <2>2, <3>1
    <3> QED BY <3>1, <3>2, <1>2
  <2> QED BY <2>1, <2>2 DEF RowsAreCharges, Of, Spent
<1>10. ASSUME NEW j \in Kinds PROVE Cardinality(InWindow(Of(j)))' <= GlobalLimit[j]
  <2>1. InWindow(Of(j))' \subseteq InWindow(Of(j)) /\ InWindow(Of(j)) = Within(Of(j), now)
    BY <1>2 DEF InWindow, Of, Within
  <2>2. IsFiniteSet(InWindow(Of(j))) /\ Cardinality(InWindow(Of(j))) <= GlobalLimit[j]
    BY <2>1, <1>1, OfBound DEF IInv, ServiceCeiling
  <2> QED BY <2>1, <2>2, SmallerCount, GuardAssumption
<1>11. ASSUME NEW v \in Workspaces, NEW j \in Kinds
       PROVE  Cardinality(InWindow(Spent(v, j)))' <= ShareLimit[j]
  <2>1. InWindow(Spent(v, j))' \subseteq InWindow(Spent(v, j))
        /\ InWindow(Spent(v, j)) = Within(Spent(v, j), now)
    BY <1>2 DEF InWindow, Spent, Within
  <2>2. IsFiniteSet(InWindow(Spent(v, j))) /\ Cardinality(InWindow(Spent(v, j))) <= ShareLimit[j]
    BY <2>1, <1>1, SpentBound DEF IInv, ShareUnlessForgotten
  <2> QED BY <2>1, <2>2, SmallerCount, GuardAssumption
<1> QED BY <1>4, <1>5, <1>6, <1>8, <1>9, <1>10, <1>11 DEF IInv, ServiceCeiling, ShareUnlessForgotten

\* A step that leaves the rows and their charges alone.
LEMMA RowsUntouched ==
  ASSUME IInv, UNCHANGED <<now, global, shares, seen, charges, forgotten>>,
         open' \subseteq charges, quarantines' \in Seq(Workspaces \X Agents)
  PROVE  IInv'
<1>1. TypeOK'
  BY DEF IInv, TypeOK
<1>2. FiniteRows' /\ Distinct' /\ Covered'
  BY DEF IInv, FiniteRows, Distinct, Covered
<1>3. RowsAreCharges'
  BY DEF IInv, RowsAreCharges, Of, Spent
<1>4. ServiceCeiling' /\ ShareUnlessForgotten'
  BY DEF IInv, ServiceCeiling, ShareUnlessForgotten, Of, Spent, InWindow
<1> QED BY <1>1, <1>2, <1>3, <1>4 DEF IInv

LEMMA WithoutType ==
  ASSUME IInv, NEW q
  PROVE  Without(q) \in Seq(Workspaces \X Agents)
<1> DEFINE S == Workspaces \X Agents
           n == Len(quarantines)
<1>1. quarantines \in Seq(S)
  BY DEF IInv, TypeOK
<1>2. ASSUME NEW i \in DOMAIN quarantines
      PROVE  SubSeq(quarantines, 1, i - 1) \o SubSeq(quarantines, i + 1, n) \in Seq(S)
  <2>1. i \in Int /\ n \in Int /\ i >= 1 /\ i <= n /\ \A j \in 1 .. n : quarantines[j] \in S
    BY <1>1, <1>2
  <2> HIDE DEF S, n
  <2>2. SubSeq(quarantines, 1, i - 1) \in Seq(S) /\ SubSeq(quarantines, i + 1, n) \in Seq(S)
    BY <2>1, SubSeqProperties
  <2> QED BY <2>2, ConcatProperties
<1> HIDE DEF S, n
<1> QED BY <1>1, <1>2 DEF Without, S, n

LEMMA QuarantineStep ==
  ASSUME IInv, NEW q \in Workspaces \X Agents, Quarantine(q) \/ ReleaseQuarantine(q)
  PROVE  IInv'
<1>1. Append(Without(q), q) \in Seq(Workspaces \X Agents) /\ Len(Append(Without(q), q)) > 0
  BY WithoutType
<1>2. quarantines' \in Seq(Workspaces \X Agents)
  <2>1. \A all \in Seq(Workspaces \X Agents) :
          Len(all) > 0 => Tail(all) \in Seq(Workspaces \X Agents)
    OBVIOUS
  <2> QED BY <1>1, <2>1, WithoutType DEF Quarantine, ReleaseQuarantine
<1>3. open' \subseteq charges /\ UNCHANGED <<now, global, shares, seen, charges, forgotten>>
  BY DEF Quarantine, ReleaseQuarantine, IInv, TypeOK
<1> QED BY <1>2, <1>3, RowsUntouched

LEMMA InitIsSafe == Init => IInv
<1> SUFFICES ASSUME Init PROVE IInv
  OBVIOUS
<1>1. NoRows \in [Kinds -> SUBSET Nat] /\ \A k \in Kinds : NoRows[k] = {}
  BY DEF NoRows
<1>2. TypeOK /\ FiniteRows /\ Distinct /\ Covered /\ RowsAreCharges
  <2>1. /\ now = 0 /\ global = NoRows /\ shares = [w \in Workspaces |-> NoRows]
        /\ seen = [w \in Workspaces |-> 0] /\ open = {} /\ charges = {} /\ forgotten = {}
        /\ quarantines = <<>>
    BY DEF Init
  <2>2. TypeOK
    BY <1>1, <2>1 DEF TypeOK
  <2>3. FiniteRows
    BY <1>1, <2>1, FS_EmptySet DEF FiniteRows
  <2>4. Distinct /\ Covered /\ RowsAreCharges
    BY <1>1, <2>1 DEF Distinct, Covered, RowsAreCharges
  <2> QED BY <2>2, <2>3, <2>4
<1>3. ASSUME NEW k \in Kinds
      PROVE  /\ Cardinality(InWindow(Of(k))) <= GlobalLimit[k]
             /\ \A w \in Workspaces : Cardinality(InWindow(Spent(w, k))) <= ShareLimit[k]
  <2>1. InWindow(Of(k)) = {} /\ \A w \in Workspaces : InWindow(Spent(w, k)) = {}
    BY DEF Init, InWindow, Of, Spent
  <2> QED BY <2>1, FS_EmptySet, GuardAssumption
<1> QED BY <1>2, <1>3 DEF IInv, ServiceCeiling, ShareUnlessForgotten

LEMMA NextIsSafe == IInv /\ [Next]_vars => IInv'
<1> SUFFICES ASSUME IInv, [Next]_vars PROVE IInv'
  OBVIOUS
<1>1. ASSUME NEW w \in Workspaces, NEW k \in Kinds, NEW t \in now + 1 .. now + MaxGap,
             Admit(w, k, t) \/ Refuse(w, k, t)
      PROVE  IInv'
  <2>1. t \in Nat
    BY GuardAssumption DEF IInv, TypeOK
  <2> QED BY <1>1, <2>1, AdmitStep, RefuseStep
<1>2. ASSUME NEW lease \in open, Keep(lease) PROVE IInv'
  BY <1>2, RowsUntouched DEF Keep, IInv, TypeOK
<1>3. ASSUME NEW lease \in open, Release(lease) PROVE IInv'
  BY <1>3, ReleaseStep
<1>4. ASSUME NEW q \in Workspaces \X Agents, Quarantine(q) \/ ReleaseQuarantine(q) PROVE IInv'
  BY <1>4, QuarantineStep
<1>5. CASE UNCHANGED vars
  BY <1>5, RowsUntouched DEF vars, IInv, TypeOK
<1> QED BY <1>1, <1>2, <1>3, <1>4, <1>5 DEF Next

-----------------------------------------------------------------------------
(* What follows.                                                            *)

\* Rows, charges and quarantines are well typed (core/demo_guard.py).
THEOREM GuardIsWellTyped == Spec => []TypeOK
<1>1. IInv => TypeOK
  BY DEF IInv
<1> QED BY <1>1, InitIsSafe, NextIsSafe, PTL DEF Spec

\* The service never runs more in a window than it allows, for any number of
\* workspaces made up and forgotten.
THEOREM CeilingHolds == Spec => []ServiceCeiling
<1>1. IInv => ServiceCeiling
  BY DEF IInv
<1> QED BY <1>1, InitIsSafe, NextIsSafe, PTL DEF Spec

\* A workspace that is not forgotten stays within its share.
THEOREM SharesHold == Spec => []ShareUnlessForgotten
<1>1. IInv => ShareUnlessForgotten
  BY DEF IInv
<1> QED BY <1>1, InitIsSafe, NextIsSafe, PTL DEF Spec

\* Every row stands for a charge that was not refunded.
THEOREM RowsStandForCharges == Spec => []RowsAreCharges
<1>1. IInv => RowsAreCharges
  BY DEF IInv
<1> QED BY <1>1, InitIsSafe, NextIsSafe, PTL DEF Spec
=============================================================================
