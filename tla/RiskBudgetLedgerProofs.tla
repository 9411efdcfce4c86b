----------------------- MODULE RiskBudgetLedgerProofs -----------------------
(***************************************************************************)
(* Theorems about RiskBudgetLedger, for every set of keys, ceiling and     *)
(* bound.  The sum of losses enters only through its laws, TotalLaws,      *)
(* which follow from the theory of finite sets.                            *)
(***************************************************************************)
EXTENDS RiskBudgetLedger, FiniteSetTheorems, TLAPS

\* The units of a function are finitely many.
LEMMA UnitsFinite ==
    ASSUME NEW f \in [Keys -> Losses]
    PROVE  IsFiniteSet(Units(f)) /\ Total(f) \in Nat
<1>1. IsFiniteSet(1 .. Ceiling)
  BY CeilingAssumption, FS_Interval
<1>2. IsFiniteSet(Keys \X (1 .. Ceiling))
  BY <1>1, KeysAssumption, FS_Product
<1>3. Units(f) \in SUBSET (Keys \X (1 .. Ceiling))
  BY DEF Units
<1>4. IsFiniteSet(Units(f))
  BY <1>2, <1>3, FS_Subset
<1> QED BY <1>4, FS_CardinalityType DEF Total

\* One key has as many units as its loss.
LEMMA UnitsOfOne ==
    ASSUME NEW k \in Keys, NEW n \in Losses
    PROVE  IsFiniteSet({k} \X (1 .. n)) /\ Cardinality({k} \X (1 .. n)) = n
<1>1. n \in Nat
  BY CeilingAssumption DEF Losses
<1>2. IsFiniteSet(1 .. n) /\ Cardinality(1 .. n) = n
  <2>1. 1 \in Int /\ n \in Int
    BY <1>1
  <2>2. IsFiniteSet(1 .. n) /\ Cardinality(1 .. n) = IF 1 > n THEN 0 ELSE n - 1 + 1
    BY <2>1, FS_Interval
  <2>3. (IF 1 > n THEN 0 ELSE n - 1 + 1) = n
    BY <1>1
  <2> QED BY <2>2, <2>3
<1>3. IsFiniteSet({k}) /\ Cardinality({k}) = 1
  BY FS_Singleton
<1>4. /\ IsFiniteSet({k} \X (1 .. n))
      /\ Cardinality({k} \X (1 .. n)) = Cardinality({k}) * Cardinality(1 .. n)
  BY <1>2, <1>3, FS_Product
<1> QED BY <1>1, <1>2, <1>3, <1>4

\* The total is the loss of one key and the units of the others.
LEMMA TotalWithout ==
    ASSUME NEW f \in [Keys -> Losses], NEW k \in Keys
    PROVE  LET others == {u \in Units(f) : u[1] # k}
           IN  /\ Cardinality(others) \in Nat
               /\ Total(f) = Cardinality(others) + f[k]
<1> DEFINE others == {u \in Units(f) : u[1] # k}
           own == {k} \X (1 .. f[k])
<1>1. f[k] \in Losses /\ f[k] \in Nat /\ f[k] <= Ceiling
  BY CeilingAssumption DEF Losses
<1>2. IsFiniteSet(own) /\ Cardinality(own) = f[k]
  BY <1>1, UnitsOfOne
<1>3. IsFiniteSet(others)
  BY UnitsFinite, FS_Subset
<1>4. Cardinality(others) \in Nat
  BY <1>3, FS_CardinalityType
<1>5. Units(f) = others \cup own
  <2>1. ASSUME NEW u \in Units(f)
        PROVE  u \in others \/ u \in own
    BY <1>1, <2>1, CeilingAssumption DEF Units
  <2>2. ASSUME NEW u \in own
        PROVE  u \in Units(f)
    BY <1>1, <2>2, CeilingAssumption DEF Units
  <2> QED BY <2>1, <2>2
<1>6. others \cap own = {}
  OBVIOUS
<1>7. Cardinality(others \cap own) = 0
  BY <1>6, FS_EmptySet
<1>8. Cardinality(others \cup own)
         = Cardinality(others) + Cardinality(own) - Cardinality(others \cap own)
  BY <1>2, <1>3, FS_Union
<1> HIDE DEF others, own
<1>9. Total(f) = Cardinality(others) + f[k]
  BY <1>1, <1>2, <1>4, <1>5, <1>7, <1>8 DEF Total
<1> QED BY <1>4, <1>9 DEF others

\* What the proofs use of the sum: the sum of nothing is zero, replacing one
\* loss moves the sum by the difference, dropping losses does not raise it.
LEMMA TotalLaws ==
    /\ Total([k \in Keys |-> 0]) = 0
    /\ \A f \in [Keys -> Losses] :
        /\ Total(f) \in Nat
        /\ \A k \in Keys, x \in Losses :
              Total([f EXCEPT ![k] = x]) = Total(f) - f[k] + x
        /\ \A S \in SUBSET Keys :
              Total([k \in Keys |-> IF k \in S THEN 0 ELSE f[k]]) <= Total(f)
<1>1. Total([k \in Keys |-> 0]) = 0
  <2>1. Units([k \in Keys |-> 0]) = {}
    BY CeilingAssumption DEF Units
  <2> QED BY <2>1, FS_EmptySet DEF Total
<1>2. ASSUME NEW f \in [Keys -> Losses], NEW k \in Keys, NEW x \in Losses
      PROVE  Total([f EXCEPT ![k] = x]) = Total(f) - f[k] + x
  <2> DEFINE g == [f EXCEPT ![k] = x]
             fothers == {u \in Units(f) : u[1] # k}
             gothers == {u \in Units(g) : u[1] # k}
  <2>1. g \in [Keys -> Losses] /\ g[k] = x
    OBVIOUS
  <2>2. fothers = gothers
    <3>1. \A j \in Keys : j # k => g[j] = f[j]
      OBVIOUS
    <3>2. Units(g) = {u \in Keys \X (1 .. Ceiling) : u[2] <= g[u[1]]}
      BY <2>1 DEF Units
    <3>3. Units(f) = {u \in Keys \X (1 .. Ceiling) : u[2] <= f[u[1]]}
      BY DEF Units
    <3> QED BY <3>1, <3>2, <3>3
  <2>3. Cardinality(fothers) \in Nat /\ Total(f) = Cardinality(fothers) + f[k]
    BY TotalWithout
  <2>4. Total(g) = Cardinality(gothers) + x
    <3> HIDE DEF g
    <3> QED BY <2>1, TotalWithout
  <2>5. f[k] \in Nat /\ x \in Nat
    BY CeilingAssumption DEF Losses
  <2> HIDE DEF g, fothers, gothers
  <2>6. Total(g) = Total(f) - f[k] + x
    BY <2>2, <2>3, <2>4, <2>5
  <2> QED BY <2>6 DEF g
<1>3. ASSUME NEW f \in [Keys -> Losses], NEW S \in SUBSET Keys
      PROVE  Total([k \in Keys |-> IF k \in S THEN 0 ELSE f[k]]) <= Total(f)
  <2> DEFINE g == [k \in Keys |-> IF k \in S THEN 0 ELSE f[k]]
  <2>1. Units(g) \in SUBSET Units(f)
    BY CeilingAssumption DEF Units, Losses
  <2>2. Cardinality(Units(g)) <= Cardinality(Units(f))
    BY <2>1, UnitsFinite, FS_Subset
  <2> QED BY <2>2 DEF Total
<1>4. \A f \in [Keys -> Losses] : Total(f) \in Nat
  BY UnitsFinite
<1> QED BY <1>1, <1>2, <1>3, <1>4

-----------------------------------------------------------------------------

\* Versions count the changes of a row: the bound on shrinking bounds them.
VersionsBounded ==
    \A k \in Keys :
        /\ rows[k].status = "HELD" => rows[k].version <= MaxVersion
        /\ rows[k].status \in {"RELEASED", "EXPIRED", "CONSUMED"}
              => rows[k].version <= MaxVersion + 1

IInv == RowsTypeOK /\ VersionsBounded

USE DEF Times, Losses, RowStatuses, Settled, NoRow, Row, Fresh, ActiveAt, Moved

\* What a row contributes to the sum is a loss the laws speak about.
LEMMA HeldLossesType ==
    ASSUME NEW r \in [Keys -> Row \cup {NoRow}]
    PROVE  HeldLosses(r) \in [Keys -> Losses] /\ Held(r) \in Nat
<1>1. HeldLosses(r) \in [Keys -> Losses]
  BY CeilingAssumption DEF HeldLosses
<1> QED BY <1>1, TotalLaws DEF Held

\* A row that moves on stays a row while its version has room.
LEMMA MovedRow ==
    ASSUME NEW row \in Row, NEW status \in RowStatuses, row.version <= MaxVersion + 1
    PROVE  /\ Moved(row, status) \in Row
           /\ Moved(row, status).status = status
           /\ Moved(row, status).version = row.version + 1
           /\ Moved(row, status).loss = row.loss
           /\ Moved(row, status).expires = row.expires
<1>1. /\ row.version \in Nat /\ row.version + 1 \in 1 .. MaxVersion + 2
      /\ row.loss \in Losses /\ row.expires \in Times
  BY MaxVersionAssumption
<1>2. Moved(row, status) = [status |-> status, version |-> row.version + 1,
                            loss |-> row.loss, expires |-> row.expires]
  OBVIOUS
<1> QED BY <1>1, <1>2

\* The sweep keeps the rows well-formed, and moves HELD rows to EXPIRED only.
LEMMA SweptRows ==
    ASSUME NEW r \in [Keys -> Row \cup {NoRow}], NEW now \in Times,
           \A k \in Keys : r[k].status = "HELD" => r[k].version <= MaxVersion
    PROVE  /\ Swept(r, now) \in [Keys -> Row \cup {NoRow}]
           /\ \A k \in Keys : \/ Swept(r, now)[k] = r[k]
                              \/ /\ r[k].status = "HELD"
                                 /\ Swept(r, now)[k] = Moved(r[k], "EXPIRED")
<1>1. ASSUME NEW k \in Keys
      PROVE  /\ Swept(r, now)[k] \in Row \cup {NoRow}
             /\ \/ Swept(r, now)[k] = r[k]
                \/ /\ r[k].status = "HELD"
                   /\ Swept(r, now)[k] = Moved(r[k], "EXPIRED")
  <2>1. CASE r[k].status = "HELD" /\ now >= r[k].expires
    <3>1. r[k] \in Row /\ r[k].version <= MaxVersion + 1
      BY <1>1, <2>1, MaxVersionAssumption
    <3>2. Moved(r[k], "EXPIRED") \in Row
      BY <3>1, MovedRow
    <3>3. Swept(r, now)[k] = Moved(r[k], "EXPIRED")
      BY <2>1 DEF Swept
    <3> QED BY <2>1, <3>2, <3>3
  <2>2. CASE ~ (r[k].status = "HELD" /\ now >= r[k].expires)
    <3>1. Swept(r, now)[k] = r[k]
      BY <2>2 DEF Swept
    <3> QED BY <3>1
  <2> QED BY <2>1, <2>2
<1> QED BY <1>1 DEF Swept

\* The sweep takes losses out of the sum.
LEMMA SweptHeld ==
    ASSUME NEW r \in [Keys -> Row \cup {NoRow}], NEW now \in Times
    PROVE  Held(Swept(r, now)) <= Held(r)
<1> DEFINE S == {k \in Keys : r[k].status = "HELD" /\ now >= r[k].expires}
           f == HeldLosses(r)
<1>1. HeldLosses(Swept(r, now)) = [k \in Keys |-> IF k \in S THEN 0 ELSE f[k]]
  BY DEF HeldLosses, Swept
<1>2. f \in [Keys -> Losses]
  BY HeldLossesType
<1>3. Total([k \in Keys |-> IF k \in S THEN 0 ELSE f[k]]) <= Total(f)
  BY <1>2, TotalLaws
<1> QED BY <1>1, <1>3 DEF Held

\* Replacing one row moves the sum by the difference of its contributions.
LEMMA ReplacedHeld ==
    ASSUME NEW r \in [Keys -> Row \cup {NoRow}], NEW k \in Keys, NEW row \in Row
    PROVE  Held([r EXCEPT ![k] = row])
              = Held(r) - HeldLosses(r)[k] + (IF row.status = "HELD" THEN row.loss ELSE 0)
<1> DEFINE x == IF row.status = "HELD" THEN row.loss ELSE 0
           f == HeldLosses(r)
<1>1. f \in [Keys -> Losses] /\ x \in Losses
  BY HeldLossesType, CeilingAssumption
<1>2. HeldLosses([r EXCEPT ![k] = row]) = [f EXCEPT ![k] = x]
  BY DEF HeldLosses
<1>3. Total([f EXCEPT ![k] = x]) = Total(f) - f[k] + x
  BY <1>1, TotalLaws
<1> QED BY <1>2, <1>3 DEF Held

-----------------------------------------------------------------------------
\* Each operation keeps the rows typed, the versions bounded and the sum of
\* HELD losses within the ceiling.

Inv == IInv /\ HeldWithinCeiling

\* A sweep is a step of its own (Expire) and the first half of reserve().
LEMMA SweptInv ==
    ASSUME Inv, NEW now \in Times
    PROVE  /\ Swept(rows, now) \in [Keys -> Row \cup {NoRow}]
           /\ \A k \in Keys :
                /\ Swept(rows, now)[k].status = "HELD" => Swept(rows, now)[k].version <= MaxVersion
                /\ Swept(rows, now)[k].status \in {"RELEASED", "EXPIRED", "CONSUMED"}
                      => Swept(rows, now)[k].version <= MaxVersion + 1
           /\ Held(Swept(rows, now)) <= Ceiling
<1>1. /\ Swept(rows, now) \in [Keys -> Row \cup {NoRow}]
      /\ \A k \in Keys : \/ Swept(rows, now)[k] = rows[k]
                         \/ /\ rows[k].status = "HELD"
                            /\ Swept(rows, now)[k] = Moved(rows[k], "EXPIRED")
  BY SweptRows DEF Inv, IInv, RowsTypeOK, VersionsBounded
<1>2. ASSUME NEW k \in Keys
      PROVE  /\ Swept(rows, now)[k].status = "HELD" => Swept(rows, now)[k].version <= MaxVersion
             /\ Swept(rows, now)[k].status \in {"RELEASED", "EXPIRED", "CONSUMED"}
                   => Swept(rows, now)[k].version <= MaxVersion + 1
  <2>1. CASE Swept(rows, now)[k] = rows[k]
    BY <2>1, <1>2 DEF Inv, IInv, VersionsBounded
  <2>2. CASE /\ rows[k].status = "HELD"
             /\ Swept(rows, now)[k] = Moved(rows[k], "EXPIRED")
    <3>1. rows[k] \in Row /\ rows[k].version <= MaxVersion
      BY <1>2, <2>2 DEF Inv, IInv, RowsTypeOK, VersionsBounded
    <3>2. /\ Moved(rows[k], "EXPIRED").status = "EXPIRED"
          /\ Moved(rows[k], "EXPIRED").version = rows[k].version + 1
      BY <3>1, MovedRow, MaxVersionAssumption
    <3> QED BY <2>2, <3>1, <3>2, MaxVersionAssumption
  <2> QED BY <1>1, <1>2, <2>1, <2>2
<1>3. Held(Swept(rows, now)) <= Held(rows)
  BY SweptHeld DEF Inv, IInv, RowsTypeOK
<1>4. /\ Held(Swept(rows, now)) \in Nat /\ Held(rows) \in Nat
      /\ Held(rows) <= Ceiling
  BY <1>1, HeldLossesType DEF Inv, IInv, RowsTypeOK, HeldWithinCeiling
<1>5. Held(Swept(rows, now)) <= Ceiling
  BY <1>3, <1>4, CeilingAssumption
<1> QED BY <1>1, <1>2, <1>5

\* The operations that change one row in place: what they put there is a row
\* with a bounded version, and no more HELD loss than was there.
LEMMA ReplacedInv ==
    ASSUME Inv, NEW k \in Keys, NEW row \in Row,
           rows' = [rows EXCEPT ![k] = row],
           row.status = "HELD" => row.version <= MaxVersion,
           row.status \in {"RELEASED", "EXPIRED", "CONSUMED"} => row.version <= MaxVersion + 1,
           row.status = "HELD" => rows[k].status = "HELD" /\ row.loss <= rows[k].loss
    PROVE  Inv'
<1>1. RowsTypeOK' /\ VersionsBounded'
  BY DEF Inv, IInv, RowsTypeOK, VersionsBounded
<1>2. Held(rows') = Held(rows) - HeldLosses(rows)[k]
                       + (IF row.status = "HELD" THEN row.loss ELSE 0)
  BY ReplacedHeld DEF Inv, IInv, RowsTypeOK
<1>3. (IF row.status = "HELD" THEN row.loss ELSE 0) <= HeldLosses(rows)[k]
  BY HeldLossesType, CeilingAssumption DEF Inv, IInv, RowsTypeOK, HeldLosses
<1>4. /\ Held(rows) \in Nat /\ Held(rows) <= Ceiling
      /\ HeldLosses(rows)[k] \in Losses
  BY HeldLossesType DEF Inv, IInv, RowsTypeOK, HeldWithinCeiling
<1>5. row.loss \in Losses
  OBVIOUS
<1> QED BY <1>1, <1>2, <1>3, <1>4, <1>5, CeilingAssumption
           DEF Inv, IInv, HeldWithinCeiling

LEMMA ReserveInv ==
    ASSUME Inv, NEW k \in Keys, NEW loss \in Losses, NEW expires \in Times,
           NEW now \in Times, Reserve(k, loss, expires, now)
    PROVE  Inv'
<1> DEFINE swept == Swept(rows, now)
           fresh == Fresh(loss, expires)
<1>1. /\ swept \in [Keys -> Row \cup {NoRow}]
      /\ \A j \in Keys :
           /\ swept[j].status = "HELD" => swept[j].version <= MaxVersion
           /\ swept[j].status \in {"RELEASED", "EXPIRED", "CONSUMED"}
                 => swept[j].version <= MaxVersion + 1
      /\ Held(swept) <= Ceiling
  BY SweptInv
<1>2. fresh \in Row /\ fresh.status = "HELD" /\ fresh.version = 1 /\ fresh.loss = loss
  BY MaxVersionAssumption
<1>3. CASE rows' = swept
  BY <1>1, <1>3 DEF Inv, IInv, RowsTypeOK, VersionsBounded, HeldWithinCeiling
<1>4. CASE /\ rows' = [swept EXCEPT ![k] = fresh]
           /\ Admits(swept, k, loss, expires, now)
  <2>1. RowsTypeOK' /\ VersionsBounded'
    <3> HIDE DEF swept, fresh
    <3> QED BY <1>1, <1>2, <1>4, MaxVersionAssumption DEF RowsTypeOK, VersionsBounded
  <2>2. CASE swept[k] = fresh
    <3>1. rows' = swept
      BY <1>1, <1>4, <2>2
    <3> QED BY <1>3, <3>1
  <2>3. CASE swept[k] = NoRow /\ Held(swept) + loss <= Ceiling
    <3>1. HeldLosses(swept)[k] = 0
      BY <2>3 DEF HeldLosses
    <3>2. Held([swept EXCEPT ![k] = fresh]) = Held(swept) - HeldLosses(swept)[k] + loss
      <4> HIDE DEF swept, fresh
      <4> QED BY <1>1, <1>2, ReplacedHeld
    <3>3. Held(swept) \in Nat
      BY <1>1, HeldLossesType
    <3>4. Held(rows') <= Ceiling
      BY <1>4, <2>3, <3>1, <3>2, <3>3
    <3> QED BY <2>1, <3>4 DEF Inv, IInv, HeldWithinCeiling
  <2> QED BY <1>4, <2>2, <2>3 DEF Admits
<1> QED BY <1>3, <1>4 DEF Reserve

LEMMA RowChangesInv ==
    ASSUME Inv, NEW k \in Keys,
           \/ Release(k)
           \/ \E loss \in Losses : Shrink(k, loss)
           \/ \E now \in Times : Consume(k, now)
           \/ Reconcile(k)
    PROVE  Inv'
<1>1. rows[k] \in Row \cup {NoRow}
  BY DEF Inv, IInv, RowsTypeOK
<1>2. /\ rows[k].status = "HELD" => rows[k] \in Row /\ rows[k].version <= MaxVersion
      /\ rows[k].status = "CONSUMED" => rows[k] \in Row /\ rows[k].version <= MaxVersion + 1
  BY <1>1 DEF Inv, IInv, VersionsBounded
<1>3. ASSUME rows[k].status = "HELD", NEW status \in {"RELEASED", "CONSUMED"},
             rows' = [rows EXCEPT ![k] = Moved(@, status)]
      PROVE  Inv'
  <2> DEFINE row == Moved(rows[k], status)
  <2>1. row \in Row /\ row.status = status /\ row.version <= MaxVersion + 1
    BY <1>2, <1>3, MovedRow, MaxVersionAssumption
  <2>2. rows' = [rows EXCEPT ![k] = row]
    BY <1>3
  <2> HIDE DEF row
  <2> QED BY <1>3, <2>1, <2>2, ReplacedInv
<1>4. CASE rows' = rows
  BY <1>4 DEF Inv, IInv, RowsTypeOK, VersionsBounded, HeldWithinCeiling
<1>5. ASSUME NEW loss \in Losses, Shrink(k, loss)
      PROVE  Inv'
  <2> DEFINE row == [Moved(rows[k], "HELD") EXCEPT !.loss = loss]
  <2>1. /\ row \in Row /\ row.status = "HELD" /\ row.loss = loss
        /\ row.version <= MaxVersion
    BY <1>2, <1>5, MaxVersionAssumption DEF Shrink
  <2>2. rows' = [rows EXCEPT ![k] = row] /\ loss <= rows[k].loss /\ rows[k].status = "HELD"
    BY <1>5 DEF Shrink
  <2> HIDE DEF row
  <2> QED BY <2>1, <2>2, ReplacedInv
<1>6. ASSUME NEW now \in Times, Consume(k, now)
      PROVE  Inv'
  BY <1>3, <1>6 DEF Consume
<1>7. CASE Reconcile(k)
  <2>1. Moved(rows[k], "RECONCILED") \in Row
    BY <1>2, <1>7, MovedRow, MaxVersionAssumption DEF Reconcile
  <2> QED BY <1>2, <1>7, <2>1, ReplacedInv DEF Reconcile
<1> QED BY <1>3, <1>4, <1>5, <1>6, <1>7 DEF Release

LEMMA InitInv == LedgerInit => Inv
<1> SUFFICES ASSUME LedgerInit PROVE Inv
  OBVIOUS
<1>1. IInv
  BY DEF LedgerInit, IInv, RowsTypeOK, VersionsBounded
<1>2. HeldLosses(rows) = [k \in Keys |-> 0]
  BY DEF LedgerInit, HeldLosses
<1>3. Held(rows) = 0
  BY <1>2, TotalLaws DEF Held
<1> QED BY <1>1, <1>3, CeilingAssumption DEF Inv, HeldWithinCeiling

LEMMA NextInv == Inv /\ [LedgerNext]_rows => Inv'
<1> SUFFICES ASSUME Inv, [LedgerNext]_rows PROVE Inv'
  OBVIOUS
<1>1. CASE UNCHANGED rows
  BY <1>1 DEF Inv, IInv, RowsTypeOK, VersionsBounded, HeldWithinCeiling
<1>2. ASSUME NEW now \in Times, Expire(now)
      PROVE  Inv'
  BY <1>2, SweptInv DEF Expire, Inv, IInv, RowsTypeOK, VersionsBounded, HeldWithinCeiling
<1> QED BY <1>1, <1>2, ReserveInv, RowChangesInv DEF LedgerNext

\* Rows are always well-formed and versions bounded by the changes allowed.
THEOREM LedgerTypeOK == LedgerSpec => []RowsTypeOK
<1>1. Inv => RowsTypeOK
  BY DEF Inv, IInv
<1> QED BY InitInv, NextInv, <1>1, PTL DEF LedgerSpec

\* The budget is never oversold, for any number of keys and any ceiling:
\* reserve() under the ledger's lock is a sound compare-and-reserve.
THEOREM LedgerNeverOversold == LedgerSpec => []HeldWithinCeiling
<1>1. Inv => HeldWithinCeiling
  BY DEF Inv
<1> QED BY InitInv, NextInv, <1>1, PTL DEF LedgerSpec

-----------------------------------------------------------------------------
\* What one step may do to one row: leave it alone, open it, shrink it, settle
\* it or reconcile it.  The action properties follow from this.
RowStep(k) ==
    \/ rows'[k] = rows[k]
    \/ rows[k] = NoRow /\ rows'[k].status = "HELD"
    \/ /\ rows[k].status = "HELD"
       /\ rows'[k].status \in {"HELD", "RELEASED", "CONSUMED", "EXPIRED"}
       /\ rows'[k].version = rows[k].version + 1
    \/ /\ rows[k].status = "CONSUMED"
       /\ rows'[k].status = "RECONCILED"
       /\ rows'[k].version = rows[k].version + 1

LEMMA EveryRowStep ==
    ASSUME Inv, [LedgerNext]_rows, NEW k \in Keys
    PROVE  RowStep(k)
<1>0. rows \in [Keys -> Row \cup {NoRow}]
  BY DEF Inv, IInv, RowsTypeOK
<1>1. ASSUME NEW now \in Times
      PROVE  \/ Swept(rows, now)[k] = rows[k]
             \/ /\ rows[k].status = "HELD"
                /\ Swept(rows, now)[k].status = "EXPIRED"
                /\ Swept(rows, now)[k].version = rows[k].version + 1
  BY DEF Swept
<1>2. ASSUME NEW now \in Times, rows' = Swept(rows, now)
      PROVE  RowStep(k)
  BY <1>1, <1>2 DEF RowStep
<1>3. ASSUME NEW j \in Keys, NEW loss \in Losses, NEW expires \in Times, NEW now \in Times,
             Reserve(j, loss, expires, now)
      PROVE  RowStep(k)
  <2> DEFINE swept == Swept(rows, now)
             fresh == Fresh(loss, expires)
  <2>1. swept \in [Keys -> Row \cup {NoRow}]
    BY SweptInv
  <2>2. CASE rows' = swept
    BY <1>2, <2>2
  <2>3. CASE rows' = [swept EXCEPT ![j] = fresh] /\ swept[j] = fresh
    <3>1. rows' = swept
      BY <2>1, <2>3
    <3> QED BY <2>2, <3>1
  <2>4. CASE rows' = [swept EXCEPT ![j] = fresh] /\ swept[j] = NoRow
    <3>1. CASE j = k
      <4>1. rows[k] = NoRow
        BY <1>1, <2>4, <3>1
      <4>2. rows'[k].status = "HELD"
        BY <2>1, <2>4, <3>1
      <4> QED BY <4>1, <4>2 DEF RowStep
    <3>2. CASE j # k
      <4>1. rows'[k] = swept[k]
        BY <2>1, <2>4, <3>2
      <4> QED BY <1>1, <4>1 DEF RowStep
    <3> QED BY <3>1, <3>2
  <2> QED BY <1>3, <2>2, <2>3, <2>4 DEF Reserve, Admits
<1>4. ASSUME NEW j \in Keys,
             \/ Release(j)
             \/ \E loss \in Losses : Shrink(j, loss)
             \/ \E now \in Times : Consume(j, now)
             \/ Reconcile(j)
      PROVE  RowStep(k)
  <2>1. CASE Release(j)
    BY <1>0, <2>1 DEF Release, RowStep
  <2>2. ASSUME NEW loss \in Losses, Shrink(j, loss)
        PROVE  RowStep(k)
    BY <1>0, <2>2 DEF Shrink, RowStep
  <2>3. ASSUME NEW now \in Times, Consume(j, now)
        PROVE  RowStep(k)
    BY <1>0, <2>3 DEF Consume, RowStep
  <2>4. CASE Reconcile(j)
    BY <1>0, <2>4 DEF Reconcile, RowStep
  <2> QED BY <1>4, <2>1, <2>2, <2>3, <2>4
<1>5. CASE UNCHANGED rows
  BY <1>5 DEF RowStep
<1> QED BY <1>2, <1>3, <1>4, <1>5 DEF LedgerNext, Expire

\* A lapsed, released or spent reservation is never armed again, whichever
\* replay of reserve() follows and whatever clock it passes.
THEOREM LedgerSettledStaysSettled == LedgerSpec => SettledStaysSettled
<1>1. Inv /\ [LedgerNext]_rows
        => [\A k \in Keys :
              /\ rows[k].status \in Settled => rows'[k].status \in Settled
              /\ rows[k].status \in {"RELEASED", "EXPIRED", "RECONCILED"}
                    => rows'[k] = rows[k]]_rows
  BY EveryRowStep DEF RowStep
<1> QED BY InitInv, NextInv, <1>1, PTL DEF LedgerSpec, SettledStaysSettled
=============================================================================
