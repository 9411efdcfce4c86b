-------------------------- MODULE RiskBudgetLedger --------------------------
(***************************************************************************)
(* The compare-and-reserve risk budget of one simulation account:          *)
(* portfolio_risk/reservation_contracts.py, class RiskBudgetLedger.        *)
(*                                                                         *)
(* Every public operation runs under the ledger's RLock, so each is one    *)
(* action here.  The clock belongs to the callers: each operation that     *)
(* looks at time is handed a `now` that may be older than the `now` of an  *)
(* earlier call, and the module lets it be any value of Times.             *)
(*                                                                         *)
(* A row is identified by its reservation key (plan, plan version, basis); *)
(* the reservation id is a digest of the key and the row's first contents, *)
(* so that two reservations with one key are the same row or conflict.     *)
(* The constitution reference, version and hash that reserve() compares    *)
(* are immutable on both sides: a mismatch returns before any state is     *)
(* touched, which is a stuttering step.                                    *)
(***************************************************************************)
EXTENDS Integers, FiniteSets

CONSTANTS Keys,         \* reservation keys (plan_id, plan_version, basis_id)
          Ceiling,      \* the account's total_ceiling
          Horizon,      \* bound: the callers' clocks read 0 .. Horizon
          MaxVersion    \* bound: rows are shrunk only below this version

VARIABLE rows           \* self._reservations, by reservation key

ASSUME KeysAssumption == IsFiniteSet(Keys)
ASSUME CeilingAssumption == Ceiling \in Nat
ASSUME HorizonAssumption == Horizon \in Nat
ASSUME MaxVersionAssumption == MaxVersion \in Nat \ {0}

Times    == 0 .. Horizon
Losses   == 0 .. Ceiling
RowStatuses == {"HELD", "RELEASED", "CONSUMED", "RECONCILED", "EXPIRED"}
Settled  == RowStatuses \ {"HELD"}

NoRow == [status |-> "NONE", version |-> 0, loss |-> 0, expires |-> 0]
Row   == [status : RowStatuses, version : 1 .. MaxVersion + 2,
          loss : Losses, expires : Times]

\* A reservation as its caller builds it: HELD, version 1.
Fresh(loss, expires) ==
    [status |-> "HELD", version |-> 1, loss |-> loss, expires |-> expires]

ActiveAt(row, now) == row.status = "HELD" /\ now < row.expires

\* replace(row, status=..., version=row.version + 1)
Moved(row, status) == [status  |-> status, version |-> row.version + 1,
                       loss    |-> row.loss, expires |-> row.expires]

-----------------------------------------------------------------------------
\* The sum reserve() and held_amount() take over the rows.  A loss is a small
\* natural, so the sum of f is its number of units: k has f[k] of them.
Units(f) == {u \in (DOMAIN f) \X (1 .. Ceiling) : u[2] <= f[u[1]]}
Total(f) == Cardinality(Units(f))

\* What a row contributes to the sum of HELD losses.
HeldLosses(r) == [k \in Keys |-> IF r[k].status = "HELD" THEN r[k].loss ELSE 0]
Held(r) == Total(HeldLosses(r))

-----------------------------------------------------------------------------
\* expire(now): the sweep every reserve() and held_amount() begins with.
Swept(r, now) ==
    [k \in Keys |-> IF r[k].status = "HELD" /\ now >= r[k].expires
                    THEN Moved(r[k], "EXPIRED") ELSE r[k]]

\* MUTANT of Admits: the sum is compared before the new loss is added.
AdmitsUnadded(r, k, loss, expires, now) ==
    \/ r[k] = Fresh(loss, expires)
    \/ r[k] = NoRow /\ Held(r) < Ceiling /\ ActiveAt(Fresh(loss, expires), now)

\* MUTANT of Admits: a replay is recognised by what was asked, whatever has
\* become of the row since.
AdmitsReplay(r, k, loss, expires, now) ==
    \/ r[k] # NoRow /\ r[k].loss = loss /\ r[k].expires = expires
    \/ r[k] = NoRow /\ Held(r) + loss <= Ceiling /\ ActiveAt(Fresh(loss, expires), now)

\* The answer of reserve(), given the swept rows: an identical replay is
\* accepted, a different row under the same key is a conflict.
Admits(r, k, loss, expires, now) ==
    \/ r[k] = Fresh(loss, expires)
    \/ /\ r[k] = NoRow
       /\ Held(r) + loss <= Ceiling
       /\ ActiveAt(Fresh(loss, expires), now)

LedgerInit == rows = [k \in Keys |-> NoRow]

Reserve(k, loss, expires, now) ==
    LET swept == Swept(rows, now)
    IN  rows' = IF Admits(swept, k, loss, expires, now)
                THEN [swept EXCEPT ![k] = Fresh(loss, expires)]
                ELSE swept

Release(k) ==
    rows' = IF rows[k].status = "HELD"
            THEN [rows EXCEPT ![k] = Moved(@, "RELEASED")] ELSE rows

Shrink(k, loss) ==
    /\ rows[k].status = "HELD"
    /\ rows[k].version < MaxVersion
    /\ loss <= rows[k].loss
    /\ rows' = [rows EXCEPT ![k] = [Moved(@, "HELD") EXCEPT !.loss = loss]]

\* consume(), and consume_with_commit() once its callback has agreed.
Consume(k, now) ==
    /\ ActiveAt(rows[k], now)
    /\ rows' = [rows EXCEPT ![k] = Moved(@, "CONSUMED")]

Reconcile(k) ==
    /\ rows[k].status = "CONSUMED"
    /\ rows' = [rows EXCEPT ![k] = Moved(@, "RECONCILED")]

\* expire(now) and held_amount(now) called for themselves.
Expire(now) == rows' = Swept(rows, now)

LedgerNext ==
    \/ \E k \in Keys :
        \/ \E loss \in Losses, expires, now \in Times : Reserve(k, loss, expires, now)
        \/ Release(k)
        \/ \E loss \in Losses : Shrink(k, loss)
        \/ \E now \in Times : Consume(k, now)
        \/ Reconcile(k)
    \/ \E now \in Times : Expire(now)

LedgerSpec == LedgerInit /\ [][LedgerNext]_rows

-----------------------------------------------------------------------------
RowsTypeOK == rows \in [Keys -> Row \cup {NoRow}]

\* The budget is never oversold: whatever clocks the concurrent callers pass,
\* the losses of the HELD rows stay within the ceiling.  reserve() adds only
\* what fits after its own sweep, and no other operation adds to the sum
\* (reserve and assert_invariants; TECHNICAL-DESIGN "reservation oversell = 0").
HeldWithinCeiling == Held(rows) <= Ceiling

\* A settled reservation is never armed again: once RELEASED, EXPIRED or
\* CONSUMED, a row never returns to HELD under any replay of reserve(), and a
\* row that lapsed can never be spent afterwards.
SettledStaysSettled ==
    [][\A k \in Keys :
          /\ rows[k].status \in Settled => rows'[k].status \in Settled
          /\ rows[k].status \in {"RELEASED", "EXPIRED", "RECONCILED"}
                => rows'[k] = rows[k]]_rows

\* FR-RSK-011 of the PRD wants the risk in use and the effective reservations
\* together within the budget: the losses of CONSUMED rows, whose orders are
\* not reconciled yet, count with the HELD ones.
UsedAndHeldWithinCeiling ==
    Total([k \in Keys |-> IF rows[k].status \in {"HELD", "CONSUMED"}
                          THEN rows[k].loss ELSE 0]) <= Ceiling
=============================================================================
