----------------------- MODULE SubmitTradePlanProofs -----------------------
(***************************************************************************)
(* The chain uses the risk budget as the ledger means it to be used, and   *)
(* therefore never oversells it.  The receipts and the reservations it     *)
(* keeps in two registries agree, which turns on the ledger's lock: a call *)
(* inside consume_with_commit has it, its row is HELD, and its receipt is  *)
(* the only one that may be marked before its row is.  Neither a pause nor *)
(* a rejection leaves a row behind, and all registries together are the    *)
(* single-use grants of OrderAuthority.                                    *)
(***************************************************************************)
EXTENDS SubmitTradePlan, FiniteSetTheorems, TLAPS

LedgerProofs == INSTANCE RiskBudgetLedgerProofs WITH Keys <- Bases

\* The part of the typing that the arguments of the ledger's operations need.
Typed ==
    /\ attempts \in [Attempts -> Call \cup {NotCalled}]
    /\ clock \in Ledger!Times /\ epoch \in 0 .. MaxEpoch
    /\ ending \subseteq Bases /\ tracked \subseteq Bases /\ cut \in Bases \cup {None}

-----------------------------------------------------------------------------
Places == Running \cup Ended

LEMMA CallFields ==
    ASSUME NEW call \in Call
    PROVE  /\ call.pc \in Places /\ call.basis \in Bases /\ call.snapshot \in Snapshots
           /\ call.now \in Ledger!Times /\ call.healthy \in BOOLEAN
  BY DEF Call, Places

LEMMA CallAtCall ==
    ASSUME NEW call \in Call, NEW pc \in Places
    PROVE  CallAt(call, pc) \in Call
  BY CallFields DEF Call, CallAt, Places

LEMMA NotIdle ==
    ASSUME Typed, NEW a \in Attempts, attempts[a].pc # "idle"
    PROVE  attempts[a] \in Call
  BY DEF Typed, NotCalled

LEMMA GoesOn ==
    ASSUME Typed, NEW a \in Attempts, attempts[a].pc # "idle",
           NEW pc \in Places, Goto(a, pc)
    PROVE  attempts' \in [Attempts -> Call \cup {NotCalled}]
  BY CallAtCall, NotIdle DEF Typed, Goto

LEMMA TypedInit == Init => Typed
  BY LimitsAssumption, EpochAssumption DEF Init, Typed, Ledger!Times

LEMMA BeginTyped ==
    ASSUME Typed, NEW a \in Attempts, Begin(a)
    PROVE  attempts' \in [Attempts -> Call \cup {NotCalled}]
<1>1. PICK p \in Plans, s \in Snapshots, authority \in {Mandate(epoch), Approval},
           healthy \in BOOLEAN :
           attempts' = [attempts EXCEPT ![a] =
               [pc |-> "reserve", basis |-> <<p, authority>>, snapshot |-> s,
                now |-> clock, healthy |-> healthy]]
    BY DEF Begin
<1>2. authority \in Authorities
    BY DEF Typed, Authorities
<1>3. <<p, authority>> \in Bases
    BY <1>2 DEF Bases
<1>4. clock \in Ledger!Times
    BY DEF Typed
<1>5. [pc |-> "reserve", basis |-> <<p, authority>>, snapshot |-> s,
       now |-> clock, healthy |-> healthy] \in Call
    BY <1>3, <1>4 DEF Call, Running
<1>6. QED BY <1>1, <1>5 DEF Typed

LEMMA BeginOthers ==
    ASSUME Typed, NEW a \in Attempts, Begin(a)
    PROVE  /\ attempts'[a].pc = "reserve" /\ attempts'[a].now < ExpiryOf[attempts'[a].snapshot]
           /\ \A other \in Attempts \ {a} : attempts'[other] = attempts[other]
<1>1. PICK p \in Plans, s \in Snapshots, authority \in {Mandate(epoch), Approval},
           healthy \in BOOLEAN :
           /\ clock < ExpiryOf[s]
           /\ attempts' = [attempts EXCEPT ![a] =
               [pc |-> "reserve", basis |-> <<p, authority>>, snapshot |-> s,
                now |-> clock, healthy |-> healthy]]
    BY DEF Begin
<1>2. attempts'[a] = [pc |-> "reserve", basis |-> <<p, authority>>, snapshot |-> s,
                      now |-> clock, healthy |-> healthy]
    BY <1>1 DEF Typed
<1>3. QED BY <1>1, <1>2 DEF Typed

\* Where the steps of a running call go.
LEMMA Goes ==
    ASSUME NEW a \in Attempts, Submit(a), ~ Begin(a)
    PROVE  attempts[a].pc # "idle" /\ \E pc \in Places : Goto(a, pc)
<1>1. CASE Reserve(a) \/ GateCheck(a)
  <2>1. \E pc \in {"gate", "rejected", "issue", "release"} : Goto(a, pc)
      BY <1>1 DEF Reserve, GateCheck
  <2>2. QED BY <1>1, <2>1 DEF Reserve, GateCheck, At, Places, Running, Ended
<1>2. CASE IssueReceipt(a) \/ ReleaseRejected(a)
    BY <1>2 DEF IssueReceipt, ReleaseRejected, At, Places, Running, Ended
<1>3. CASE Prepare(a)
    BY <1>3 DEF Prepare, At, Places, Running, Ended
<1>4. CASE EnterConsume(a)
    BY <1>4 DEF EnterConsume, At, Places, Running, Ended
<1>5. CASE MarkConsumed(a) \/ CommitConsume(a)
    BY <1>5 DEF MarkConsumed, CommitConsume, At, Places, Running, Ended
<1>6. QED BY <1>1, <1>2, <1>3, <1>4, <1>5 DEF Submit

LEMMA SubmitTyped ==
    ASSUME Typed, NEW a \in Attempts, Submit(a)
    PROVE  Typed'
<1>1. attempts' \in [Attempts -> Call \cup {NotCalled}]
    BY BeginTyped, Goes, GoesOn
<1>2. UNCHANGED <<clock, mode, epoch, tracked, ending, cut>>
    BY DEF Submit, Begin, Reserve, GateCheck, IssueReceipt, ReleaseRejected, Prepare,
           EnterConsume, MarkConsumed, CommitConsume, pause
<1>3. QED BY <1>1, <1>2 DEF Typed

LEMMA TypedStep == Typed /\ [Next]_vars => Typed'
<1> SUFFICES ASSUME Typed, [Next]_vars PROVE Typed'
    OBVIOUS
<1>1. ASSUME NEW b \in Bases, Track(b) \/ InvalidateTracked(b) PROVE Typed'
    BY <1>1 DEF Track, InvalidateTracked, shared, Typed
<1>2. CASE Pause \/ ReleaseTracked
    BY <1>2 DEF Pause, ReleaseTracked, shared, Typed
<1>3. CASE Resume
    BY <1>3, EpochAssumption DEF Resume, shared, Typed
<1>4. CASE LedgerOwner
    BY <1>4 DEF LedgerOwner, pause, Typed
<1>5. CASE Tick
    BY <1>5, LimitsAssumption DEF Tick, pause, shared, Typed, Ledger!Times
<1>6. CASE UNCHANGED vars
    BY <1>6 DEF vars, Typed
<1>7. QED
    BY <1>1, <1>2, <1>3, <1>4, <1>5, <1>6, SubmitTyped DEF Next

-----------------------------------------------------------------------------
(* The chain is a ledger's caller *)

LEMMA SubmitRows ==
    ASSUME Typed, NEW a \in Attempts, Submit(a)
    PROVE  Ledger!LedgerNext \/ rows' = rows
<1>1. CASE attempts[a].pc # "idle"
  <2>1. /\ attempts[a].basis \in Bases /\ attempts[a].now \in Ledger!Times
        /\ attempts[a].snapshot \in Snapshots
      BY <1>1, NotIdle, CallFields
  <2>2. LossFor(attempts[a].basis) \in Ledger!Losses
      BY <2>1, LossAssumption DEF LossFor, Bases
  <2>3. ExpiryOf[attempts[a].snapshot] \in Ledger!Times
      BY <2>1, ExpiryAssumption
  <2>4. CASE Reserve(a)
      BY <2>1, <2>2, <2>3, <2>4 DEF Reserve, Ledger!LedgerNext
  <2>5. CASE ReleaseRejected(a)
      BY <2>1, <2>5 DEF ReleaseRejected, Ledger!LedgerNext
  <2>6. CASE CommitConsume(a)
      BY <2>1, <2>6 DEF CommitConsume, Ledger!LedgerNext
  <2>7. CASE GateCheck(a) \/ IssueReceipt(a) \/ Prepare(a) \/ EnterConsume(a) \/ MarkConsumed(a)
      BY <2>7 DEF GateCheck, IssueReceipt, Prepare, EnterConsume, MarkConsumed, shared
  <2>8. CASE Begin(a)
      BY <2>8 DEF Begin, shared
  <2>9. QED BY <2>4, <2>5, <2>6, <2>7, <2>8 DEF Submit
<1>2. CASE attempts[a].pc = "idle"
  <2>1. Begin(a)
      BY <1>2, Goes
  <2>2. QED BY <2>1 DEF Begin, shared
<1>3. QED BY <1>1, <1>2

LEMMA RowsStep ==
    ASSUME Typed, [Next]_vars
    PROVE  [Ledger!LedgerNext]_rows
<1>1. CASE ReleaseTracked
    BY <1>1 DEF ReleaseTracked, Typed, Ledger!LedgerNext
<1>2. CASE LedgerOwner
    BY <1>2 DEF LedgerOwner, Typed, Ledger!LedgerNext
<1>3. CASE \/ \E b \in Bases : Track(b) \/ InvalidateTracked(b)
           \/ Pause \/ Resume \/ Tick \/ UNCHANGED vars
    BY <1>3 DEF Track, InvalidateTracked, Pause, Resume, Tick, shared, vars
<1>4. QED
    BY <1>1, <1>2, <1>3, SubmitRows DEF Next

\* However submissions, pauses and the ledger's owner interleave, the rows go
\* through steps of the risk budget ledger and through no others.
THEOREM ChainIsLedger == Spec => Ledger!LedgerSpec
<1>1. Init => Ledger!LedgerInit
    BY DEF Init
<1>2. Typed /\ [Next]_vars => [Ledger!LedgerNext]_rows
    BY RowsStep
<1>3. QED
    BY <1>1, <1>2, TypedInit, TypedStep, PTL DEF Spec, Ledger!LedgerSpec

\* The ledger of the chain is the one the ledger's lemmas are about.
LEMMA SameLedger ==
    /\ Ledger!LedgerInit <=> LedgerProofs!LedgerInit
    /\ Ledger!LedgerNext <=> LedgerProofs!LedgerNext
    /\ Ledger!HeldWithinCeiling <=> LedgerProofs!HeldWithinCeiling
  BY DEF Ledger!LedgerInit, Ledger!LedgerNext, Ledger!HeldWithinCeiling, Ledger!Reserve,
         Ledger!Release, Ledger!Shrink, Ledger!Consume, Ledger!Reconcile, Ledger!Expire,
         Ledger!Swept, Ledger!Admits, Ledger!Fresh, Ledger!NoRow, Ledger!Moved,
         Ledger!ActiveAt, Ledger!Held, Ledger!HeldLosses, Ledger!Total, Ledger!Units,
         Ledger!Losses, Ledger!Times, LedgerProofs!LedgerInit, LedgerProofs!LedgerNext,
         LedgerProofs!HeldWithinCeiling, LedgerProofs!Reserve, LedgerProofs!Release,
         LedgerProofs!Shrink, LedgerProofs!Consume, LedgerProofs!Reconcile,
         LedgerProofs!Expire, LedgerProofs!Swept, LedgerProofs!Admits,
         LedgerProofs!Fresh, LedgerProofs!NoRow, LedgerProofs!Moved,
         LedgerProofs!ActiveAt, LedgerProofs!Held, LedgerProofs!HeldLosses,
         LedgerProofs!Total, LedgerProofs!Units, LedgerProofs!Losses, LedgerProofs!Times,
         Ledger!Cardinality, LedgerProofs!Cardinality

\* HeldWithinCeiling of the chain follows from the ledger's own invariant.
THEOREM ChainNeverOversold == Spec => []HeldWithinCeiling
<1>1. IsFiniteSet(Bases)
  <2>1. IsFiniteSet(0 .. MaxEpoch)
      BY FS_Interval, EpochAssumption
  <2>2. IsFiniteSet({Mandate(e) : e \in 0 .. MaxEpoch})
    <3> DEFINE mandates == {Mandate(e) : e \in 0 .. MaxEpoch}
               f == [e \in 0 .. MaxEpoch |-> Mandate(e)]
    <3>1. f \in Surjection(0 .. MaxEpoch, mandates)
        BY DEF Surjection
    <3>2. QED BY <2>1, <3>1, FS_Surjection
  <2>3. IsFiniteSet(Authorities)
      BY <2>2, FS_AddElement, FS_Union, FS_Singleton DEF Authorities
  <2>4. QED BY <2>3, PlansAssumption, FS_Product DEF Bases
<1>a. LedgerProofs!IsFiniteSet(Bases)
    BY <1>1 DEF IsFiniteSet, LedgerProofs!IsFiniteSet
<1>2. Init => LedgerProofs!Inv
    BY <1>a, LimitsAssumption, LedgerProofs!InitInv, SameLedger DEF Init
<1>3. Typed /\ LedgerProofs!Inv /\ [Next]_vars => LedgerProofs!Inv'
    BY <1>a, LimitsAssumption, LedgerProofs!NextInv, SameLedger, RowsStep
<1>4. LedgerProofs!Inv => HeldWithinCeiling
    BY SameLedger DEF LedgerProofs!Inv, HeldWithinCeiling
<1>5. QED
    BY <1>2, <1>3, <1>4, TypedInit, TypedStep, PTL DEF Spec

-----------------------------------------------------------------------------
(* Receipts and reservations *)

Spent(b) == rows[b].status \in {"CONSUMED", "RECONCILED"}
Inside(a) == attempts[a].pc \in {"mark", "commit"}
Committing(b) == \E a \in Attempts : attempts[a].pc = "commit" /\ attempts[a].basis = b

Coupled ==
    /\ Typed /\ DOMAIN rows = Bases
    /\ lock \in Attempts \cup {None}
    /\ \A a \in Attempts : Inside(a) <=> lock = a
    /\ \A a \in Attempts : Inside(a) => rows[attempts[a].basis].status = "HELD"
    /\ \A b \in Bases : b \in consumed <=> Spent(b) \/ Committing(b)

\* No operation of the ledger but consume() spends a row or takes that back.
LEMMA RowKept ==
    ASSUME DOMAIN rows = Bases,
           \/ \E b \in Bases : \E loss, expires, now : Ledger!Reserve(b, loss, expires, now)
           \/ \E b \in Bases : Ledger!Release(b) \/ Ledger!Reconcile(b)
           \/ \E b \in Bases : \E loss : Ledger!Shrink(b, loss)
           \/ \E now : Ledger!Expire(now)
    PROVE  DOMAIN rows' = Bases /\ \A k \in Bases : Spent(k)' <=> Spent(k)
<1>1. ASSUME NEW now
      PROVE  /\ DOMAIN Ledger!Swept(rows, now) = Bases
             /\ \A k \in Bases :
                   \/ Ledger!Swept(rows, now)[k] = rows[k]
                   \/ rows[k].status = "HELD" /\ Ledger!Swept(rows, now)[k].status = "EXPIRED"
    BY DEF Ledger!Swept, Ledger!Moved
<1>2. ASSUME NEW b \in Bases, NEW loss, NEW expires, NEW now,
             Ledger!Reserve(b, loss, expires, now)
      PROVE  DOMAIN rows' = Bases /\ \A k \in Bases : Spent(k)' <=> Spent(k)
  <2> DEFINE swept == Ledger!Swept(rows, now)
  <2>1. \/ rows' = swept
        \/ /\ swept[b].status \in {"HELD", "NONE"}
           /\ rows' = [swept EXCEPT ![b] = Ledger!Fresh(loss, expires)]
      BY <1>2 DEF Ledger!Reserve, Ledger!Admits, Ledger!Fresh, Ledger!NoRow
  <2>2. Ledger!Fresh(loss, expires).status = "HELD"
      BY DEF Ledger!Fresh
  <2>3. QED BY <1>1, <2>1, <2>2 DEF Spent
<1>3. ASSUME NEW b \in Bases, Ledger!Release(b) \/ Ledger!Reconcile(b)
      PROVE  DOMAIN rows' = Bases /\ \A k \in Bases : Spent(k)' <=> Spent(k)
    BY <1>3 DEF Ledger!Release, Ledger!Reconcile, Ledger!Moved, Spent
<1>4. ASSUME NEW b \in Bases, NEW loss, Ledger!Shrink(b, loss)
      PROVE  DOMAIN rows' = Bases /\ \A k \in Bases : Spent(k)' <=> Spent(k)
  <2>1. [Ledger!Moved(rows[b], "HELD") EXCEPT !.loss = loss].status = "HELD"
      BY DEF Ledger!Moved
  <2>2. QED BY <1>4, <2>1 DEF Ledger!Shrink, Spent
<1>5. ASSUME NEW now, Ledger!Expire(now)
      PROVE  DOMAIN rows' = Bases /\ \A k \in Bases : Spent(k)' <=> Spent(k)
    BY <1>5, <1>1 DEF Ledger!Expire, Spent
<1>6. QED BY <1>2, <1>3, <1>4, <1>5

LEMMA CoupledInit == Init => Coupled
  BY TypedInit, NoneAssumption
     DEF Init, Coupled, Ledger!LedgerInit, Ledger!NoRow, NotCalled, Spent, Inside, Committing

\* With the lock free and nobody inside, the rows change by an operation other
\* than consume(), and no call goes inside.
LEMMA RowsMove ==
    ASSUME Coupled, Typed', lock = None, lock' = None, consumed' = consumed,
           DOMAIN rows' = Bases, \A k \in Bases : Spent(k)' <=> Spent(k),
           \A a \in Attempts : ~ Inside(a)'
    PROVE  Coupled'
  BY NoneAssumption DEF Coupled, Inside, Committing, Spent

\* The rows, the lock and the registry stay, and no call goes in or out.
LEMMA CallsMove ==
    ASSUME Coupled, Typed', UNCHANGED <<rows, lock, consumed>>,
           \A a \in Attempts : \/ attempts'[a] = attempts[a]
                               \/ ~ Inside(a) /\ ~ Inside(a)'
    PROVE  Coupled'
  BY DEF Coupled, Inside, Committing, Spent

LEMMA PlaceOf ==
    ASSUME Typed, NEW a \in Attempts, NEW pc, Goto(a, pc)
    PROVE  /\ attempts'[a].pc = pc /\ attempts'[a].basis = attempts[a].basis
           /\ \A other \in Attempts \ {a} : attempts'[other] = attempts[other]
  BY DEF Typed, Goto, CallAt

\* While the lock is free nobody is inside, and a call that goes on to a place
\* outside leaves it so.
LEMMA NobodyInside ==
    ASSUME Coupled, lock = None
    PROVE  \A a \in Attempts : ~ Inside(a)
  BY NoneAssumption DEF Coupled

LEMMA StaysOutside ==
    ASSUME Coupled, lock = None, NEW a \in Attempts,
           NEW pc \in Places \ {"mark", "commit"}, Goto(a, pc)
    PROVE  \A other \in Attempts : ~ Inside(other)'
  BY NobodyInside, PlaceOf DEF Coupled, Inside

LEMMA EntersConsume ==
    ASSUME Coupled, Typed', NEW a \in Attempts, EnterConsume(a)
    PROVE  Coupled'
<1> DEFINE b == attempts[a].basis
<1>1. /\ lock = None /\ UNCHANGED <<rows, consumed>>
      /\ \A other \in Attempts : ~ Inside(other)
    BY NobodyInside DEF EnterConsume
<1>2. CASE Ledger!ActiveAt(rows[b], attempts[a].now)
  <2>1. lock' = a /\ Goto(a, "mark") /\ rows[b].status = "HELD"
      BY <1>2 DEF EnterConsume, Ledger!ActiveAt
  <2>2. /\ attempts'[a].pc = "mark" /\ attempts'[a].basis = b
        /\ \A other \in Attempts \ {a} : attempts'[other] = attempts[other]
      BY <2>1, PlaceOf DEF Coupled
  <2>3. \A k \in Bases : ~ Committing(k) /\ ~ Committing(k)'
      BY <1>1, <2>2 DEF Inside, Committing
  <2>4. QED BY <1>1, <2>1, <2>2, <2>3 DEF Coupled, Inside, Spent
<1>3. CASE ~ Ledger!ActiveAt(rows[b], attempts[a].now)
  <2>1. lock' = lock /\ Goto(a, "rejected")
      BY <1>3 DEF EnterConsume
  <2>2. \A other \in Attempts : ~ Inside(other)'
      BY <1>1, <2>1, StaysOutside DEF Places, Ended
  <2>3. QED BY <1>1, <2>1, <2>2, CallsMove
<1>4. QED BY <1>2, <1>3

LEMMA MarksConsumed ==
    ASSUME Coupled, Typed', NEW a \in Attempts, MarkConsumed(a)
    PROVE  Coupled'
<1> DEFINE b == attempts[a].basis
<1>1. /\ rows' = rows /\ attempts[a].pc = "mark" /\ Inside(a) /\ lock = a
      /\ b \in Bases
  <2>1. rows' = rows /\ attempts[a].pc = "mark"
      BY DEF MarkConsumed, At
  <2>2. b \in Bases
      BY <2>1, NotIdle, CallFields DEF Coupled
  <2>3. QED BY <2>1, <2>2 DEF Coupled, Inside
<1>2. /\ \A other \in Attempts \ {a} : ~ Inside(other)
      /\ \A k \in Bases : ~ Committing(k)
    BY <1>1 DEF Coupled, Inside, Committing
<1>3. CASE consumed' = consumed \cup {b} /\ lock' = lock /\ Goto(a, "commit")
  <2>1. /\ attempts'[a].pc = "commit" /\ attempts'[a].basis = b
        /\ \A other \in Attempts \ {a} : attempts'[other] = attempts[other]
      BY <1>3, PlaceOf DEF Coupled
  <2>2. \A k \in Bases : Committing(k)' <=> k = b
      BY <1>2, <2>1 DEF Inside, Committing
  <2>3. \A other \in Attempts : Inside(other)' <=> other = a
      BY <1>2, <2>1 DEF Inside
  <2>4. \A k \in Bases : k \in consumed' <=> Spent(k)' \/ Committing(k)'
      BY <1>1, <1>2, <1>3, <2>2 DEF Coupled, Spent
  <2>5. rows'[attempts'[a].basis].status = "HELD"
      BY <1>1, <2>1 DEF Coupled
  <2>6. QED BY <1>1, <1>3, <2>3, <2>4, <2>5 DEF Coupled
<1>4. CASE consumed' = consumed /\ lock' = None /\ Goto(a, "rejected")
  <2>1. \A other \in Attempts : ~ Inside(other)'
      BY <1>2, <1>4, PlaceOf DEF Coupled, Inside
  <2>2. \A k \in Bases : ~ Committing(k)'
      BY <2>1 DEF Inside, Committing
  <2>3. QED BY <1>1, <1>2, <1>4, <2>1, <2>2, NoneAssumption DEF Coupled, Spent
<1>5. QED BY <1>3, <1>4 DEF MarkConsumed

LEMMA CommitsConsume ==
    ASSUME Coupled, Typed', NEW a \in Attempts, CommitConsume(a)
    PROVE  Coupled'
<1> DEFINE b == attempts[a].basis
<1>1. attempts[a].pc = "commit" /\ Inside(a) /\ lock = a /\ lock' = None
    BY DEF CommitConsume, At, Coupled, Inside
<1>2. b \in Bases
    BY <1>1, NotIdle, CallFields DEF Coupled
<1>3. /\ rows' = [rows EXCEPT ![b] = Ledger!Moved(rows[b], "CONSUMED")]
      /\ consumed' = consumed
    BY DEF CommitConsume, Ledger!Consume
<1>4. \A k \in Bases : Spent(k)' <=> k = b \/ Spent(k)
    BY <1>2, <1>3 DEF Coupled, Spent, Ledger!Moved
<1>5. \A k \in Bases : Committing(k) <=> k = b
    BY <1>1 DEF Coupled, Inside, Committing
<1>6. \A other \in Attempts : ~ Inside(other)'
  <2>1. Goto(a, "submitted")
      BY DEF CommitConsume
  <2>2. QED BY <1>1, <2>1, PlaceOf DEF Coupled, Inside
<1>7. \A k \in Bases : ~ Committing(k)'
    BY <1>6 DEF Inside, Committing
<1>8. DOMAIN rows' = Bases
    BY <1>3 DEF Coupled
<1>9. QED
    BY <1>1, <1>3, <1>4, <1>5, <1>6, <1>7, <1>8, NoneAssumption DEF Coupled

LEMMA SubmitCoupled ==
    ASSUME Coupled, Typed', NEW a \in Attempts, Submit(a)
    PROVE  Coupled'
<1>1. CASE Begin(a)
  <2>1. UNCHANGED <<rows, lock, consumed>> /\ ~ Inside(a)
      BY <1>1 DEF Begin, shared, At, Inside
  <2>2. /\ ~ Inside(a)'
        /\ \A other \in Attempts \ {a} : attempts'[other] = attempts[other]
      BY <1>1, BeginOthers DEF Coupled, Inside
  <2>3. QED BY <2>1, <2>2, CallsMove
<1>2. CASE GateCheck(a) \/ IssueReceipt(a) \/ Prepare(a)
  <2>1. UNCHANGED <<rows, lock, consumed>> /\ ~ Inside(a)
      BY <1>2 DEF GateCheck, IssueReceipt, Prepare, shared, At, Inside
  <2>2. PICK pc \in {"issue", "release", "prepare", "consume", "authorized", "raised"} :
            Goto(a, pc)
      BY <1>2 DEF GateCheck, IssueReceipt, Prepare
  <2>3. /\ ~ Inside(a)'
        /\ \A other \in Attempts \ {a} : attempts'[other] = attempts[other]
      BY <2>2, PlaceOf DEF Coupled, Inside
  <2>4. QED BY <2>1, <2>3, CallsMove
<1>3. CASE Reserve(a)
  <2>1. lock = None /\ lock' = None /\ consumed' = consumed
      BY <1>3 DEF Reserve
  <2>2. attempts[a].basis \in Bases
      BY <1>3, NotIdle, CallFields DEF Reserve, At, Coupled
  <2>3. DOMAIN rows' = Bases /\ \A k \in Bases : Spent(k)' <=> Spent(k)
      BY <1>3, <2>2, RowKept DEF Reserve, Coupled
  <2>4. \E pc \in {"gate", "rejected"} : Goto(a, pc)
      BY <1>3 DEF Reserve
  <2>5. \A other \in Attempts : ~ Inside(other)'
      BY <2>1, <2>4, StaysOutside DEF Places, Running, Ended
  <2>6. QED BY <2>1, <2>3, <2>5, RowsMove
<1>4. CASE ReleaseRejected(a)
  <2>1. lock = None /\ lock' = None /\ consumed' = consumed /\ Goto(a, "rejected")
      BY <1>4 DEF ReleaseRejected
  <2>2. attempts[a].basis \in Bases
      BY <1>4, NotIdle, CallFields DEF ReleaseRejected, At, Coupled
  <2>3. DOMAIN rows' = Bases /\ \A k \in Bases : Spent(k)' <=> Spent(k)
      BY <1>4, <2>2, RowKept DEF ReleaseRejected, Coupled
  <2>4. \A other \in Attempts : ~ Inside(other)'
      BY <2>1, StaysOutside DEF Places, Running, Ended
  <2>5. QED BY <2>1, <2>3, <2>4, RowsMove
<1>5. QED
    BY <1>1, <1>2, <1>3, <1>4, EntersConsume, MarksConsumed, CommitsConsume DEF Submit

LEMMA CoupledStep ==
    ASSUME Coupled, [Next]_vars
    PROVE  Coupled'
<1>1. Typed'
    BY TypedStep DEF Coupled
<1>2. ASSUME \/ \E b \in Bases : Track(b) \/ InvalidateTracked(b)
             \/ Pause \/ Resume \/ Tick \/ UNCHANGED vars
      PROVE  Coupled'
  <2>1. UNCHANGED <<rows, lock, consumed, attempts>>
      BY <1>2 DEF Track, InvalidateTracked, Pause, Resume, Tick, shared, vars
  <2>2. QED BY <1>1, <2>1, CallsMove
<1>3. ASSUME ReleaseTracked \/ LedgerOwner
      PROVE  Coupled'
  <2>1. /\ lock = None /\ lock' = None
        /\ UNCHANGED <<consumed, attempts>>
      BY <1>3 DEF ReleaseTracked, LedgerOwner
  <2>2. DOMAIN rows' = Bases /\ \A k \in Bases : Spent(k)' <=> Spent(k)
    <3>1. CASE ReleaseTracked
        BY <3>1, RowKept DEF ReleaseTracked, Coupled, Typed
    <3>2. CASE LedgerOwner
      <4>1. \/ \E b \in Bases : \E loss : Ledger!Shrink(b, loss)
            \/ \E b \in Bases : Ledger!Reconcile(b)
            \/ Ledger!Expire(clock)
          BY <3>2 DEF LedgerOwner
      <4>2. DOMAIN rows = Bases
          BY DEF Coupled
      <4>3. CASE \E b \in Bases : \E loss : Ledger!Shrink(b, loss)
          BY <4>2, <4>3, RowKept
      <4>4. CASE \E b \in Bases : Ledger!Reconcile(b)
          BY <4>2, <4>4, RowKept
      <4>5. CASE Ledger!Expire(clock)
          BY <4>2, <4>5, RowKept
      <4>6. QED BY <4>1, <4>3, <4>4, <4>5
    <3>3. QED BY <1>3, <3>1, <3>2
  <2>3. \A a \in Attempts : ~ Inside(a)'
      BY <2>1, NobodyInside DEF Inside
  <2>4. QED BY <1>1, <2>1, <2>2, <2>3, RowsMove
<1>4. QED
    BY <1>1, <1>2, <1>3, SubmitCoupled DEF Next

\* ReceiptAndRowAgree holds for any number of calls, plans and mandate versions:
\* with the lock free nobody is between the two halves of consume_with_commit.
THEOREM ReceiptsAgree == Spec => []ReceiptAndRowAgree
<1>1. Coupled => ReceiptAndRowAgree
  <2> SUFFICES ASSUME Coupled, lock = None
               PROVE  \A b \in Bases : b \in consumed <=> Spent(b)
      BY DEF ReceiptAndRowAgree, Spent
  <2>1. \A b \in Bases : ~ Committing(b)
      BY NobodyInside DEF Inside, Committing
  <2>2. QED BY <2>1 DEF Coupled
<1>2. QED
    BY <1>1, CoupledInit, CoupledStep, PTL DEF Spec

-----------------------------------------------------------------------------
(* Pauses and reservations *)

Made(b) == rows[b] # Ledger!NoRow
Over(b) == Made(b) /\ rows[b].status # "HELD"

Walked ==
    /\ Typed /\ DOMAIN rows = Bases
    /\ ending \subseteq tracked /\ cut \in ending \cup {None}
    /\ \A b \in tracked : Made(b)
    /\ \A b \in invalidated : b \in Bases /\ (b # cut => Over(b))

\* A row, once made, stays, and once over is never armed again; while it is
\* HELD it keeps its expiry.
LEMMA RowsLast ==
    ASSUME DOMAIN rows = Bases, [Ledger!LedgerNext]_rows
    PROVE  /\ DOMAIN rows' = Bases
           /\ \A k \in Bases :
                 /\ (Made(k) => Made(k)') /\ (Over(k) => Over(k)') /\ (Spent(k) => Spent(k)')
                 /\ Made(k) /\ rows'[k].status = "HELD" => rows'[k].expires = rows[k].expires
<1> DEFINE Kept == /\ DOMAIN rows' = Bases
                   /\ \A k \in Bases :
                         /\ (Made(k) => Made(k)') /\ (Over(k) => Over(k)') /\ (Spent(k) => Spent(k)')
                         /\ Made(k) /\ rows'[k].status = "HELD"
                               => rows'[k].expires = rows[k].expires
<1>1. ASSUME NEW now
      PROVE  /\ DOMAIN Ledger!Swept(rows, now) = Bases
             /\ \A k \in Bases :
                   \/ Ledger!Swept(rows, now)[k] = rows[k]
                   \/ rows[k].status = "HELD" /\ Ledger!Swept(rows, now)[k].status = "EXPIRED"
    BY DEF Ledger!Swept, Ledger!Moved
<1>2. Ledger!NoRow.status = "NONE"
    BY DEF Ledger!NoRow
<1>3. ASSUME NEW b \in Bases, NEW loss, NEW expires, NEW now,
             Ledger!Reserve(b, loss, expires, now)
      PROVE  Kept
  <2> DEFINE swept == Ledger!Swept(rows, now)
             fresh == Ledger!Fresh(loss, expires)
  <2>1. \/ rows' = swept
        \/ /\ swept[b] \in {fresh, Ledger!NoRow}
           /\ rows' = [swept EXCEPT ![b] = fresh]
      BY <1>3 DEF Ledger!Reserve, Ledger!Admits
  <2>2. fresh.status = "HELD"
      BY DEF Ledger!Fresh
  <2>3. QED BY <1>1, <1>2, <2>1, <2>2 DEF Made, Over, Spent
<1>4. ASSUME NEW b \in Bases, NEW status \in {"RELEASED", "CONSUMED", "RECONCILED"},
             status = "RELEASED" => rows[b].status = "HELD",
             rows' = [rows EXCEPT ![b] = Ledger!Moved(rows[b], status)]
      PROVE  Kept
  <2>1. Ledger!Moved(rows[b], status).status = status
      BY DEF Ledger!Moved
  <2>2. QED BY <1>2, <1>4, <2>1 DEF Made, Over, Spent
<1>5. ASSUME NEW b \in Bases, NEW loss, Ledger!Shrink(b, loss)
      PROVE  Kept
  <2> DEFINE less == [Ledger!Moved(rows[b], "HELD") EXCEPT !.loss = loss]
  <2>1. less.status = "HELD" /\ less.expires = rows[b].expires
      BY DEF Ledger!Moved
  <2>2. rows' = [rows EXCEPT ![b] = less] /\ rows[b].status = "HELD"
      BY <1>5 DEF Ledger!Shrink
  <2>3. QED BY <1>2, <2>1, <2>2 DEF Made, Over, Spent
<1>6. ASSUME NEW now, Ledger!Expire(now)
      PROVE  Kept
    BY <1>1, <1>2, <1>6 DEF Ledger!Expire, Made, Over, Spent
<1>7. CASE UNCHANGED rows
    BY <1>7 DEF Made, Over, Spent
<1>8. QED
    BY <1>3, <1>4, <1>5, <1>6, <1>7
       DEF Ledger!LedgerNext, Ledger!Release, Ledger!Consume, Ledger!Reconcile

LEMMA WalkedInit == Init => Walked
  BY TypedInit DEF Init, Walked, Ledger!LedgerInit

LEMMA WalkedStep ==
    ASSUME Walked, [Next]_vars
    PROVE  Walked'
<1>1. /\ Typed' /\ DOMAIN rows' = Bases
      /\ \A k \in Bases : (Made(k) => Made(k)') /\ (Over(k) => Over(k)')
    BY TypedStep, RowsStep, RowsLast DEF Walked
<1>2. tracked \subseteq Bases /\ cut \in Bases \cup {None}
    BY DEF Walked, Typed
<1>3. ASSUME UNCHANGED <<tracked, ending, cut, invalidated>>
      PROVE  Walked'
    BY <1>1, <1>2, <1>3 DEF Walked
<1>4. CASE \E a \in Attempts : Submit(a)
  <2>1. UNCHANGED <<tracked, ending, cut, invalidated>>
      BY <1>4 DEF Submit, Begin, Reserve, GateCheck, IssueReceipt, ReleaseRejected,
                  Prepare, EnterConsume, MarkConsumed, CommitConsume, shared, pause
  <2>2. QED BY <1>3, <2>1
<1>5. CASE Resume \/ LedgerOwner \/ Tick \/ UNCHANGED vars
    BY <1>3, <1>5 DEF Resume, LedgerOwner, Tick, shared, pause, vars
<1>6. CASE Pause
    BY <1>1, <1>2, <1>6 DEF Pause, shared, Walked
<1>7. ASSUME NEW b \in Bases, Track(b)
      PROVE  Walked'
  <2>1. Made(b)
      BY <1>7 DEF Track, Made
  <2>2. QED BY <1>1, <1>2, <1>7, <2>1 DEF Track, shared, Walked
<1>8. ASSUME NEW b \in Bases, InvalidateTracked(b)
      PROVE  Walked'
  <2>1. \A k \in invalidated : Over(k)
    <3>1. \A k \in Bases : k # None
        BY NoneAssumption
    <3>2. QED BY <1>8, <3>1 DEF InvalidateTracked, Walked
  <2>2. QED BY <1>1, <1>2, <1>8, <2>1 DEF InvalidateTracked, Walked
<1>9. CASE ReleaseTracked
  <2>1. cut \in Bases /\ Made(cut)
      BY <1>2, <1>9 DEF ReleaseTracked, Walked
  <2>2. rows'[cut].status # "HELD"
      BY <1>9, <2>1 DEF ReleaseTracked, Ledger!Release, Ledger!Moved, Walked
  <2>3. rows'[cut] # Ledger!NoRow
      BY <1>1, <2>1 DEF Made
  <2>4. QED BY <1>1, <1>2, <1>9, <2>1, <2>2, <2>3 DEF ReleaseTracked, Walked, Over, Made
<1>10. QED
    BY <1>4, <1>5, <1>6, <1>7, <1>8, <1>9 DEF Next

\* PausedHoldsNothing holds for any number of calls and pauses: a basis is
\* tracked only once it has a row, and a row that was let go is not armed again.
THEOREM PausesHoldNothing == Spec => []PausedHoldsNothing
<1>1. Walked => PausedHoldsNothing
    BY DEF Walked, Over, PausedHoldsNothing
<1>2. QED
    BY <1>1, WalkedInit, WalkedStep, PTL DEF Spec

-----------------------------------------------------------------------------
(* Rejections and reservations *)

Gated == {"issue", "prepare", "consume", "mark", "commit"}

Owed ==
    /\ Coupled /\ Walked /\ DOMAIN receipts = Bases
    /\ \A a \in Attempts : attempts[a].pc # "idle"
          => attempts[a].now < ExpiryOf[attempts[a].snapshot]
    /\ \A a \in Attempts : attempts[a].pc \in Gated
          => LET row == rows[attempts[a].basis]
             IN  /\ row # Ledger!NoRow
                 /\ row.status = "HELD" => row.expires = ExpiryOf[attempts[a].snapshot]
    /\ \A a \in Attempts : attempts[a].pc \in Gated \ {"issue"}
          => receipts[attempts[a].basis] = attempts[a].snapshot
    /\ RejectedHoldsNothing

\* Only a reserve() that is accepted arms a row.
LEMMA Armed ==
    ASSUME DOMAIN rows = Bases, Typed, [Next]_vars, NEW k \in Bases,
           rows'[k].status = "HELD"
    PROVE  \/ rows[k].status = "HELD"
           \/ \E a \in Attempts : Reserve(a) /\ attempts[a].basis = k /\ Goto(a, "gate")
<1>1. ASSUME NEW now
      PROVE  \/ Ledger!Swept(rows, now)[k] = rows[k]
             \/ Ledger!Swept(rows, now)[k].status = "EXPIRED"
    BY DEF Ledger!Swept, Ledger!Moved
<1>2. ASSUME NEW a \in Attempts, Reserve(a)
      PROVE  rows[k].status = "HELD" \/ (attempts[a].basis = k /\ Goto(a, "gate"))
  <2> DEFINE b == attempts[a].basis
             swept == Ledger!Swept(rows, attempts[a].now)
             expires == ExpiryOf[attempts[a].snapshot]
  <2>1. CASE Ledger!Admits(swept, b, LossFor(b), expires, attempts[a].now)
    <3>1. Goto(a, "gate") /\ rows' = [swept EXCEPT ![b] = Ledger!Fresh(LossFor(b), expires)]
        BY <1>2, <2>1 DEF Reserve, Ledger!Reserve
    <3>2. k # b => rows'[k] = swept[k]
        BY <3>1
    <3>3. QED BY <1>1, <3>1, <3>2
  <2>2. CASE ~ Ledger!Admits(swept, b, LossFor(b), expires, attempts[a].now)
    <3>1. rows' = swept
        BY <1>2, <2>2 DEF Reserve, Ledger!Reserve
    <3>2. QED BY <1>1, <3>1
  <2>3. QED BY <2>1, <2>2
<1>3. ASSUME NEW b, Ledger!Release(b) \/ Ledger!Reconcile(b)
      PROVE  rows[k].status = "HELD"
    BY <1>3 DEF Ledger!Release, Ledger!Reconcile, Ledger!Moved
<1>4. ASSUME NEW b, NEW now, Ledger!Consume(b, now)
      PROVE  rows[k].status = "HELD"
    BY <1>4 DEF Ledger!Consume, Ledger!Moved
<1>5. ASSUME NEW b, NEW loss, Ledger!Shrink(b, loss)
      PROVE  rows[k].status = "HELD"
  <2>1. \/ k = b /\ rows[b].status = "HELD"
        \/ k # b /\ rows'[k] = rows[k]
      BY <1>5 DEF Ledger!Shrink
  <2>2. QED BY <2>1
<1>6. ASSUME Ledger!Expire(clock)
      PROVE  rows[k].status = "HELD"
    BY <1>1, <1>6 DEF Ledger!Expire
<1>7. ASSUME NEW a \in Attempts, Submit(a), ~ Reserve(a)
      PROVE  rows[k].status = "HELD"
    BY <1>3, <1>4, <1>7
       DEF Submit, Begin, GateCheck, IssueReceipt, ReleaseRejected, Prepare,
           EnterConsume, MarkConsumed, CommitConsume, shared
<1>8. CASE ReleaseTracked
    BY <1>3, <1>8 DEF ReleaseTracked
<1>9. CASE LedgerOwner
  <2>1. \/ \E b \in Bases : \E loss : Ledger!Shrink(b, loss)
        \/ \E b \in Bases : Ledger!Reconcile(b)
        \/ Ledger!Expire(clock)
      BY <1>9 DEF LedgerOwner
  <2>2. QED BY <1>3, <1>5, <1>6, <2>1
<1>10. CASE \/ \E b \in Bases : Track(b) \/ InvalidateTracked(b)
            \/ Pause \/ Resume \/ Tick \/ UNCHANGED vars
    BY <1>10 DEF Track, InvalidateTracked, Pause, Resume, Tick, shared, vars
<1>11. QED
    BY <1>2, <1>7, <1>8, <1>9, <1>10 DEF Next

\* A call keeps what it captured; only Begin captures.
LEMMA Captured ==
    ASSUME Typed, NEW a \in Attempts, Submit(a), ~ Begin(a)
    PROVE  /\ attempts[a] \in Call /\ attempts'[a].pc \in Places
           /\ attempts'[a].basis = attempts[a].basis
           /\ attempts'[a].snapshot = attempts[a].snapshot
           /\ attempts'[a].now = attempts[a].now
           /\ \A other \in Attempts \ {a} : attempts'[other] = attempts[other]
<1>1. attempts[a].pc # "idle" /\ \E pc \in Places : Goto(a, pc)
    BY Goes
<1>2. attempts[a] \in Call
    BY <1>1, NotIdle
<1>3. QED BY <1>1, <1>2 DEF Typed, Goto, CallAt

Started(a) == attempts[a].pc # "idle" => attempts[a].now < ExpiryOf[attempts[a].snapshot]
Lasting(a) == attempts[a].pc \in Gated =>
    LET row == rows[attempts[a].basis]
    IN  /\ row # Ledger!NoRow
        /\ row.status = "HELD" => row.expires = ExpiryOf[attempts[a].snapshot]
Receipted(a) == attempts[a].pc \in Gated \ {"issue"}
    => receipts[attempts[a].basis] = attempts[a].snapshot

\* What holds of a call survives the steps of everybody else.
LEMMA OthersKeep ==
    ASSUME Owed, [Next]_vars, NEW a \in Attempts, attempts'[a] = attempts[a]
    PROVE  Started(a)' /\ Lasting(a)'
<1>1. Started(a)'
    BY DEF Owed, Started
<1>2. ASSUME attempts[a].pc \in Gated PROVE Lasting(a)'
  <2>1. attempts[a].pc # "idle"
      BY <1>2 DEF Gated
  <2>2. attempts[a].basis \in Bases
      BY <2>1, NotIdle, CallFields DEF Owed, Coupled
  <2>3. DOMAIN rows = Bases /\ Typed
      BY DEF Owed, Coupled
  <2>4. /\ \A k \in Bases : Made(k) => Made(k)'
        /\ \A k \in Bases : Over(k) => Over(k)'
        /\ \A k \in Bases : Made(k) /\ rows'[k].status = "HELD"
              => rows'[k].expires = rows[k].expires
      BY <2>3, RowsStep, RowsLast
  <2>5. QED BY <1>2, <2>2, <2>4 DEF Owed, Lasting, Made, Over
<1>3. QED BY <1>1, <1>2 DEF Lasting

LEMMA OwnKeep ==
    ASSUME Owed, NEW a \in Attempts, Submit(a)
    PROVE  Started(a)' /\ Lasting(a)'
<1>1. CASE Begin(a)
    BY <1>1, BeginOthers DEF Owed, Coupled, Started, Lasting, Gated
<1>2. CASE ~ Begin(a)
  <2>1. Typed
      BY DEF Owed, Coupled
  <2>2. /\ attempts[a].pc # "idle" /\ attempts'[a].basis = attempts[a].basis
        /\ attempts'[a].snapshot = attempts[a].snapshot
        /\ attempts'[a].now = attempts[a].now
      BY <1>2, <2>1, Captured, Goes
  <2>3. Started(a)'
      BY <2>2 DEF Owed, Started
  <2>4. CASE attempts'[a].pc \notin Gated
      BY <2>3, <2>4 DEF Lasting
  <2>5. CASE Reserve(a) \/ ReleaseRejected(a) \/ CommitConsume(a)
    <3>1. \E pc \in {"gate", "rejected", "submitted"} : Goto(a, pc)
        BY <2>5 DEF Reserve, ReleaseRejected, CommitConsume
    <3>2. attempts'[a].pc \notin Gated
        BY <2>1, <3>1, PlaceOf DEF Gated
    <3>3. QED BY <2>4, <3>2
  <2>6. CASE GateCheck(a)
    <3>1. CASE rows[attempts[a].basis] = Wanted(a)
      <4>1. /\ rows[attempts[a].basis].status = "HELD"
            /\ rows[attempts[a].basis].expires = ExpiryOf[attempts[a].snapshot]
          BY <3>1 DEF Wanted, Ledger!Fresh
      <4>2. rows[attempts[a].basis] # Ledger!NoRow
          BY <4>1 DEF Ledger!NoRow
      <4>3. rows' = rows
          BY <2>6 DEF GateCheck, shared
      <4>4. QED BY <2>2, <2>3, <4>1, <4>2, <4>3 DEF Lasting
    <3>2. CASE rows[attempts[a].basis] # Wanted(a)
      <4>1. Goto(a, "release")
          BY <2>6, <3>2 DEF GateCheck
      <4>2. attempts'[a].pc \notin Gated
          BY <2>1, <4>1, PlaceOf DEF Gated
      <4>3. QED BY <2>4, <4>2
    <3>3. QED BY <3>1, <3>2
  <2>7. CASE IssueReceipt(a) \/ Prepare(a) \/ EnterConsume(a) \/ MarkConsumed(a)
    <3>1. attempts[a].pc \in Gated /\ rows' = rows
        BY <2>7 DEF IssueReceipt, Prepare, EnterConsume, MarkConsumed, At, Gated, shared
    <3>2. QED BY <2>2, <2>3, <3>1 DEF Owed, Lasting
  <2>8. QED BY <1>2, <2>3, <2>4, <2>5, <2>6, <2>7 DEF Submit
<1>3. QED BY <1>1, <1>2

\* A receipt that was given is not taken back, and not given for other evidence.
LEMMA ReceiptsStay ==
    ASSUME Owed, [Next]_vars
    PROVE  /\ DOMAIN receipts' = Bases
           /\ \A a \in Attempts : Receipted(a)'
<1>1. Typed /\ DOMAIN receipts = Bases /\ \A a \in Attempts : Receipted(a)
    BY DEF Owed, Coupled, Receipted
<1>2. ASSUME UNCHANGED <<receipts, attempts>>
      PROVE  /\ DOMAIN receipts' = Bases
             /\ \A a \in Attempts : Receipted(a)'
    BY <1>1, <1>2 DEF Receipted
<1>3. ASSUME NEW a \in Attempts, Submit(a)
      PROVE  /\ DOMAIN receipts' = Bases
             /\ \A other \in Attempts : Receipted(other)'
  <2>1. CASE IssueReceipt(a)
    <3> DEFINE b == attempts[a].basis
               s == attempts[a].snapshot
    <3>1. /\ attempts[a] \in Call /\ b \in Bases /\ s \in Snapshots
          /\ attempts'[a].basis = b /\ attempts'[a].snapshot = s
          /\ \A other \in Attempts \ {a} : attempts'[other] = attempts[other]
      <4>1. attempts[a].pc = "issue" /\ ~ Begin(a)
          BY <2>1 DEF IssueReceipt, Begin, At
      <4>2. QED BY <1>1, <1>3, <4>1, Captured, CallFields
    <3>2. CASE receipts' = receipts /\ Goto(a, "release")
      <4>1. attempts'[a].pc = "release"
          BY <1>1, <3>2, PlaceOf
      <4>2. QED BY <1>1, <3>1, <3>2, <4>1 DEF Receipted, Gated
    <3>3. CASE receipts[b] \in {None, s} /\ receipts' = [receipts EXCEPT ![b] = s]
      <4>1. DOMAIN receipts' = Bases /\ receipts'[b] = s
          BY <1>1, <3>1, <3>3
      <4>2. ASSUME NEW other \in Attempts \ {a}, attempts[other].pc \in Gated \ {"issue"}
            PROVE  receipts'[attempts[other].basis] = attempts[other].snapshot
        <5>1. attempts[other].pc # "idle"
            BY <4>2 DEF Gated
        <5>2. attempts[other].snapshot \in Snapshots /\ attempts[other].basis \in Bases
            BY <1>1, <5>1, NotIdle, CallFields
        <5>3. receipts[attempts[other].basis] = attempts[other].snapshot
            BY <1>1, <4>2 DEF Receipted
        <5>4. CASE attempts[other].basis = b
            BY <3>3, <4>1, <5>2, <5>3, <5>4, NoneAssumption
        <5>5. CASE attempts[other].basis # b
            BY <1>1, <3>3, <5>2, <5>3, <5>5
        <5>6. QED BY <5>4, <5>5
      <4>3. QED BY <3>1, <4>1, <4>2 DEF Receipted
    <3>4. QED BY <2>1, <3>2, <3>3 DEF IssueReceipt
  <2>2. CASE Begin(a)
    <3>1. receipts' = receipts
        BY <2>2 DEF Begin, shared
    <3>2. /\ attempts'[a].pc = "reserve"
          /\ \A other \in Attempts \ {a} : attempts'[other] = attempts[other]
        BY <1>1, <2>2, BeginOthers
    <3>3. QED BY <1>1, <3>1, <3>2 DEF Receipted, Gated
  <2>3. CASE ~ Begin(a) /\ ~ IssueReceipt(a)
    <3>1. receipts' = receipts
        BY <1>3, <2>3 DEF Submit, Reserve, GateCheck, ReleaseRejected, Prepare,
                          EnterConsume, MarkConsumed, CommitConsume, shared
    <3>2. /\ attempts'[a].basis = attempts[a].basis
          /\ attempts'[a].snapshot = attempts[a].snapshot
          /\ \A other \in Attempts \ {a} : attempts'[other] = attempts[other]
        BY <1>1, <1>3, <2>3, Captured
    <3>3. ASSUME attempts'[a].pc \in Gated \ {"issue"}
          PROVE  attempts[a].pc \in Gated \ {"issue"}
      <4>1. CASE Reserve(a) \/ GateCheck(a) \/ ReleaseRejected(a)
        <5>1. \E pc \in {"gate", "rejected", "issue", "release"} : Goto(a, pc)
            BY <4>1 DEF Reserve, GateCheck, ReleaseRejected
        <5>2. attempts'[a].pc \in {"gate", "rejected", "issue", "release"}
            BY <1>1, <5>1, PlaceOf
        <5>3. QED BY <3>3, <5>2 DEF Gated
      <4>2. CASE Prepare(a) \/ EnterConsume(a) \/ MarkConsumed(a) \/ CommitConsume(a)
          BY <4>2 DEF Prepare, EnterConsume, MarkConsumed, CommitConsume, At, Gated
      <4>3. QED BY <1>3, <2>3, <4>1, <4>2 DEF Submit
    <3>4. QED BY <1>1, <3>1, <3>2, <3>3 DEF Receipted
  <2>4. QED BY <2>1, <2>2, <2>3
<1>4. CASE \/ \E b \in Bases : Track(b) \/ InvalidateTracked(b)
           \/ Pause \/ Resume \/ Tick \/ ReleaseTracked \/ LedgerOwner \/ UNCHANGED vars
    BY <1>2, <1>4 DEF Track, InvalidateTracked, Pause, Resume, Tick, ReleaseTracked,
                      LedgerOwner, shared, vars
<1>5. QED BY <1>3, <1>4 DEF Next

\* A running call that leaves its row HELD has not been turned away: what a
\* rejection looks at was checked before, and only what lets the row go undoes it.
LEMMA CallLeavesHeld ==
    ASSUME Owed, NEW w \in Attempts, Submit(w), NEW k \in Bases,
           k # cut,
           attempts[w].basis = k, rows[k].status = "HELD", rows'[k].status = "HELD",
           attempts[w].pc \notin {"reserve", "rejected", "submitted"}
    PROVE  attempts'[w].basis = k /\ attempts'[w].pc \notin {"reserve", "rejected", "submitted"}
<1>1. /\ Typed /\ DOMAIN rows = Bases /\ ~ Begin(w) /\ ~ Reserve(w)
      /\ attempts[w] \in Call
  <2>1. Typed /\ DOMAIN rows = Bases
      BY DEF Owed, Coupled
  <2>2. attempts[w].pc # "idle"
      BY <2>1, NoneAssumption DEF Typed, Call, NotCalled, Running, Ended
  <2>3. QED BY <2>1, <2>2, NotIdle DEF Begin, Reserve, At
<1>2. attempts'[w].basis = k
    BY <1>1, Captured
<1>3. attempts[w].pc # "idle" /\ attempts[w].now < ExpiryOf[attempts[w].snapshot]
    BY <1>1, Goes DEF Owed
<1>4. CASE GateCheck(w) \/ IssueReceipt(w) \/ Prepare(w)
  <2>1. PICK pc \in {"issue", "release", "prepare", "consume", "authorized", "raised"} :
            Goto(w, pc)
      BY <1>4 DEF GateCheck, IssueReceipt, Prepare
  <2>2. QED BY <1>1, <1>2, <2>1, PlaceOf
<1>5. CASE ReleaseRejected(w) \/ CommitConsume(w)
  <2>1. rows'[k].status # "HELD"
      BY <1>1, <1>5 DEF ReleaseRejected, CommitConsume, Ledger!Release, Ledger!Consume,
                        Ledger!Moved
  <2>2. QED BY <2>1
<1>6. CASE EnterConsume(w)
  <2>1. rows[k].expires = ExpiryOf[attempts[w].snapshot]
      BY <1>6 DEF EnterConsume, At, Owed, Gated
  <2>2. Ledger!ActiveAt(rows[k], attempts[w].now)
      BY <1>3, <2>1 DEF Ledger!ActiveAt
  <2>3. Goto(w, "mark")
      BY <1>6, <2>2 DEF EnterConsume
  <2>4. QED BY <1>1, <1>2, <2>3, PlaceOf
<1>7. CASE MarkConsumed(w)
  <2>1. /\ attempts[w].pc = "mark" /\ lock = w
        /\ \A other \in Attempts : attempts[other].pc # "commit"
      BY <1>7 DEF MarkConsumed, At, Owed, Coupled, Inside
  <2>2. k \notin consumed
      BY <2>1 DEF Owed, Coupled, Committing, Spent
  <2>3. receipts[k] = attempts[w].snapshot
      BY <2>1 DEF Owed, Gated
  <2>4. k \notin invalidated
      BY DEF Owed, Walked, Over
  <2>5. Goto(w, "commit")
      BY <1>7, <2>2, <2>3, <2>4 DEF MarkConsumed
  <2>6. QED BY <1>1, <1>2, <2>5, PlaceOf
<1>8. QED BY <1>1, <1>4, <1>5, <1>6, <1>7 DEF Submit

LEMMA RejectionsRelease ==
    ASSUME Owed, [Next]_vars
    PROVE  RejectedHoldsNothing'
<1> SUFFICES ASSUME NEW k \in Bases, rows'[k].status = "HELD"
             PROVE  \/ k = cut'
                    \/ \E a \in Attempts :
                          /\ attempts'[a].basis = k
                          /\ attempts'[a].pc \notin {"reserve", "rejected", "submitted"}
    BY DEF RejectedHoldsNothing
<1>1. Typed /\ DOMAIN rows = Bases /\ k # None
    BY NoneAssumption DEF Owed, Coupled
<1>2. CASE \E a \in Attempts : Reserve(a) /\ attempts[a].basis = k /\ Goto(a, "gate")
    BY <1>1, <1>2, PlaceOf
<1>3. CASE rows[k].status = "HELD" /\ k = cut
  <2>1. CASE cut' = cut
      BY <1>3, <2>1
  <2>2. CASE ReleaseTracked
      BY <1>1, <1>3, <2>2 DEF ReleaseTracked, Ledger!Release, Ledger!Moved
  <2>3. cut' = cut \/ ReleaseTracked
    <3>1. ASSUME NEW a \in Attempts, Submit(a) PROVE cut' = cut
        BY <3>1 DEF Submit, Begin, Reserve, GateCheck, IssueReceipt, ReleaseRejected,
                    Prepare, EnterConsume, MarkConsumed, CommitConsume, pause
    <3>2. ASSUME NEW b \in Bases, InvalidateTracked(b) PROVE FALSE
        BY <1>1, <1>3, <3>2 DEF InvalidateTracked
    <3>3. QED BY <3>1, <3>2 DEF Next, Track, Pause, Resume, LedgerOwner, Tick, pause, vars
  <2>4. QED BY <2>1, <2>2, <2>3
<1>4. CASE rows[k].status = "HELD" /\ k # cut
  <2>1. PICK w \in Attempts : /\ attempts[w].basis = k
                              /\ attempts[w].pc \notin {"reserve", "rejected", "submitted"}
      BY <1>4 DEF Owed, RejectedHoldsNothing
  <2>2. CASE attempts'[w] = attempts[w]
      BY <2>1, <2>2
  <2>3. CASE Submit(w)
      BY <1>4, <2>1, <2>3, CallLeavesHeld
  <2>4. attempts'[w] = attempts[w] \/ Submit(w)
    <3>1. ASSUME NEW a \in Attempts \ {w}, Submit(a) PROVE attempts'[w] = attempts[w]
        BY <1>1, <3>1, BeginOthers, Captured
    <3>2. QED
        BY <3>1 DEF Next, Track, Pause, InvalidateTracked, ReleaseTracked, Resume,
                    LedgerOwner, Tick, vars
  <2>5. QED BY <2>2, <2>3, <2>4
<1>5. QED
    BY <1>1, <1>2, <1>3, <1>4, Armed

LEMMA OwedInit == Init => Owed
  BY CoupledInit, WalkedInit
     DEF Init, Owed, NotCalled, Gated, RejectedHoldsNothing, Ledger!LedgerInit, Ledger!NoRow

LEMMA OwedStep ==
    ASSUME Owed, [Next]_vars
    PROVE  Owed'
<1>1. Coupled' /\ Walked' /\ RejectedHoldsNothing'
    BY CoupledStep, WalkedStep, RejectionsRelease DEF Owed
<1>2. DOMAIN receipts' = Bases /\ \A a \in Attempts : Receipted(a)'
    BY ReceiptsStay
<1>3. ASSUME NEW a \in Attempts
      PROVE  Started(a)' /\ Lasting(a)'
  <2>1. CASE Submit(a)
      BY <2>1, OwnKeep
  <2>2. CASE ~ Submit(a)
    <3>1. Typed
        BY DEF Owed, Coupled
    <3>2. ASSUME NEW other \in Attempts \ {a}, Submit(other)
          PROVE  attempts'[a] = attempts[a]
        BY <3>1, <3>2, BeginOthers, Captured
    <3>3. attempts'[a] = attempts[a]
        BY <2>2, <3>2 DEF Next, Track, Pause, InvalidateTracked, ReleaseTracked, Resume,
                          LedgerOwner, Tick, vars
    <3>4. QED BY <3>3, OthersKeep
  <2>3. QED BY <2>1, <2>2
<1>4. QED
    BY <1>1, <1>2, <1>3 DEF Owed, Started, Lasting, Receipted

\* RejectedHoldsNothing holds for any number of calls: of the calls that share a
\* basis one that was turned away never leaves the row behind for the others.
THEOREM RejectionsHoldNothing == Spec => []RejectedHoldsNothing
<1>1. Owed => RejectedHoldsNothing
    BY DEF Owed
<1>2. QED
    BY <1>1, OwedInit, OwedStep, PTL DEF Spec

-----------------------------------------------------------------------------
(* The chain is a single-use grant *)

Results(b) == {a \in Submitted : attempts[a].basis = b}
Grant   == [b \in Bases |-> IF b \in consumed THEN "spent"
                            ELSE IF b \in invalidated THEN "revoked" ELSE "open"]
Created == [b \in Bases |-> Cardinality(Results(b))]

Resulting == Coupled /\ \A b \in Bases : Results(b) # {} => Spent(b)

LEMMA NoResultYet ==
    ASSUME Resulting, NEW b \in Bases, rows[b].status = "HELD"
    PROVE  Results(b) = {}
  BY DEF Resulting, Spent

\* Only the end of consume_with_commit makes a result, and for its basis the first.
LEMMA ResultsStep ==
    ASSUME Coupled, [Next]_vars
    PROVE  \/ \A b \in Bases : Results(b)' = Results(b)
           \/ \E a \in Attempts : /\ CommitConsume(a)
                 /\ \A b \in Bases : Results(b)' = IF b = attempts[a].basis
                                                  THEN Results(b) \cup {a} ELSE Results(b)
<1>1. Typed
    BY DEF Coupled
<1>2. ASSUME NEW a \in Attempts, Submit(a)
      PROVE  \A other \in Attempts \ {a} : attempts'[other] = attempts[other]
    BY <1>1, <1>2, BeginOthers, Captured
<1>3. ASSUME NEW a \in Attempts, Submit(a), ~ CommitConsume(a)
      PROVE  \A b \in Bases : Results(b)' = Results(b)
  <2>1. attempts[a].pc # "submitted"
      BY <1>3 DEF Submit, Begin, Reserve, GateCheck, IssueReceipt, ReleaseRejected, Prepare,
                  EnterConsume, MarkConsumed, At
  <2>2. attempts'[a].pc # "submitted"
    <3>1. CASE Begin(a)
        BY <1>1, <3>1, BeginOthers
    <3>2. CASE Reserve(a) \/ GateCheck(a) \/ IssueReceipt(a)
      <4>1. \E pc \in {"gate", "rejected", "issue", "release", "prepare"} : Goto(a, pc)
          BY <3>2 DEF Reserve, GateCheck, IssueReceipt
      <4>2. QED BY <1>1, <4>1, PlaceOf
    <3>3. CASE ReleaseRejected(a) \/ Prepare(a) \/ EnterConsume(a) \/ MarkConsumed(a)
      <4>1. \E pc \in {"rejected", "consume", "authorized", "raised", "release", "mark",
                        "commit"} : Goto(a, pc)
          BY <3>3 DEF ReleaseRejected, Prepare, EnterConsume, MarkConsumed
      <4>2. QED BY <1>1, <4>1, PlaceOf
    <3>4. QED BY <1>3, <3>1, <3>2, <3>3 DEF Submit
  <2>3. QED BY <1>2, <1>3, <2>1, <2>2 DEF Results, Submitted, At
<1>4. ASSUME NEW a \in Attempts, CommitConsume(a)
      PROVE  \A b \in Bases : Results(b)' = IF b = attempts[a].basis
                                            THEN Results(b) \cup {a} ELSE Results(b)
  <2>1. Submit(a) /\ Goto(a, "submitted")
      BY <1>4 DEF Submit, CommitConsume
  <2>2. attempts'[a].pc = "submitted" /\ attempts'[a].basis = attempts[a].basis
      BY <1>1, <2>1, PlaceOf
  <2>3. attempts[a].pc # "submitted"
      BY <1>4 DEF CommitConsume, At
  <2>4. QED BY <1>2, <2>1, <2>2, <2>3 DEF Results, Submitted, At
<1>5. CASE UNCHANGED attempts
    BY <1>5 DEF Results, Submitted, At
<1>6. QED
    BY <1>3, <1>4, <1>5 DEF Next, Track, Pause, InvalidateTracked, ReleaseTracked, Resume,
                            LedgerOwner, Tick, vars

LEMMA ResultingStep ==
    ASSUME Resulting, [Next]_vars
    PROVE  Resulting'
<1>1. Coupled /\ Coupled' /\ Typed /\ DOMAIN rows = Bases
    BY CoupledStep DEF Resulting, Coupled
<1>2. \A b \in Bases : Spent(b) => Spent(b)'
    BY <1>1, RowsStep, RowsLast
<1>3. CASE \A b \in Bases : Results(b)' = Results(b)
    BY <1>1, <1>2, <1>3 DEF Resulting
<1>4. ASSUME NEW a \in Attempts, CommitConsume(a),
             \A b \in Bases : Results(b)' = IF b = attempts[a].basis
                                            THEN Results(b) \cup {a} ELSE Results(b)
      PROVE  Resulting'
  <2>1. \A b \in Bases : b = attempts[a].basis => Spent(b)'
      BY <1>1, <1>4 DEF CommitConsume, Ledger!Consume, Ledger!Moved, Spent
  <2>2. QED BY <1>1, <1>2, <1>4, <2>1 DEF Resulting
<1>5. QED BY <1>1, <1>3, <1>4, ResultsStep

LEMMA ResultingInit == Init => Resulting
  BY CoupledInit DEF Init, Resulting, Results, Submitted, At, NotCalled

\* A grant changes when its receipt is marked or its basis is invalidated.
LEMMA GrantStep ==
    ASSUME [Next]_vars
    PROVE  \/ UNCHANGED <<consumed, invalidated>>
           \/ \E a \in Attempts : /\ MarkConsumed(a)
                 /\ attempts[a].basis \notin consumed \cup invalidated
                 /\ consumed' = consumed \cup {attempts[a].basis}
                 /\ invalidated' = invalidated
           \/ \E b \in Bases : /\ invalidated' = invalidated \cup {b}
                               /\ consumed' = consumed /\ UNCHANGED attempts
<1>1. ASSUME NEW a \in Attempts, Submit(a), ~ MarkConsumed(a)
      PROVE  UNCHANGED <<consumed, invalidated>>
    BY <1>1 DEF Submit, Begin, Reserve, GateCheck, IssueReceipt, ReleaseRejected, Prepare,
                EnterConsume, CommitConsume, shared
<1>2. ASSUME NEW a \in Attempts, MarkConsumed(a)
      PROVE  \/ UNCHANGED <<consumed, invalidated>>
             \/ /\ attempts[a].basis \notin consumed \cup invalidated
                /\ consumed' = consumed \cup {attempts[a].basis}
                /\ invalidated' = invalidated
    BY <1>2 DEF MarkConsumed
<1>3. ASSUME NEW b \in Bases, InvalidateTracked(b)
      PROVE  /\ invalidated' = invalidated \cup {b}
             /\ consumed' = consumed /\ UNCHANGED attempts
    BY <1>3 DEF InvalidateTracked
<1>4. QED
    BY <1>1, <1>2, <1>3 DEF Next, Track, Pause, ReleaseTracked, Resume, LedgerOwner, Tick,
                            shared, vars

\* RevokedNeverSpent needs no invariant: wherever consume_with_commit stands, the
\* mark looks at the invalidation and at earlier marks under one lock.
THEOREM RevokedStaysUnspent == Spec => RevokedNeverSpent
<1>1. [Next]_vars => [\A b \in invalidated \ consumed : b \notin consumed']_vars
    BY GrantStep
<1>2. QED
    BY <1>1, PTL DEF Spec, RevokedNeverSpent

LEMMA CommitsGrant ==
    ASSUME Resulting, NEW a \in Attempts, NEW g, g = attempts[a].basis, CommitConsume(a),
           \A b \in Bases : Results(b)' = IF b = g THEN Results(b) \cup {a} ELSE Results(b)
    PROVE  /\ g \in Bases /\ Grant[g] = "spent" /\ Created[g] = 0
           /\ UNCHANGED Grant /\ Created' = [Created EXCEPT ![g] = 1]
<1>1. Coupled /\ Typed /\ attempts[a].pc = "commit" /\ Inside(a)
    BY DEF Resulting, Coupled, CommitConsume, At, Inside
<1>2. g \in Bases
    BY <1>1, NotIdle, CallFields
<1>3. rows[g].status = "HELD" /\ g \in consumed
    BY <1>1, <1>2 DEF Coupled, Committing
<1>4. Results(g) = {} /\ Results(g)' = {a}
    BY <1>2, <1>3, NoResultYet
<1>5. Cardinality(Results(g)) = 0 /\ Cardinality(Results(g)') = 1
    BY <1>4, FS_EmptySet, FS_Singleton
<1>6. Created' = [Created EXCEPT ![g] = 1]
    BY <1>2, <1>5 DEF Created
<1>7. UNCHANGED Grant
    BY DEF CommitConsume, Grant
<1>8. QED BY <1>2, <1>3, <1>5, <1>6, <1>7 DEF Grant, Created

\* Every step of the chain is a step of the grants, or none.
LEMMA AuthorityStep ==
    ASSUME Resulting, [Next]_vars
    PROVE  \/ UNCHANGED <<Grant, Created>>
           \/ \E g \in Bases : Grant[g] = "spent" /\ Created[g] = 0
                 /\ UNCHANGED Grant /\ Created' = [Created EXCEPT ![g] = 1]
           \/ \E g \in Bases, end \in {"revoked", "spent"} : Grant[g] = "open"
                 /\ UNCHANGED Created /\ Grant' = [Grant EXCEPT ![g] = end]
<1>1. Coupled /\ Typed
    BY DEF Resulting, Coupled
<1>2. CASE UNCHANGED <<consumed, invalidated>>
  <2>1. UNCHANGED Grant
      BY <1>2 DEF Grant
  <2>2. CASE \A b \in Bases : Results(b)' = Results(b)
      BY <2>1, <2>2 DEF Created
  <2>3. CASE \E a \in Attempts : /\ CommitConsume(a)
                 /\ \A b \in Bases : Results(b)' = IF b = attempts[a].basis
                                                  THEN Results(b) \cup {a} ELSE Results(b)
      BY <2>3, CommitsGrant
  <2>4. QED BY <1>1, <2>2, <2>3, ResultsStep
<1>3. CASE ~ UNCHANGED <<consumed, invalidated>>
  <2>1. \A b \in Bases : Results(b)' = Results(b)
      BY <1>1, <1>3, ResultsStep DEF CommitConsume
  <2>2. UNCHANGED Created
      BY <2>1 DEF Created
  <2>3. ASSUME NEW a \in Attempts, MarkConsumed(a), NEW g, g = attempts[a].basis,
               g \notin consumed \cup invalidated,
               consumed' = consumed \cup {g}, invalidated' = invalidated
        PROVE  /\ g \in Bases /\ Grant[g] = "open"
               /\ Grant' = [Grant EXCEPT ![g] = "spent"]
    <3>1. g \in Bases
        BY <1>1, <2>3, NotIdle, CallFields DEF MarkConsumed, At
    <3>2. QED BY <2>3, <3>1 DEF Grant
  <2>4. ASSUME NEW g \in Bases, invalidated' = invalidated \cup {g}, consumed' = consumed
        PROVE  \/ UNCHANGED Grant
               \/ Grant[g] = "open" /\ Grant' = [Grant EXCEPT ![g] = "revoked"]
    <3>1. g \notin invalidated
        BY <1>3, <2>4
    <3>2. QED BY <2>4, <3>1 DEF Grant
  <2>5. QED BY <1>3, <2>2, <2>3, <2>4, GrantStep
<1>4. QED BY <1>2, <1>3

\* The safety half of ImplementsAuthority: for any number of calls, plans and
\* pauses the registries together open, revoke and spend grants, and make one
\* order of a grant that was spent.  Only the fairness is left to TLC.
THEOREM ChainIsAuthority == Spec => Authority!Spec
<1>1. ASSUME Init PROVE Authority!Init
  <2>1. \A b \in Bases : Results(b) = {}
      BY <1>1 DEF Init, Results, Submitted, At, NotCalled
  <2>2. Created = [b \in Bases |-> 0]
      BY <2>1, FS_EmptySet DEF Created
  <2>3. Grant = [b \in Bases |-> "open"]
      BY <1>1 DEF Init, Grant
  <2>4. QED BY <2>2, <2>3 DEF Authority!Init, Grant, Created, Results
<1>2. ASSUME Resulting, [Next]_vars
      PROVE  [Authority!Next]_<<Grant, Created>>
    BY <1>2, AuthorityStep
       DEF Authority!Next, Authority!CreateOrder, Authority!Revoke, Authority!Spend,
           Grant, Created, Results
<1>3. QED
    BY <1>1, <1>2, ResultingInit, ResultingStep, PTL
       DEF Spec, Authority!Spec, Grant, Created, Results
=============================================================================
