--------------------------- MODULE SubmitTradePlan ---------------------------
(***************************************************************************)
(* Concurrent submissions of trade plans through the in-memory             *)
(* authorization chain, against pauses of the autonomy mandate and the     *)
(* other owners of the risk budget:                                        *)
(*   decision/submit_trade_plan.py   SubmitTradePlanService                *)
(*   decision/submission.py          TradePlanSubmitter                    *)
(*   decision/autonomy_contracts.py  AutonomyGate, ReceiptIssuanceRegistry,*)
(*                                   ReceiptRegistry,                      *)
(*                                   BindingArtifactCoordinator,           *)
(*                                   CompositePause, CompositeResume       *)
(* The risk budget is the component RiskBudgetLedger, instantiated with    *)
(* one reservation key per authorization basis.                            *)
(*                                                                         *)
(* An attempt is one call of submit().  Its arguments (clock, plan,        *)
(* evidence snapshot, mandate and binding, health verdict) are immutable   *)
(* values read when the call begins; only the registries and the ledger    *)
(* are shared, and every step below is what the call does between two      *)
(* releases of one of their locks.                                         *)
(***************************************************************************)
EXTENDS Integers, FiniteSets

CONSTANTS Attempts,     \* calls of submit(), each made once
          Plans,        \* immutable plan versions, named by their plan hash
          Snapshots,    \* evidence: snapshot hash, run versions, snapshot expiry
          LossOf,       \* Plans -> the worst-case loss RiskEngine.decide sizes
          ExpiryOf,     \* Snapshots -> min(plan, basis, snapshot expiry)
          Ceiling, Horizon, MaxVersion,     \* of the risk budget ledger
          MaxEpoch,     \* bound: the mandate is resumed at most this often
          None

VARIABLES rows,         \* the ledger's reservations, by basis
          lock,         \* which attempt is inside consume_with_commit, or None
          clock,        \* the wall clock the callers read
          mode,         \* mandate and binding of the account: ACTIVE or PAUSED
          epoch,        \* how often the mandate has been resumed: its version
          receipts,     \* ReceiptIssuanceRegistry._issued, by basis
          invalidated,  \* ReceiptIssuanceRegistry._invalidated_bases
          consumed,     \* ReceiptIssuanceRegistry._consumed_bases
          tracked,      \* BindingArtifactCoordinator._tracked
          ending,       \* the tracked bases a running _end() has yet to remove
          cut,          \* the basis _end() has invalidated and not yet released
          attempts      \* the calls: program counter and captured arguments

shared == <<rows, lock, receipts, invalidated, consumed>>
pause  == <<mode, epoch, tracked, ending, cut>>
vars   == <<rows, lock, clock, mode, epoch, receipts, invalidated, consumed,
            tracked, ending, cut, attempts>>

\* A basis is deterministic in its source and its plan: a mandate version
\* gives one basis per plan, a plan approval one basis for its plan.
Mandate(e)  == <<"MANDATE", e>>
Approval    == <<"PLAN_APPROVAL", 0>>
Authorities == {Mandate(e) : e \in 0 .. MaxEpoch} \cup {Approval}
Bases       == Plans \X Authorities

Ledger == INSTANCE RiskBudgetLedger WITH Keys <- Bases

ASSUME PlansAssumption  == IsFiniteSet(Plans)
ASSUME LimitsAssumption == Ceiling \in Nat /\ Horizon \in Nat /\ MaxVersion \in Nat \ {0}
ASSUME LossAssumption   == LossOf \in [Plans -> Ledger!Losses]
ASSUME ExpiryAssumption == ExpiryOf \in [Snapshots -> Ledger!Times]
ASSUME EpochAssumption  == MaxEpoch \in Nat
ASSUME NoneAssumption   == None \notin Attempts \cup Snapshots \cup Bases

Ended   == {"rejected", "submitted", "authorized", "raised"}
Running == {"reserve", "gate", "issue", "release", "prepare", "consume",
            "mark", "commit"}

NotCalled == [pc |-> "idle", basis |-> None, snapshot |-> None, now |-> 0,
              healthy |-> TRUE]
Call      == [pc : Running \cup Ended, basis : Bases, snapshot : Snapshots,
              now : Ledger!Times, healthy : BOOLEAN]

\* The call as it is captured, at another place in the code.
CallAt(call, pc) == [pc |-> pc, basis |-> call.basis, snapshot |-> call.snapshot,
                     now |-> call.now, healthy |-> call.healthy]
Goto(a, pc) == attempts' = [attempts EXCEPT ![a] = CallAt(@, pc)]
At(a, pc)   == attempts[a].pc = pc
LossFor(b)  == LossOf[b[1]]

\* The reservation an attempt builds for itself, SubmitTradePlanService._reservation
Wanted(a) == Ledger!Fresh(LossFor(attempts[a].basis), ExpiryOf[attempts[a].snapshot])

Init ==
    /\ Ledger!LedgerInit
    /\ lock = None
    /\ clock = 0
    /\ mode = "ACTIVE" /\ epoch = 0
    /\ receipts = [b \in Bases |-> None]
    /\ invalidated = {} /\ consumed = {}
    /\ tracked = {} /\ ending = {} /\ cut = None
    /\ attempts = [a \in Attempts |-> NotCalled]

-----------------------------------------------------------------------------
(* submit() *)

\* Plan validation and preflight.  An autonomous call needs an effective
\* mandate, binding and health; a manual test needs a granted approval, whose
\* consumption is replayed unchanged by later calls.  A call these checks turn
\* away touches nothing and is not represented.
Begin(a) ==
    /\ At(a, "idle")
    /\ \E p \in Plans, s \in Snapshots, authority \in {Mandate(epoch), Approval},
          healthy \in BOOLEAN :
        /\ clock < ExpiryOf[s]
        /\ authority = Mandate(epoch) => mode = "ACTIVE" /\ healthy
        /\ attempts' = [attempts EXCEPT ![a] =
              [pc |-> "reserve", basis |-> <<p, authority>>, snapshot |-> s,
               now |-> clock, healthy |-> healthy]]
    /\ UNCHANGED <<shared, pause, clock>>

Reserve(a) ==
    LET b == attempts[a].basis
        now == attempts[a].now
        expires == ExpiryOf[attempts[a].snapshot]
    IN  /\ At(a, "reserve")
        /\ lock = None
        /\ Ledger!Reserve(b, LossFor(b), expires, now)
        /\ Goto(a, IF Ledger!Admits(Ledger!Swept(rows, now), b, LossFor(b), expires, now)
                   THEN "gate" ELSE "rejected")
        /\ UNCHANGED <<lock, receipts, invalidated, consumed, pause, clock>>

\* MUTANT of GateCheck: a check that fails returns without the release.
GateCheckKeeping(a) ==
    /\ At(a, "gate")
    /\ lock = None
    /\ Goto(a, IF attempts[a].healthy /\ rows[attempts[a].basis] = Wanted(a)
               THEN "issue" ELSE "rejected")
    /\ UNCHANGED <<shared, pause, clock>>

\* final_gate up to the registry: the health verdict of a manual test, and the
\* ledger's current row against the caller's reservation.
GateCheck(a) ==
    /\ At(a, "gate")
    /\ lock = None
    /\ Goto(a, IF attempts[a].healthy /\ rows[attempts[a].basis] = Wanted(a)
               THEN "issue" ELSE "release")
    /\ UNCHANGED <<shared, pause, clock>>

\* ReceiptIssuanceRegistry.issue: one receipt per basis, replayed for the same
\* fingerprint.  The reservation in the fingerprint is always a fresh one, so
\* what tells two receipts of a basis apart is the evidence snapshot.
IssueReceipt(a) ==
    LET b == attempts[a].basis
        s == attempts[a].snapshot
    IN  /\ At(a, "issue")
        /\ IF b \notin invalidated /\ receipts[b] \in {None, s}
           THEN /\ receipts' = [receipts EXCEPT ![b] = s]
                /\ Goto(a, "prepare")
           ELSE /\ Goto(a, "release")
                /\ UNCHANGED receipts
        /\ UNCHANGED <<rows, lock, invalidated, consumed, pause, clock>>

\* A final gate that gives no receipt releases the reservation of its basis.
ReleaseRejected(a) ==
    /\ At(a, "release")
    /\ lock = None
    /\ Ledger!Release(attempts[a].basis)
    /\ Goto(a, "rejected")
    /\ UNCHANGED <<lock, receipts, invalidated, consumed, pause, clock>>

\* TradePlanSubmitter.submit and Order.from_execution_plan: the call goes on to
\* consume, or stops at the authorization (issue_order=False), or the execution
\* plan's constructor rejects the order type and the exception leaves submit(),
\* or there is no execution plan, since the receipt of an earlier call, found
\* again, has expired meanwhile.
Prepare(a) ==
    /\ At(a, "prepare")
    /\ \E pc \in {"consume", "authorized", "raised", "release"} : Goto(a, pc)
    /\ UNCHANGED <<shared, pause, clock>>

\* consume_with_commit, in three steps: the ledger's lock is taken and the row
\* checked, the receipt is marked consumed under the issuance registry's lock,
\* the row is consumed and the ledger's lock is given back.
EnterConsume(a) ==
    /\ At(a, "consume")
    /\ lock = None
    /\ IF Ledger!ActiveAt(rows[attempts[a].basis], attempts[a].now)
       THEN lock' = a /\ Goto(a, "mark")
       ELSE lock' = lock /\ Goto(a, "rejected")
    /\ UNCHANGED <<rows, receipts, invalidated, consumed, pause, clock>>

\* MUTANT of MarkConsumed: invalidation is not looked at again.
MarkConsumedRevoked(a) ==
    LET b == attempts[a].basis
    IN  /\ At(a, "mark")
        /\ receipts[b] = attempts[a].snapshot /\ b \notin consumed
        /\ consumed' = consumed \cup {b}
        /\ Goto(a, "commit")
        /\ UNCHANGED <<rows, lock, receipts, invalidated, pause, clock>>

\* MUTANT of MarkConsumed: the ledger's lock is given back before the row is
\* consumed.
MarkConsumedUnlocked(a) ==
    LET b == attempts[a].basis
        agreed == receipts[b] = attempts[a].snapshot /\ b \notin invalidated \cup consumed
    IN  /\ At(a, "mark")
        /\ consumed' = IF agreed THEN consumed \cup {b} ELSE consumed
        /\ lock' = None
        /\ Goto(a, IF agreed THEN "commit" ELSE "rejected")
        /\ UNCHANGED <<rows, receipts, invalidated, pause, clock>>

\* MUTANT of MarkConsumed: a refusal leaves the ledger's lock taken.
MarkConsumedLocked(a) ==
    LET b == attempts[a].basis
        agreed == receipts[b] = attempts[a].snapshot /\ b \notin invalidated \cup consumed
    IN  /\ At(a, "mark")
        /\ consumed' = IF agreed THEN consumed \cup {b} ELSE consumed
        /\ Goto(a, IF agreed THEN "commit" ELSE "rejected")
        /\ UNCHANGED <<rows, lock, receipts, invalidated, pause, clock>>

MarkConsumed(a) ==
    LET b == attempts[a].basis
    IN  /\ At(a, "mark")
        /\ IF /\ receipts[b] = attempts[a].snapshot
              /\ b \notin invalidated
              /\ b \notin consumed
           THEN /\ consumed' = consumed \cup {b}
                /\ lock' = lock
                /\ Goto(a, "commit")
           ELSE /\ consumed' = consumed
                /\ lock' = None
                /\ Goto(a, "rejected")
        /\ UNCHANGED <<rows, receipts, invalidated, pause, clock>>

CommitConsume(a) ==
    /\ At(a, "commit")
    /\ Ledger!Consume(attempts[a].basis, attempts[a].now)
    /\ lock' = None
    /\ Goto(a, "submitted")
    /\ UNCHANGED <<receipts, invalidated, consumed, pause, clock>>

Submit(a) ==
    \/ Begin(a) \/ Reserve(a) \/ GateCheck(a) \/ IssueReceipt(a)
    \/ ReleaseRejected(a) \/ Prepare(a)
    \/ EnterConsume(a) \/ MarkConsumed(a) \/ CommitConsume(a)

-----------------------------------------------------------------------------
(* Pausing and resuming the mandate *)

\* The owner of the coordinator registers a reserved basis for invalidation.
Track(b) ==
    /\ ending = {}
    /\ b[2] # Approval /\ rows[b] # Ledger!NoRow /\ b \notin tracked
    /\ tracked' = tracked \cup {b}
    /\ UNCHANGED <<shared, mode, epoch, ending, cut, clock, attempts>>

\* CompositePause.apply: mandate SUSPENDED, binding PAUSED, then _end() walks
\* the tracked bases of the binding under the coordinator's lock.
Pause ==
    /\ mode = "ACTIVE" /\ ending = {}
    /\ mode' = "PAUSED"
    /\ ending' = tracked
    /\ UNCHANGED <<shared, epoch, tracked, cut, clock, attempts>>

InvalidateTracked(b) ==
    /\ b \in ending /\ cut = None
    /\ invalidated' = invalidated \cup {b}
    /\ cut' = b
    /\ UNCHANGED <<rows, lock, receipts, consumed, mode, epoch, tracked, ending,
                   clock, attempts>>

\* MUTANT of ReleaseTracked: a reservation without a receipt is left alone.
ReleaseTrackedIssued ==
    /\ cut # None /\ lock = None
    /\ IF receipts[cut] # None THEN Ledger!Release(cut) ELSE UNCHANGED rows
    /\ tracked' = tracked \ {cut}
    /\ ending' = ending \ {cut}
    /\ cut' = None
    /\ UNCHANGED <<lock, receipts, invalidated, consumed, mode, epoch, clock, attempts>>

\* MUTANT of ReleaseTracked: the walk insists on releasing something.
ReleaseTrackedHeld ==
    /\ cut # None /\ lock = None
    /\ rows[cut].status = "HELD"
    /\ Ledger!Release(cut)
    /\ tracked' = tracked \ {cut}
    /\ ending' = ending \ {cut}
    /\ cut' = None
    /\ UNCHANGED <<lock, receipts, invalidated, consumed, mode, epoch, clock, attempts>>

ReleaseTracked ==
    /\ cut # None /\ lock = None
    /\ Ledger!Release(cut)
    /\ tracked' = tracked \ {cut}
    /\ ending' = ending \ {cut}
    /\ cut' = None
    /\ UNCHANGED <<lock, receipts, invalidated, consumed, mode, epoch, clock, attempts>>

\* CompositeResume.apply: a new mandate version, hence new bases.
Resume ==
    /\ mode = "PAUSED" /\ ending = {} /\ epoch < MaxEpoch
    /\ mode' = "ACTIVE"
    /\ epoch' = epoch + 1
    /\ UNCHANGED <<shared, tracked, ending, cut, clock, attempts>>

-----------------------------------------------------------------------------
(* The ledger's other callers, and time *)

LedgerOwner ==
    /\ lock = None
    /\ \/ \E b \in Bases, loss \in Ledger!Losses : Ledger!Shrink(b, loss)
       \/ \E b \in Bases : Ledger!Reconcile(b)
       \/ Ledger!Expire(clock)
    /\ UNCHANGED <<lock, receipts, invalidated, consumed, pause, clock, attempts>>

Tick ==
    /\ clock < Horizon
    /\ clock' = clock + 1
    /\ UNCHANGED <<shared, pause, attempts>>

Next ==
    \/ \E a \in Attempts : Submit(a)
    \/ \E b \in Bases : Track(b) \/ InvalidateTracked(b)
    \/ Pause \/ ReleaseTracked \/ Resume
    \/ LedgerOwner
    \/ Tick

Spec == Init /\ [][Next]_vars

\* Threads that can take their next step eventually do: a running call of
\* submit() and a running _end() are scheduled; callers, pauses, time and the
\* ledger's owner promise nothing.
Fairness ==
    /\ \A a \in Attempts : WF_vars(Submit(a) /\ ~ At(a, "idle"))
    /\ WF_vars((\E b \in Bases : InvalidateTracked(b)) \/ ReleaseTracked)

FairSpec == Spec /\ Fairness

-----------------------------------------------------------------------------
(* Properties *)

Submitted == {a \in Attempts : At(a, "submitted")}

TypeOK ==
    /\ Ledger!RowsTypeOK
    /\ lock \in Attempts \cup {None}
    /\ clock \in Ledger!Times
    /\ mode \in {"ACTIVE", "PAUSED"} /\ epoch \in 0 .. MaxEpoch
    /\ receipts \in [Bases -> Snapshots \cup {None}]
    /\ invalidated \subseteq Bases /\ consumed \subseteq Bases
    /\ tracked \subseteq Bases /\ ending \subseteq tracked
    /\ cut \in ending \cup {None}
    /\ attempts \in [Attempts -> Call \cup {NotCalled}]

\* Compare-and-reserve holds for the whole chain: however submissions, pauses
\* and the ledger's other callers interleave, and however old the clock an
\* attempt captured, HELD losses stay within the ceiling.
HeldWithinCeiling == Ledger!HeldWithinCeiling

\* consume_with_commit couples two registries: whenever the ledger's lock is
\* free, a receipt is marked consumed exactly when its reservation is spent.
\* Neither can be left behind by an interleaved release, sweep or pause.
ReceiptAndRowAgree ==
    lock = None =>
        \A b \in Bases : b \in consumed <=> rows[b].status \in {"CONSUMED", "RECONCILED"}

\* Pausing is final for what it reached: a basis invalidated before its
\* receipt was consumed is never consumed later, at whatever point of
\* consume_with_commit the pause found the submission.
RevokedNeverSpent ==
    [][\A b \in invalidated \ consumed : b \notin consumed']_vars

\* A pause gives the budget back: once _end() is through with a basis no
\* submission can hold risk under it again: a replayed
\* reserve() does not arm a released row.
PausedHoldsNothing ==
    \A b \in invalidated : b # cut => rows[b].status # "HELD"

\* No rejected call leaks budget: a row is HELD only for a call that is still
\* on its way, that stopped at its authorization, or that an exception ended,
\* or while a pause is about to release it.  A sibling's rejection never leaves
\* a row behind that only the expiry would free.
RejectedHoldsNothing ==
    \A b \in Bases : rows[b].status = "HELD" =>
        \/ b = cut
        \/ \E a \in Attempts : /\ attempts[a].basis = b
                               /\ attempts[a].pc \notin {"reserve", "rejected", "submitted"}

\* The registries, the ledger and the pause together are a single-use grant:
\* the grant of a basis is spent when its receipt is marked consumed, revoked
\* when the basis is invalidated before that, and the order is the submission's
\* result.  A spent grant is never left without its order.
Authority == INSTANCE OrderAuthority WITH
    Grants <- Bases,
    grant  <- [b \in Bases |-> IF b \in consumed THEN "spent"
                               ELSE IF b \in invalidated THEN "revoked" ELSE "open"],
    orders <- [b \in Bases |-> Cardinality({a \in Submitted : attempts[a].basis = b})]

ImplementsAuthority == Authority!FairSpec

\* No submission waits for ever, on the ledger's lock or on a pause ...
SubmissionsEnd ==
    \A a \in Attempts : At(a, "reserve") ~> attempts[a].pc \in Ended

\* ... and a pause that began reaches every tracked basis, although it needs
\* the ledger's lock in the middle of its walk.
PausesEnd == ending # {} ~> ending = {}

\* PRD.md requires that a pause leave no earlier authorization able to create
\* an order: once a pause has completed no call still creates one under the
\* mandate version that was paused.
PausedMandateCreatesNoOrder ==
    [][mode = "PAUSED" /\ ending = {}
        => \A b \in consumed' \ consumed : b[2] = Approval]_vars
=============================================================================
