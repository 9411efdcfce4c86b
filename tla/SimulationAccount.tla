-------------------------- MODULE SimulationAccount --------------------------
(***************************************************************************)
(* The account projection of accounting_settlement/ledger.py, as functions *)
(* from an account to an account: SimulationAccount holds its lock during  *)
(* every call, and a call that raises leaves the account as it was.        *)
(*                                                                         *)
(* One instrument and a contract multiplier of 1.  A settlement is named   *)
(* by its trading date: one that is repeated is handed back or raises.     *)
(* A lot is named by the fill that opened it, as its lot_id is.            *)
(***************************************************************************)
EXTENDS Integers, Sequences, FiniteSets, SequencesExt

CONSTANT InitialCash

Sign(direction) == IF direction = "LONG" THEN 1 ELSE -1
LeastOf(a, b) == IF a < b THEN a ELSE b

NewAccount == [cash |-> InitialCash, margin |-> 0, realized |-> 0, fees |-> 0,
               lots |-> <<>>, fills |-> {}, dates |-> {}, adjustment |-> 0]

Lot(f) == [fill |-> f.id, direction |-> f.direction, quantity |-> f.quantity,
           price |-> f.price, date |-> f.date]

Summed(numbers) ==
    LET upto[n \in 0..Len(numbers)] == IF n = 0 THEN 0 ELSE upto[n - 1] + numbers[n]
    IN  upto[Len(numbers)]

Valued(lots, mark) ==
    [i \in DOMAIN lots |-> (mark - lots[i].price) * lots[i].quantity * Sign(lots[i].direction)]
Unrealized(account, mark) == Summed(Valued(account.lots, mark))

ReserveMargin(account, amount) ==
    IF account.cash - account.margin < amount THEN account
    ELSE [account EXCEPT !.margin = @ + amount]

ReleaseMargin(account, amount) ==
    IF amount > account.margin THEN account ELSE [account EXCEPT !.margin = @ - amount]

ApplyFill(account, f) ==
    IF f.id \in account.fills THEN account
    ELSE [account EXCEPT !.cash = @ - f.fee, !.fees = @ + f.fee,
                         !.lots = Append(@, Lot(f)), !.fills = @ \union {f.id}]

(***************************************************************************)
(* _close_locked(): the lots on the other side are used up in their order, *)
(* those of the fill's own date only when the contract asks for it.        *)
(***************************************************************************)
Closable(f, today, lot) == lot.direction # f.direction /\ (today => lot.date = f.date)

Available(lots, f, today) ==
    Summed([i \in DOMAIN lots |-> IF Closable(f, today, lots[i]) THEN lots[i].quantity ELSE 0])

CloseLot(f, today, acc, lot) ==
    LET matched == IF Closable(f, today, lot) THEN LeastOf(lot.quantity, acc.remaining) ELSE 0
        rest == [lot EXCEPT !.quantity = @ - matched]
    IN  [remaining |-> acc.remaining - matched,
         realized |-> acc.realized + (f.price - lot.price) * matched * Sign(lot.direction),
         lots |-> IF rest.quantity = 0 THEN acc.lots ELSE Append(acc.lots, rest)]

Closed(lots, f, today) ==
    LET upto[n \in 0..Len(lots)] ==
            IF n = 0 THEN [remaining |-> f.quantity, realized |-> 0, lots |-> <<>>]
            ELSE CloseLot(f, today, upto[n - 1], lots[n])
    IN  upto[Len(lots)]

CloseFill(account, f, today) ==
    LET closed == Closed(account.lots, f, today)
    IN  IF f.id \in account.fills \/ f.quantity > Available(account.lots, f, today) THEN account
        ELSE [account EXCEPT !.cash = @ + closed.realized - f.fee,
                             !.realized = @ + closed.realized,
                             !.fees = @ + f.fee,
                             !.lots = closed.lots, !.fills = @ \union {f.id}]

\* mark_to_market(): the settlement of a date at a price.
MarkToMarket(account, date, price) ==
    [id |-> date, price |-> price, delta |-> Unrealized(account, price),
     realized |-> Unrealized(account, price), fees |-> 0]

\* MUTANT of Rebased: the lots keep the prices they were opened at.
KeptBasis(lots, price) == lots
\* The settlement price becomes the next day's cost basis.
Rebased(lots, price) == [i \in DOMAIN lots |-> [lots[i] EXCEPT !.price = price]]

Settle(account, s) ==
    IF s.id \in account.dates THEN account
    ELSE [account EXCEPT !.cash = @ + s.delta, !.realized = @ + s.realized,
                         !.fees = @ + s.fees, !.lots = Rebased(@, s.price),
                         !.adjustment = @ + s.delta - s.realized + s.fees,
                         !.dates = @ \union {s.id}]

\* conservation_residual().
Residual(account) ==
    account.cash - (InitialCash + account.realized + account.adjustment - account.fees)
=============================================================================
