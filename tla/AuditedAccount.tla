---------------------------- MODULE AuditedAccount ----------------------------
(***************************************************************************)
(* The durable audit log (accounting_settlement/durable.py) and an account *)
(* whose facts it records, as operations/stability.py and the tests use    *)
(* the two: a trader applies a fill or a settlement to its account,        *)
(* appends it to the log, and after a restart rebuilds the account by      *)
(* replaying the log.  Other processes write the episodes of their own     *)
(* accounts into the same file, whole.                                     *)
(*                                                                         *)
(* An event's place in the file stands for its sequence, its identity and  *)
(* its hashes: each is a function of the events up to it.                  *)
(***************************************************************************)
EXTENDS SimulationAccount

CONSTANTS Trader,        \* the process with the account
          Clerk,         \* the processes that record episodes
          Episode,       \* their correlation ids
          FillFact,      \* the fills the trader may be given
          Mark,          \* the prices of settlements
          Date,          \* their trading dates
          Amount,        \* what is reserved as margin
          MaxEvents,     \* bound: the trader's events in the file
          MaxFaults      \* bound: crashes and failed writes

Writer == Clerk \union {Trader}
Free == "free"

\* The trader may be given finitely many fills, each under an id of its own.
ProperFills ==
    /\ IsFiniteSet(FillFact)
    /\ \A f \in FillFact :
          /\ f \in [id : {f.id}, direction : {"LONG", "SHORT"}, quantity : Nat,
                    price : Int, fee : Int, date : {f.date}]
          /\ \A g \in FillFact : f.id = g.id => f = g

ASSUME AuditAssumption ==
    /\ Trader \notin Clerk \union Episode
    /\ Free \notin Writer
    /\ ProperFills
    /\ Mark \subseteq Int
    /\ InitialCash \in Nat
    /\ MaxEvents \in Nat
    /\ MaxFaults \in Nat

AtRest == [step |-> "idle"]

\* What append_trade_episode() writes: every stage, under one correlation id.
Stages == <<"AUTHORIZATION", "RISK_DECISION", "EXECUTION_PLAN", "PROTECTION",
            "FILL", "CLOSE_FILL", "SETTLEMENT">>
Facts(c) == [i \in DOMAIN Stages |-> [type |-> Stages[i], account |-> c]]

Event(type, fact) == [type |-> type, account |-> Trader, fact |-> fact]

VARIABLES account,       \* the trader's SimulationAccount
          due,           \* the facts it has applied and not yet appended
          exists, file,  \* the audit file
          memory,        \* the events each process holds
          locked,        \* who has the file's flock
          writing,       \* how far each process's append has come
          faults         \* crashes and failed writes so far

auditVars == <<account, due, exists, file, memory, locked, writing, faults>>

AuditInit ==
    /\ account = NewAccount
    /\ due = <<>>
    /\ exists = FALSE /\ file = <<>>
    /\ memory = [w \in Writer |-> <<>>]
    /\ locked = Free
    /\ writing = [w \in Writer |-> AtRest]
    /\ faults = 0

-----------------------------------------------------------------------------
(***************************************************************************)
(* replay() and replay_trade_episode(): the account's own facts in their   *)
(* order, each in the version of its last correction.                      *)
(***************************************************************************)
Own(event) == event.account = Trader
Corrections(events, i) ==
    {j \in DOMAIN events : events[j].type = "CORRECTION" /\ events[j].target = i}
Latest(places) == CHOOSE j \in places : \A k \in places : k <= j
Corrected(events, i) ==
    IF Corrections(events, i) = {} THEN events[i].fact
    ELSE events[Latest(Corrections(events, i))].fact

Replayed(type, before, fact) ==
    CASE type = "FILL"             -> ApplyFill(before, fact)
      [] type = "CLOSE_FILL"       -> CloseFill(before, fact, FALSE)
      [] type = "CLOSE_TODAY_FILL" -> CloseFill(before, fact, TRUE)
      [] type = "SETTLEMENT"       -> Settle(before, fact)

Redone(events, i, before) ==
    IF Own(events[i]) /\ events[i].type # "CORRECTION"
    THEN Replayed(events[i].type, before, Corrected(events, i)) ELSE before

Replay(events) ==
    LET after[n \in 0..Len(events)] ==
            IF n = 0 THEN NewAccount ELSE Redone(events, n, after[n - 1])
    IN  after[Len(events)]

-----------------------------------------------------------------------------
(***************************************************************************)
(* The trader: one fact after the other, and its margin.                   *)
(***************************************************************************)
Quiet == due = <<>> /\ writing[Trader] = AtRest
OwnEvents == Cardinality({i \in DOMAIN file : Own(file[i])})

Applies(event) ==
    /\ Quiet /\ OwnEvents < MaxEvents
    /\ account' = Replayed(event.type, account, event.fact)
    /\ account' # account
    /\ due' = <<event>>
    /\ UNCHANGED <<exists, file, memory, locked, writing, faults>>

Open(f) == Applies(Event("FILL", f))
Close(f, today) == Applies(Event(IF today THEN "CLOSE_TODAY_FILL" ELSE "CLOSE_FILL", f))
MarkAndSettle(date, price) == Applies(Event("SETTLEMENT", MarkToMarket(account, date, price)))

Reserve(amount) ==
    /\ Quiet /\ account' = ReserveMargin(account, amount)
    /\ account.margin = 0
    /\ UNCHANGED <<due, exists, file, memory, locked, writing, faults>>
Release(amount) ==
    /\ Quiet /\ account' = ReleaseMargin(account, amount)
    /\ UNCHANGED <<due, exists, file, memory, locked, writing, faults>>

-----------------------------------------------------------------------------
(***************************************************************************)
(* append(), correct_fact() and append_trade_episode(): the flock, a       *)
(* reload when there is a file, the new events in memory, and the file     *)
(* replaced by what the memory holds.                                      *)
(***************************************************************************)
\* MUTANT of Reloaded: it goes on from what it has in memory.
NotReloaded(w) == memory[w]
Reloaded(w) == IF exists THEN file ELSE memory[w]

Enter(w, call) ==
    /\ writing[w] = AtRest /\ locked = Free
    /\ locked' = w
    /\ memory' = [memory EXCEPT ![w] = Reloaded(w)]
    /\ writing' = [writing EXCEPT ![w] = call]
    /\ UNCHANGED <<account, due, exists, file, faults>>

AppendDue == due # <<>> /\ Enter(Trader, [step |-> "append", event |-> Head(due)])
RecordEpisode(w, c) == Enter(w, [step |-> "episode", of |-> c])

\* The trader corrects what it has appended, so that the fact is still there
\* when the file has been loaded again, and each fact once.
CorrectFact(i) ==
    /\ Quiet /\ OwnEvents < MaxEvents
    /\ i \in DOMAIN memory[Trader]
    /\ Own(memory[Trader][i]) /\ memory[Trader][i].type \in {"FILL", "CLOSE_FILL", "CLOSE_TODAY_FILL"}
    /\ Corrections(memory[Trader], i) = {}
    /\ Enter(Trader, [step |-> "correct", target |-> i, of |-> memory[Trader][i]])

\* The events a call leaves in memory.
\* MUTANT of Recorded: a retried episode is appended again.
NeverRecorded(events, c) == FALSE
Recorded(events, c) ==
    \A i \in DOMAIN Stages : \E j \in DOMAIN events : events[j] = Facts(c)[i]

Correction(call) ==
    [type |-> "CORRECTION", account |-> Trader, target |-> call.target,
     fact |-> [call.of.fact EXCEPT !.fee = @ + 1]]
Extended(call, events) ==
    CASE call.step = "append"  -> Append(events, call.event)
      [] call.step = "correct" -> Append(events, Correction(call))
      [] call.step = "episode" -> IF Recorded(events, call.of) THEN events ELSE events \o Facts(call.of)

Leaves(w) ==
    /\ locked' = Free
    /\ writing' = [writing EXCEPT ![w] = AtRest]

Calling(w) == writing[w].step \in {"append", "correct", "episode"}

Write(w) ==
    /\ Calling(w)
    /\ memory' = [memory EXCEPT ![w] = Extended(writing[w], @)]
    /\ exists' = (exists \/ memory'[w] # memory[w])
    /\ file' = IF memory'[w] # memory[w] THEN memory'[w] ELSE file
    /\ writing' = [writing EXCEPT ![w] = [step |-> "written", of |-> writing[w].step]]
    /\ UNCHANGED <<account, due, locked, faults>>

\* A single event stays in memory when the file cannot be written; an episode
\* is taken back and what was there before it is written in its stead.
WriteFails(w) ==
    /\ Calling(w)
    /\ faults < MaxFaults /\ faults' = faults + 1
    /\ IF writing[w].step = "episode"
       THEN /\ ~Recorded(memory[w], writing[w].of)
            /\ \/ exists' = TRUE /\ file' = memory[w]
               \/ UNCHANGED <<exists, file>>
            /\ UNCHANGED memory
       ELSE /\ memory' = [memory EXCEPT ![w] = Extended(writing[w], @)]
            /\ UNCHANGED <<exists, file>>
    /\ Leaves(w)
    /\ UNCHANGED <<account, due>>

\* The call returns; after a correction the trader replays the log.
Return(w) ==
    /\ writing[w].step = "written"
    /\ due' = IF writing[w].of = "append" THEN Tail(due) ELSE due
    /\ account' = IF writing[w].of = "correct"
                  THEN [Replay(memory[w]) EXCEPT !.margin = account.margin] ELSE account
    /\ Leaves(w)
    /\ UNCHANGED <<exists, file, memory, faults>>

\* A process dies and starts again from the file.  The trader is given the
\* fact that it had not been able to append once more.
Crash(w) ==
    /\ writing[w] # AtRest \/ (w = Trader /\ due # <<>>)
    /\ faults < MaxFaults /\ faults' = faults + 1
    /\ memory' = [memory EXCEPT ![w] = file]
    /\ writing' = [writing EXCEPT ![w] = AtRest]
    /\ locked' = IF locked = w THEN Free ELSE locked
    /\ account' = IF w # Trader THEN account
                  ELSE IF due = <<>> THEN Replay(file)
                  ELSE Replayed(Head(due).type, Replay(file), Head(due).fact)
    /\ UNCHANGED <<due, exists, file>>

AuditNext ==
    \/ \E f \in FillFact : Open(f) \/ \E today \in BOOLEAN : Close(f, today)
    \/ \E date \in Date, price \in Mark : MarkAndSettle(date, price)
    \/ \E amount \in Amount : Reserve(amount) \/ Release(amount)
    \/ AppendDue
    \/ \E i \in 1..MaxEvents : CorrectFact(i)
    \/ \E w \in Clerk, c \in Episode : RecordEpisode(w, c)
    \/ \E w \in Writer : Write(w) \/ WriteFails(w) \/ Return(w) \/ Crash(w)

AuditSpec == AuditInit /\ [][AuditNext]_auditVars
-----------------------------------------------------------------------------
(***************************************************************************)
(* Realized and unrealized profit add up, at any price, to what the fills  *)
(* have brought in: however they were settled in between, whichever lots   *)
(* were closed and whatever was replayed; and the cash is accounted for.   *)
(* (SimulationAccount.close, settle, assert_conservation.)                 *)
(***************************************************************************)
Brought(f, mark) == (mark - f.price) * f.quantity * Sign(f.direction)
Given == SetToSeq(FillFact)
Earned(fills, mark) ==
    Summed([i \in DOMAIN Given |-> IF Given[i].id \in fills THEN Brought(Given[i], mark) ELSE 0])
EquityKept ==
    /\ Residual(account) = 0
    /\ \A mark \in Mark : account.realized + Unrealized(account, mark) = Earned(account.fills, mark)

(***************************************************************************)
(* Every episode is in the file as a whole, once and in one piece, or not  *)
(* at all: whoever crashed, failed to write or tried again.                *)
(* (append_trade_episode: all facts or none, and its check for a retry.)   *)
(***************************************************************************)
EpisodesWhole ==
    \A c \in Episode :
        LET places == {i \in DOMAIN file : file[i].account = c}
        IN  places # {} => /\ Cardinality(places) = Len(Stages)
                           /\ \E i \in places : SubSeq(file, i, i + Len(Stages) - 1) = Facts(c)

(***************************************************************************)
(* When the trader has nothing left to append, replaying the file gives    *)
(* its account: every fact counts once, none of its facts is lost to       *)
(* another writer, and none counts that it was not given.                  *)
(* (DurableAuditLog.replay and reconcile.)                                 *)
(***************************************************************************)
Reconciles == Quiet => Replay(file) = [account EXCEPT !.margin = 0]
=============================================================================
