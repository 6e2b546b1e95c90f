------------------------ MODULE TransmitRateControl ------------------------
(***************************************************************************)
(* The reactive rate control of DCC: BurstyTransmitRateControl with its    *)
(* two budgets, BurstBudget for profile DP0 and StateMachineBudget for DP1 *)
(* to DP3, and the GradualStateMachine that sets the transmission          *)
(* interval.  Times are ages: ticks since the event.                       *)
(***************************************************************************)
EXTENDS Integers, Sequences, FiniteSets, FiniteSetsExt

CONSTANTS
  Burst,         \* N_Burst: capacity of m_messages
  BurstDuration, \* T_Burst, in ticks
  BurstPeriod,   \* T_BurstPeriod, in ticks
  OffTimes,      \* off_time of the states of the state machine, in order
  Never          \* m_last_tx is not set

ASSUME BudgetAssumption ==
  /\ Burst \in Nat \ {0}
  /\ BurstDuration \in Nat \ {0} /\ BurstPeriod \in Nat
  /\ BurstDuration < BurstPeriod
  /\ OffTimes \in Seq(Nat) /\ OffTimes # <<>>
  /\ Never \notin Int

VARIABLES
  budget, \* messages: ages of the burst's messages, oldest first; last_tx: age
  m_current \* state of the state machine

ratevars == <<budget, m_current>>

Profiles == 0 .. 3
Budgets == [messages : Seq(Nat), last_tx : Nat \cup {Never}]

\* transmission_interval()
Interval == OffTimes[m_current]
MaxInterval == Max({OffTimes[i] : i \in DOMAIN OffTimes})

\* BurstBudget::delay()
BurstDelay(messages) ==
  IF messages = <<>> THEN 0
  ELSE IF messages[1] < BurstDuration /\ Len(messages) < Burst THEN 0
  ELSE IF messages[1] > BurstPeriod THEN 0
  ELSE BurstPeriod - messages[1]

\* Deviation: a full buffer grows.
BurstNotify_Grows(messages) ==
  Append(IF messages # <<>> /\ messages[1] > BurstPeriod THEN <<>> ELSE messages, 0)

\* BurstBudget::notify().  delay() has always been called right before, and has
\* cleared a burst that is over; a full buffer loses its oldest message.
BurstNotify(messages) ==
  LET kept == IF messages # <<>> /\ messages[1] > BurstPeriod THEN <<>> ELSE messages
  IN  Append(IF Len(kept) = Burst THEN Tail(kept) ELSE kept, 0)

\* StateMachineBudget::delay()
IntervalDelay(last_tx) ==
  IF last_tx = Never \/ last_tx > Interval THEN 0 ELSE Interval - last_tx

\* BurstyTransmitRateControl::delay() and notify(), of the budget b
Delay(b, profile) ==
  IF profile = 0 THEN BurstDelay(b.messages) ELSE IntervalDelay(b.last_tx)

Notified(b, profile) ==
  IF profile = 0
  THEN [messages |-> BurstNotify(b.messages), last_tx |-> b.last_tx]
  ELSE [messages |-> b.messages, last_tx |-> 0]

\* GradualStateMachine::update(): the channel load moves one state at a time.
UpdateState ==
  \E s \in DOMAIN OffTimes :
    /\ s \in {m_current - 1, m_current + 1}
    /\ m_current' = s

\* Bound: ages are told apart up to where the budgets stop looking.
Aged(age, d, limit) == Min({age + d, limit + 1})

\* The budget d ticks later.
Elapsed(b, d) ==
  [messages |-> [i \in DOMAIN b.messages |-> Aged(b.messages[i], d, BurstPeriod)],
   last_tx |-> IF b.last_tx = Never THEN Never ELSE Aged(b.last_tx, d, MaxInterval)]

RateInit ==
  /\ budget = [messages |-> <<>>, last_tx |-> Never]
  /\ m_current = 1
=============================================================================
