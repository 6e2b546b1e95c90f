------------------------ MODULE IdentityManagerProofs ------------------------
(***************************************************************************)
(* Proofs about IdentityManager for any number of tickets, subscribers,    *)
(* locks and rounds: its types, the timer of a round, agreement on the     *)
(* identifier; then what the rounds amount to: every round is counted      *)
(* once, locks keep the identifier, flags and votes are those of the open  *)
(* round, and the service implements IdChange.                             *)
(***************************************************************************)
EXTENDS IdentityManager, TLAPS, FiniteSetTheorems, SequenceTheorems

-----------------------------------------------------------------------------
(* Types.                                                                  *)

\* A trigger is queued only while another round is within the bound.
TypeInv == TypeOK /\ (pending_trigger => round_counter < MaxRounds)

\* What the helpers of a round assign.
CoreTyped ==
  /\ round' \in Rounds
  /\ round_counter' \in 0 .. MaxRounds
  /\ pending_trigger' \in BOOLEAN
  /\ pending_trigger' => round_counter' < MaxRounds
  /\ round_timer' \in Int \cup {Off}
  /\ frames' \in Seq(Frames)
  /\ stats' \in Statistics
  /\ current' \in pool

LEMMA FrameType ==
  ASSUME NEW c \in Commands, NEW id \in Tickets \cup {0}, NEW n \in 0 .. MaxRounds,
         NEW S \in SUBSET Handles
  PROVE  Frame(c, id, n, S) \in Frames
BY DEF Frame, Frames

LEMMA CountedType ==
  ASSUME stats \in Statistics, NEW a \in Nat, NEW b \in Nat, NEW c \in Nat, NEW d \in Nat
  PROVE  Counted(a, b, c, d) \in Statistics
BY DEF Counted, Statistics

LEMMA NoRoundType == NoRound \in Rounds
BY BoundsAssumption DEF NoRound, Rounds, Phases

LEMMA BelowType ==
  ASSUME TypeOK, frames # <<>>
  PROVE  Below \in Seq(Frames) /\ Top \in Frames /\ Len(frames) \in Nat \ {0}
BY DEF TypeOK, CoreType, Below, Top

LEMMA TryStartType ==
  ASSUME TypeOK, NEW pending \in BOOLEAN, NEW locked \in BOOLEAN,
         NEW r \in Rounds, NEW S \in SUBSET Handles,
         NEW base \in Seq(Frames), pending => round_counter < MaxRounds,
         TryStart(pending, locked, r, S, base)
  PROVE  /\ round' \in Rounds
         /\ round_counter' \in 0 .. MaxRounds
         /\ pending_trigger' \in BOOLEAN
         /\ pending_trigger' => round_counter' < MaxRounds
         /\ frames' \in Seq(Frames)
<1>1. CASE ~CanStart(pending, locked, r)
  BY <1>1 DEF TryStart, TypeOK, CoreType, SubscriberType, PoolType
<1>2. CASE CanStart(pending, locked, r) /\ OtherValid = {}
  BY <1>2 DEF TryStart, TypeOK, CoreType, SubscriberType, PoolType
<1>3. CASE CanStart(pending, locked, r) /\ OtherValid # {}
  <2>1. round_counter < MaxRounds
    BY <1>3 DEF CanStart
  <2>2. round_counter + 1 \in 0 .. MaxRounds
    BY <2>1, BoundsAssumption DEF TypeOK, CoreType, SubscriberType, PoolType
  <2>3. PICK next \in OtherValid :
          /\ round_counter' = round_counter + 1
          /\ round' = [id |-> round_counter + 1, phase |-> "PREPARE",
                       new |-> next, outstanding |-> S]
          /\ frames' = Append(base, Frame("PREPARE", next, round_counter + 1, S))
          /\ pending_trigger' = FALSE
    BY <1>3 DEF TryStart
  <2>4. next \in Tickets
    BY DEF OtherValid, TypeOK, CoreType, SubscriberType, PoolType
  <2>5. Frame("PREPARE", next, round_counter + 1, S) \in Frames
    BY <2>2, <2>4, FrameType DEF Commands, TypeOK, CoreType, SubscriberType, PoolType
  <2>6. round' \in Rounds /\ frames' \in Seq(Frames) /\ round_counter' \in 0 .. MaxRounds
    BY <2>2, <2>3, <2>4, <2>5 DEF Rounds, Phases, TypeOK, CoreType, SubscriberType, PoolType
  <2> QED
    BY <2>3, <2>6
<1>4. QED
  BY <1>1, <1>2, <1>3

LEMMA FinishType ==
  ASSUME TypeInv, NEW S \in SUBSET Handles, NEW base \in Seq(Frames),
         NEW f \in Nat, NEW t \in Nat, Finish(S, base, f, t)
  PROVE  CoreTyped
<1>1. TryStart(pending_trigger, DOMAIN locks # {}, NoRound, S, base)
  BY DEF Finish
<1>2. /\ round' \in Rounds
      /\ round_counter' \in 0 .. MaxRounds
      /\ pending_trigger' \in BOOLEAN
      /\ pending_trigger' => round_counter' < MaxRounds
      /\ frames' \in Seq(Frames)
  <2> DEFINE locked == DOMAIN locks # {}
  <2>1. locked \in BOOLEAN /\ pending_trigger \in BOOLEAN
    BY DEF TypeInv, TypeOK, CoreType, SubscriberType, PoolType
  <2> HIDE DEF locked
  <2>2. TryStart(pending_trigger, locked, NoRound, S, base)
    BY <1>1 DEF locked
  <2> QED
    BY <2>1, <2>2, TryStartType, NoRoundType DEF TypeInv
<1>3. stats' \in Statistics
  <2>1. stats \in Statistics
    BY DEF TypeInv, TypeOK, CoreType, SubscriberType, PoolType
  <2>2. stats' = Counted(1, 0, t, f)
    BY DEF Finish
  <2> QED
    BY <2>1, <2>2, CountedType
<1>4. round_timer' = Off /\ current' \in pool
  BY DEF Finish, TypeInv, TypeOK, CoreType, SubscriberType, PoolType
<1> QED
  BY <1>2, <1>3, <1>4 DEF CoreTyped

LEMMA AdvanceType ==
  ASSUME TypeInv, NEW r \in Rounds, NEW S \in SUBSET Handles,
         NEW base \in Seq(Frames), NEW f \in Nat,
         Advance(r, S, base, f)
  PROVE  CoreTyped
<1>1. CASE r.phase = "PREPARE"
  <2>1. /\ round_timer' = Off
        /\ current' = Select(r.new)
        /\ round' = [id |-> r.id, phase |-> "COMMIT", new |-> r.new,
                     outstanding |-> r.outstanding \cup S]
        /\ frames' = Append(base, Frame("COMMIT", r.new, r.id, S))
        /\ UNCHANGED <<round_counter, pending_trigger, stats>>
    BY <1>1 DEF Advance
  <2>2. Frame("COMMIT", r.new, r.id, S) \in Frames
    BY FrameType DEF Commands, Rounds
  <2>3. round' \in Rounds
    BY <2>1 DEF Rounds, Phases
  <2> QED
    BY <2>1, <2>2, <2>3 DEF CoreTyped, TypeInv, TypeOK, CoreType, SubscriberType, PoolType, Select
<1>2. CASE r.phase = "COMMIT"
  BY <1>2, FinishType DEF Advance
<1>3. QED
  BY <1>1, <1>2 DEF Rounds, Phases

LEMMA AbortType ==
  ASSUME TypeInv, NEW base \in Seq(Frames), NEW t \in Nat, Abort(base, t)
  PROVE  CoreTyped
<1>1. Frame("ABORT", round.new, 0, subscriptions) \in Frames
  <2>1. round.new \in Tickets \cup {0} /\ subscriptions \in SUBSET Handles
    BY DEF TypeInv, TypeOK, CoreType, SubscriberType, PoolType, Rounds
  <2>2. 0 \in 0 .. MaxRounds /\ "ABORT" \in Commands
    BY BoundsAssumption DEF Commands
  <2> QED
    BY <2>1, <2>2, FrameType
<1>2. stats' \in Statistics
  <2>1. stats \in Statistics
    BY DEF TypeInv, TypeOK, CoreType, SubscriberType, PoolType
  <2>2. stats' = Counted(0, 1, t, 0)
    BY DEF Abort
  <2> QED
    BY <2>1, <2>2, CountedType
<1>3. frames' \in Seq(Frames)
  BY <1>1 DEF Abort
<1>4. /\ round' \in Rounds /\ round_timer' = Off
      /\ round_counter' = round_counter /\ pending_trigger' = pending_trigger
      /\ current' = current
  BY NoRoundType DEF Abort
<1>5. current' \in pool /\ round_counter' \in 0 .. MaxRounds
  BY <1>4 DEF TypeInv, TypeOK, CoreType, SubscriberType, PoolType
<1>6. pending_trigger' \in BOOLEAN /\ (pending_trigger' => round_counter' < MaxRounds)
  BY <1>4 DEF TypeInv, TypeOK, CoreType, SubscriberType, PoolType
<1> QED
  BY <1>2, <1>3, <1>4, <1>5, <1>6 DEF CoreTyped

LEMMA InitType == Init => TypeInv
<1> SUFFICES ASSUME Init PROVE TypeInv
  OBVIOUS
<1>1. CoreType /\ ~pending_trigger
  <2>1. round \in Rounds
    BY NoRoundType DEF Init
  <2>2. stats \in Statistics
    BY DEF Init, Statistics
  <2>3. round_counter \in 0 .. MaxRounds /\ round_timer \in Int \cup {Off}
    BY BoundsAssumption DEF Init
  <2>4. frames \in Seq(Frames)
    BY DEF Init
  <2>5. pending_trigger = FALSE /\ alive = TRUE
    BY DEF Init
  <2> QED
    BY <2>1, <2>2, <2>3, <2>4, <2>5 DEF CoreType
<1>2. LockType
  BY BoundsAssumption DEF Init, LockType, Locks
<1>3. SubscriberType
  BY BoundsAssumption DEF Init, SubscriberType, Handles
<1>4. PoolType
  BY TicketsAssumption DEF Init, PoolType, Validities
<1> QED
  BY <1>1, <1>2, <1>3, <1>4 DEF TypeInv, TypeOK

LEMMA NotifySkipType ==
  ASSUME TypeInv, NotifySkip
  PROVE  TypeInv'
<1>1. PICK h \in Top.todo :
        /\ round' = IF round.id # 0 /\ round.id = Top.round
                    THEN [round EXCEPT !.outstanding = @ \ {h}] ELSE round
        /\ frames' = Append(Below, Delivered(Top, h, 0))
  BY DEF NotifySkip
<1>2. Below \in Seq(Frames) /\ Top \in Frames
  BY BelowType DEF NotifySkip, TypeInv
<1>3. Delivered(Top, h, 0) \in Frames
  BY <1>2 DEF Delivered, Frames
<1>4. round' \in Rounds
  BY <1>1 DEF Rounds, TypeInv, TypeOK, CoreType
<1>5. CoreType'
  BY <1>1, <1>2, <1>3, <1>4 DEF NotifySkip, TypeInv, TypeOK, CoreType
<1>6. LockType' /\ SubscriberType' /\ PoolType'
  BY DEF NotifySkip, TypeInv, TypeOK, LockType, SubscriberType, PoolType,
         lockvars, subvars, poolvars
<1>7. pending_trigger' => round_counter' < MaxRounds
  BY DEF NotifySkip, TypeInv
<1> QED
  BY <1>5, <1>6, <1>7 DEF TypeInv, TypeOK

LEMMA NotifyCallType ==
  ASSUME TypeInv, NotifyCall
  PROVE  TypeInv'
<1>1. PICK h \in Top.todo \cap subscriptions :
        /\ frames' = Append(Below, Delivered(Top, h, h))
        /\ OnIdChange(h, Top.command, Top.id)
        /\ responders' = IF Expects(Top)
                         THEN responders \cup
                              {[round |-> Top.round, handle |-> h, phase |-> Top.command]}
                         ELSE responders
  BY DEF NotifyCall
<1>2. Below \in Seq(Frames) /\ Top \in Frames
  BY BelowType DEF NotifyCall, TypeInv
<1>3. Delivered(Top, h, h) \in Frames /\ h \in Handles
  BY <1>2 DEF Delivered, Frames
<1>4. CoreType'
  BY <1>1, <1>2, <1>3 DEF NotifyCall, TypeInv, TypeOK, CoreType
<1>5. SubscriberType'
  <2>1. responders' \subseteq Responders
    BY <1>1, <1>2, <1>3 DEF Expects, Frames, Responders, TypeInv, TypeOK, SubscriberType
  <2>2. identifier' \in [Handles -> Tickets \cup {0}]
    BY <1>1, <1>2, <1>3 DEF OnIdChange, Frames, TypeInv, TypeOK, SubscriberType
  <2>3. change_pending' \subseteq Handles
    BY <1>1, <1>3 DEF OnIdChange, TypeInv, TypeOK, SubscriberType
  <2> QED
    BY <2>1, <2>2, <2>3 DEF NotifyCall, TypeInv, TypeOK, SubscriberType
<1>6. LockType' /\ PoolType'
  BY DEF NotifyCall, TypeInv, TypeOK, LockType, PoolType, lockvars, poolvars
<1>7. pending_trigger' => round_counter' < MaxRounds
  BY DEF NotifyCall, TypeInv
<1> QED
  BY <1>4, <1>5, <1>6, <1>7 DEF TypeInv, TypeOK

\* CoreTyped, the pool kept and the remaining variables well typed make up
\* the type invariant.
LEMMA CoreTypedInv ==
  ASSUME CoreTyped, alive' \in BOOLEAN, LockType', SubscriberType', TypeInv,
         UNCHANGED poolvars
  PROVE  TypeInv'
<1>1. CoreType' /\ (pending_trigger' => round_counter' < MaxRounds)
  BY DEF CoreTyped, CoreType
<1>2. PoolType'
  BY DEF CoreTyped, PoolType, TypeInv, TypeOK, poolvars
<1> QED
  BY <1>1, <1>2 DEF TypeInv, TypeOK

\* A step that leaves the state of the round alone.
LEMMA CoreKept ==
  ASSUME TypeInv, UNCHANGED core
  PROVE  CoreTyped
<1>1. /\ round' = round /\ round_counter' = round_counter
      /\ pending_trigger' = pending_trigger /\ round_timer' = round_timer
      /\ frames' = frames /\ stats' = stats /\ current' = current
  BY DEF core
<1> QED
  BY <1>1 DEF CoreTyped, TypeInv, TypeOK, CoreType, PoolType

LEMMA NotifyReturnType ==
  ASSUME TypeInv, NotifyReturn
  PROVE  TypeInv'
<1>1. Below \in Seq(Frames) /\ Top \in Frames /\ round \in Rounds
      /\ subscriptions \in SUBSET Handles
  BY BelowType DEF NotifyReturn, TypeInv, TypeOK, CoreType, SubscriberType
<1>2. CoreTyped
  <2>1. CASE Advance(round, subscriptions, Below, 0)
    BY <2>1, <1>1, AdvanceType
  <2>2. CASE ArmRoundTimer(Below)
    <3>1. /\ round' = round /\ round_counter' = round_counter
          /\ pending_trigger' = pending_trigger /\ round_timer' = ResponseTimeout
          /\ frames' = Below /\ stats' = stats /\ current' = current
      BY <2>2 DEF ArmRoundTimer
    <3>2. ResponseTimeout \in Int
      BY BoundsAssumption
    <3> QED
      BY <3>1, <3>2, <1>1 DEF CoreTyped, TypeInv, TypeOK, CoreType, PoolType
  <2>3. CASE /\ frames' = Below
             /\ UNCHANGED <<round, round_counter, pending_trigger, round_timer,
                            stats, current>>
    BY <2>3, <1>1 DEF CoreTyped, TypeInv, TypeOK, CoreType, PoolType
  <2> QED
    BY <2>1, <2>2, <2>3 DEF NotifyReturn
<1>3. LockType'
  BY DEF NotifyReturn, TypeInv, TypeOK, LockType, lockvars
<1>4. SubscriberType'
  BY DEF NotifyReturn, TypeInv, TypeOK, SubscriberType
<1>5. alive' \in BOOLEAN /\ UNCHANGED poolvars
  BY DEF NotifyReturn, TypeInv, TypeOK, CoreType
<1> QED
  BY <1>2, <1>3, <1>4, <1>5, CoreTypedInv

LEMMA RespondType ==
  ASSUME TypeInv, NEW r \in responders, NEW code \in BOOLEAN, Respond(r, code)
  PROVE  TypeInv'
<1> DEFINE left == [round EXCEPT !.outstanding = round.outstanding \ {r.handle}]
           failures == IF code THEN 0 ELSE 1
<1>1. /\ round \in Rounds /\ frames \in Seq(Frames) /\ stats \in Statistics
      /\ subscriptions \in SUBSET Handles /\ r \in Responders
  BY DEF TypeInv, TypeOK, CoreType, SubscriberType
<1>2. left \in Rounds /\ failures \in Nat
  BY <1>1 DEF Rounds
<1>3. CoreTyped
  <2>1. CASE UNCHANGED core
    BY <2>1, CoreKept
  <2>2. CASE Abort(frames, 0)
    BY <2>2, <1>1, AbortType
  <2>3. CASE Advance(left, subscriptions, frames, failures)
    <3> HIDE DEF left, failures
    <3> QED
      BY <2>3, <1>1, <1>2, AdvanceType
  <2>4. CASE /\ round' = left
             /\ stats' = Counted(0, 0, 0, failures)
             /\ UNCHANGED <<frames, round_counter, pending_trigger, round_timer, current>>
    <3>1. stats' \in Statistics
      <4> HIDE DEF failures
      <4> QED
        BY <2>4, <1>1, <1>2, CountedType
    <3> HIDE DEF left
    <3>2. round' \in Rounds
      BY <2>4, <1>2
    <3> QED
      BY <2>4, <3>1, <3>2 DEF CoreTyped, TypeInv, TypeOK, CoreType, PoolType
  <2> QED
    BY <2>1, <2>2, <2>3, <2>4 DEF Respond
<1>4. LockType'
  BY DEF Respond, TypeInv, TypeOK, LockType, lockvars
<1>5. SubscriberType'
  <2>1. responders' \subseteq responders /\ responders \subseteq Responders
    BY DEF Respond, TypeInv, TypeOK, SubscriberType
  <2>2. answered' \subseteq Answers
    BY <1>1 DEF Respond, Answer, Answers, Responders, TypeInv, TypeOK, SubscriberType
  <2> QED
    BY <2>1, <2>2 DEF Respond, TypeInv, TypeOK, SubscriberType
<1>6. alive' \in BOOLEAN /\ UNCHANGED poolvars
  BY DEF Respond, TypeInv, TypeOK, CoreType
<1> QED
  BY <1>3, <1>4, <1>5, <1>6, CoreTypedInv

LEMMA SubscribeType ==
  ASSUME TypeInv, Subscribe
  PROVE  TypeInv'
<1>1. CoreTyped
  BY CoreKept DEF Subscribe
<1>2. LockType'
  BY DEF Subscribe, TypeInv, TypeOK, LockType, lockvars
<1>3. SubscriberType'
  <2>1. next_subscription \in Handles /\ next_subscription + 1 \in 1 .. MaxSubscriptions + 1
    BY BoundsAssumption DEF Subscribe, TypeInv, TypeOK, SubscriberType, Handles
  <2>2. current \in Tickets
    BY DEF TypeInv, TypeOK, PoolType
  <2> QED
    BY <2>1, <2>2 DEF Subscribe, TypeInv, TypeOK, SubscriberType
<1>4. alive' \in BOOLEAN /\ UNCHANGED poolvars
  BY DEF Subscribe, TypeInv, TypeOK, CoreType
<1> QED
  BY <1>1, <1>2, <1>3, <1>4, CoreTypedInv

LEMMA UnsubscribeType ==
  ASSUME TypeInv, NEW h \in Handles, Unsubscribe(h)
  PROVE  TypeInv'
<1> DEFINE left == [round EXCEPT !.outstanding = round.outstanding \ {h}]
           subs == subscriptions \ {h}
<1>1. /\ round \in Rounds /\ frames \in Seq(Frames)
      /\ subs \in SUBSET Handles
  BY DEF TypeInv, TypeOK, CoreType, SubscriberType
<1>2. left \in Rounds
  BY <1>1 DEF Rounds
<1>3. CoreTyped
  <2>1. CASE Advance(left, subs, frames, 0)
    <3> HIDE DEF left, subs
    <3> QED
      BY <2>1, <1>1, <1>2, AdvanceType
  <2>2. CASE /\ round' = left
             /\ UNCHANGED <<frames, round_counter, pending_trigger, round_timer, stats, current>>
    <3> HIDE DEF left
    <3> QED
      BY <2>2, <1>2 DEF CoreTyped, TypeInv, TypeOK, CoreType, PoolType
  <2> QED
    BY <2>1, <2>2 DEF Unsubscribe
<1>4. LockType'
  BY DEF Unsubscribe, TypeInv, TypeOK, LockType, lockvars
<1>5. SubscriberType'
  BY DEF Unsubscribe, TypeInv, TypeOK, SubscriberType
<1>6. alive' \in BOOLEAN /\ UNCHANGED poolvars
  BY DEF Unsubscribe, TypeInv, TypeOK, CoreType
<1> QED
  BY <1>3, <1>4, <1>5, <1>6, CoreTypedInv

LEMMA TriggerType ==
  ASSUME TypeInv, Trigger
  PROVE  TypeInv'
<1> DEFINE locked == DOMAIN locks # {}
<1>1. /\ TryStart(TRUE, locked, round, subscriptions, frames)
      /\ UNCHANGED <<round_timer, stats, current, poolvars, lockvars, subvars, alive>>
      /\ round_counter < MaxRounds
  BY DEF Trigger
<1>2. /\ round \in Rounds /\ frames \in Seq(Frames) /\ locked \in BOOLEAN
      /\ subscriptions \in SUBSET Handles
  BY DEF TypeInv, TypeOK, CoreType, SubscriberType
<1>3. CoreTyped
  <2> HIDE DEF locked
  <2>1. /\ round' \in Rounds /\ round_counter' \in 0 .. MaxRounds
        /\ pending_trigger' \in BOOLEAN
        /\ pending_trigger' => round_counter' < MaxRounds
        /\ frames' \in Seq(Frames)
    BY <1>1, <1>2, TryStartType DEF TypeInv
  <2> QED
    BY <2>1, <1>1 DEF CoreTyped, TypeInv, TypeOK, CoreType, PoolType
<1>4. LockType' /\ SubscriberType'
  BY <1>1 DEF TypeInv, TypeOK, LockType, SubscriberType, lockvars, subvars
<1>5. alive' \in BOOLEAN /\ UNCHANGED poolvars
  BY <1>1 DEF TypeInv, TypeOK, CoreType
<1> QED
  BY <1>3, <1>4, <1>5, CoreTypedInv

LEMMA ArmLockTimerType ==
  ASSUME NEW l, l \in [DOMAIN l -> Int], ArmLockTimer(l)
  PROVE  lock_timer' \in Int \cup {Off}
BY DEF ArmLockTimer

\* A step that may start a round but does nothing else to it.
LEMMA StartTyped ==
  ASSUME TypeInv, NEW locked \in BOOLEAN,
         TryStart(pending_trigger, locked, round, subscriptions, frames),
         UNCHANGED <<round_timer, stats, current>>
  PROVE  CoreTyped
<1>1. /\ pending_trigger \in BOOLEAN /\ round \in Rounds /\ frames \in Seq(Frames)
      /\ subscriptions \in SUBSET Handles
  BY DEF TypeInv, TypeOK, CoreType, SubscriberType
<1>2. /\ round' \in Rounds /\ round_counter' \in 0 .. MaxRounds
      /\ pending_trigger' \in BOOLEAN
      /\ pending_trigger' => round_counter' < MaxRounds
      /\ frames' \in Seq(Frames)
  BY <1>1, TryStartType DEF TypeInv
<1> QED
  BY <1>2 DEF CoreTyped, TypeInv, TypeOK, CoreType, PoolType

LEMMA ReleaseExpiredType ==
  ASSUME TypeInv, NEW l, DOMAIN l \subseteq Locks, l \in [DOMAIN l -> Int],
         ReleaseExpired(l), UNCHANGED <<round_timer, stats, current>>
  PROVE  /\ CoreTyped
         /\ DOMAIN locks' \subseteq Locks
         /\ locks' \in [DOMAIN locks' -> Int]
         /\ lock_timer' \in Int \cup {Off}
<1> DEFINE kept == {k \in DOMAIN l : l[k] > 0}
           left == [k \in kept |-> l[k]]
           locked == kept # {}
<1>1. /\ locks' = left /\ ArmLockTimer(left)
      /\ TryStart(pending_trigger, locked, round, subscriptions, frames)
  BY DEF ReleaseExpired
<1>2. left \in [DOMAIN left -> Int] /\ DOMAIN left \subseteq Locks
  OBVIOUS
<1>3. lock_timer' \in Int \cup {Off}
  <2> HIDE DEF left
  <2> QED
    BY <1>1, <1>2, ArmLockTimerType
<1>4. CoreTyped
  <2>1. locked \in BOOLEAN
    OBVIOUS
  <2> HIDE DEF locked
  <2> QED
    BY <2>1, <1>1, StartTyped
<1> QED
  BY <1>1, <1>2, <1>3, <1>4

LEMMA LockOpType ==
  ASSUME TypeInv, NEW d \in LockDurations, Lock(d)
  PROVE  TypeInv'
<1> DEFINE l == [k \in DOMAIN locks \cup {next_lock} |->
                   IF k = next_lock THEN d ELSE locks[k]]
<1>1. /\ DOMAIN locks \subseteq Locks /\ locks \in [DOMAIN locks -> Int]
      /\ next_lock \in Locks /\ next_lock + 1 \in 1 .. MaxLocks + 1 /\ d \in Int
  BY BoundsAssumption DEF Lock, TypeInv, TypeOK, LockType, Locks
<1>2. DOMAIN l \subseteq Locks /\ l \in [DOMAIN l -> Int]
  BY <1>1
<1>3. /\ CoreTyped
      /\ DOMAIN locks' \subseteq Locks
      /\ locks' \in [DOMAIN locks' -> Int]
      /\ lock_timer' \in Int \cup {Off}
  <2>1. CASE d = 0
    <3>1. ReleaseExpired(l) /\ UNCHANGED <<round_timer, stats, current>>
      BY <2>1 DEF Lock
    <3> HIDE DEF l
    <3> QED
      BY <3>1, <1>2, ReleaseExpiredType
  <2>2. CASE d # 0
    <3>1. /\ locks' = l /\ ArmLockTimer(l)
          /\ UNCHANGED core
      BY <2>2 DEF Lock, core
    <3> HIDE DEF l
    <3>2. lock_timer' \in Int \cup {Off}
      BY <3>1, <1>2, ArmLockTimerType
    <3> QED
      BY <3>1, <3>2, <1>2, CoreKept
  <2> QED
    BY <2>1, <2>2
<1>4. LockType'
  BY <1>1, <1>3 DEF Lock, TypeInv, TypeOK, LockType, CoreType
<1>5. SubscriberType'
  BY DEF Lock, TypeInv, TypeOK, SubscriberType, subvars
<1>6. alive' \in BOOLEAN /\ UNCHANGED poolvars
  BY DEF Lock, TypeInv, TypeOK, CoreType
<1> QED
  BY <1>3, <1>4, <1>5, <1>6, CoreTypedInv

LEMMA UnlockType ==
  ASSUME TypeInv, NEW k \in Locks, Unlock(k)
  PROVE  TypeInv'
<1> DEFINE l == [j \in DOMAIN locks \ {k} |-> locks[j]]
           locked == DOMAIN l # {}
<1>1. /\ locks' = l /\ ArmLockTimer(l)
      /\ TryStart(pending_trigger, locked, round, subscriptions, frames)
      /\ UNCHANGED <<next_lock, lock_round, round_timer, stats, current, poolvars,
                     subvars, alive>>
  BY DEF Unlock
<1>2. l \in [DOMAIN l -> Int] /\ DOMAIN l \subseteq Locks /\ locked \in BOOLEAN
  BY DEF TypeInv, TypeOK, LockType
<1>3. CoreTyped
  <2> HIDE DEF locked
  <2> QED
    BY <1>1, <1>2, StartTyped
<1>4. LockType'
  <2> HIDE DEF l
  <2>1. lock_timer' \in Int \cup {Off}
    BY <1>1, <1>2, ArmLockTimerType
  <2> QED
    BY <2>1, <1>1, <1>2 DEF TypeInv, TypeOK, LockType
<1>5. SubscriberType' /\ alive' \in BOOLEAN /\ UNCHANGED poolvars
  BY <1>1 DEF TypeInv, TypeOK, SubscriberType, CoreType, subvars
<1> QED
  BY <1>3, <1>4, <1>5, CoreTypedInv

LEMMA DestroyType ==
  ASSUME TypeInv, Destroy
  PROVE  TypeInv'
<1>1. Frame("DEREG", current, 0, subscriptions) \in Frames
  <2>1. /\ current \in Tickets \cup {0} /\ subscriptions \in SUBSET Handles
        /\ 0 \in 0 .. MaxRounds /\ "DEREG" \in Commands
    BY BoundsAssumption DEF Commands, TypeInv, TypeOK, SubscriberType, PoolType
  <2> QED
    BY <2>1, FrameType
<1>2. CoreTyped
  <2>1. /\ round' = NoRound /\ frames' = <<Frame("DEREG", current, 0, subscriptions)>>
        /\ round_timer' = Off
        /\ UNCHANGED <<round_counter, pending_trigger, stats, current>>
    BY DEF Destroy
  <2>2. frames' \in Seq(Frames)
    BY <2>1, <1>1
  <2> QED
    BY <2>1, <2>2, NoRoundType DEF CoreTyped, TypeInv, TypeOK, CoreType, PoolType
<1>3. LockType' /\ SubscriberType'
  BY DEF Destroy, TypeInv, TypeOK, LockType, SubscriberType, subvars
<1>4. alive' \in BOOLEAN /\ UNCHANGED poolvars
  BY DEF Destroy
<1> QED
  BY <1>2, <1>3, <1>4, CoreTypedInv

LEMMA TickType ==
  ASSUME TypeInv, NEW d \in 1 .. MaxJump, Tick(d)
  PROVE  TypeInv'
<1>1. d \in Int
  BY BoundsAssumption
<1>2. round_timer' \in Int \cup {Off} /\ lock_timer' \in Int \cup {Off}
  BY <1>1 DEF Tick, Elapse, TypeInv, TypeOK, CoreType, LockType
<1>3. CoreTyped
  BY <1>2 DEF Tick, CoreTyped, TypeInv, TypeOK, CoreType, PoolType
<1>4. LockType'
  BY <1>1, <1>2 DEF Tick, TypeInv, TypeOK, LockType
<1>5. SubscriberType' /\ alive' \in BOOLEAN /\ UNCHANGED poolvars
  BY DEF Tick, TypeInv, TypeOK, SubscriberType, CoreType, subvars
<1> QED
  BY <1>3, <1>4, <1>5, CoreTypedInv

LEMMA RoundTimeoutType ==
  ASSUME TypeInv, RoundTimeout
  PROVE  TypeInv'
<1>1. /\ round \in Rounds /\ frames \in Seq(Frames)
      /\ subscriptions \in SUBSET Handles
  BY DEF TypeInv, TypeOK, CoreType, SubscriberType
<1>2. Cardinality(round.outstanding) \in Nat
  <2>1. round.outstanding \in SUBSET Handles
    BY <1>1 DEF Rounds
  <2>2. IsFiniteSet(Handles)
    <3>1. 1 \in Int /\ MaxSubscriptions \in Int
      BY BoundsAssumption
    <3> QED
      BY <3>1, FS_Interval DEF Handles
  <2>3. IsFiniteSet(round.outstanding)
    BY <2>1, <2>2, FS_Subset
  <2> QED
    BY <2>3, FS_CardinalityType
<1>3. CoreTyped
  <2>1. CASE /\ round_timer' = Off
             /\ UNCHANGED <<frames, round, round_counter, pending_trigger, stats, current>>
    BY <2>1 DEF CoreTyped, TypeInv, TypeOK, CoreType, PoolType
  <2>2. CASE Abort(frames, 1)
    BY <2>2, <1>1, AbortType
  <2>3. CASE Finish(subscriptions, frames, Cardinality(round.outstanding), 1)
    BY <2>3, <1>1, <1>2, FinishType
  <2> QED
    BY <2>1, <2>2, <2>3 DEF RoundTimeout
<1>4. LockType' /\ SubscriberType' /\ alive' \in BOOLEAN /\ UNCHANGED poolvars
  BY DEF RoundTimeout, TypeInv, TypeOK, LockType, SubscriberType, CoreType,
         lockvars, subvars
<1> QED
  BY <1>3, <1>4, CoreTypedInv

LEMMA LockTimeoutType ==
  ASSUME TypeInv, LockTimeout
  PROVE  TypeInv'
<1>1. ReleaseExpired(locks) /\ UNCHANGED <<round_timer, stats, current>>
  BY DEF LockTimeout
<1>2. DOMAIN locks \subseteq Locks /\ locks \in [DOMAIN locks -> Int]
  BY DEF TypeInv, TypeOK, LockType
<1>3. /\ CoreTyped
      /\ DOMAIN locks' \subseteq Locks
      /\ locks' \in [DOMAIN locks' -> Int]
      /\ lock_timer' \in Int \cup {Off}
  BY <1>1, <1>2, ReleaseExpiredType
<1>4. LockType'
  BY <1>3 DEF LockTimeout, TypeInv, TypeOK, LockType
<1>5. SubscriberType' /\ alive' \in BOOLEAN /\ UNCHANGED poolvars
  BY DEF LockTimeout, TypeInv, TypeOK, SubscriberType, CoreType, subvars
<1> QED
  BY <1>3, <1>4, <1>5, CoreTypedInv

LEMMA PoolStepType ==
  ASSUME TypeInv,
         Prune \/ \E t \in Tickets : AddTicket(t) \/ ValidityPasses(t)
  PROVE  TypeInv'
<1>1. /\ UNCHANGED core
      /\ LockType' /\ SubscriberType' /\ alive' \in BOOLEAN
  BY DEF Prune, AddTicket, ValidityPasses, TypeInv, TypeOK, LockType,
         SubscriberType, CoreType, lockvars, subvars
<1>2. PoolType'
  BY DEF Prune, AddTicket, ValidityPasses, TypeInv, TypeOK, PoolType, core
<1>3. CoreType' /\ (pending_trigger' => round_counter' < MaxRounds)
  BY <1>1, CoreKept DEF CoreTyped, CoreType
<1> QED
  BY <1>1, <1>2, <1>3 DEF TypeInv, TypeOK

LEMMA NextType == TypeInv /\ [Next]_vars => TypeInv'
<1> SUFFICES ASSUME TypeInv, [Next]_vars PROVE TypeInv'
  OBVIOUS
<1>1. CASE UNCHANGED vars
  <2>1. UNCHANGED core /\ UNCHANGED poolvars /\ UNCHANGED alive
        /\ UNCHANGED lockvars /\ UNCHANGED subvars
    BY <1>1 DEF vars
  <2>2. LockType' /\ SubscriberType' /\ alive' \in BOOLEAN
    BY <2>1 DEF TypeInv, TypeOK, LockType, SubscriberType, CoreType, lockvars, subvars
  <2> QED
    BY <2>1, <2>2, CoreKept, CoreTypedInv
<1>2. CASE NotifyStep
  BY <1>2, NotifySkipType, NotifyCallType, NotifyReturnType DEF NotifyStep
<1>3. CASE \E r \in responders, code \in BOOLEAN : Respond(r, code)
  BY <1>3, RespondType
<1>4. CASE Subscribe \/ \E h \in Handles : Unsubscribe(h)
  BY <1>4, SubscribeType, UnsubscribeType
<1>5. CASE Trigger
  BY <1>5, TriggerType
<1>6. CASE \E d \in LockDurations : Lock(d)
  BY <1>6, LockOpType
<1>7. CASE \E k \in Locks : Unlock(k)
  BY <1>7, UnlockType
<1>8. CASE Destroy
  BY <1>8, DestroyType
<1>9. CASE \E d \in 1 .. MaxJump : Tick(d)
  BY <1>9, TickType
<1>10. CASE RoundTimeout \/ LockTimeout
  BY <1>10, RoundTimeoutType, LockTimeoutType
<1>11. CASE Prune \/ \E t \in Tickets : AddTicket(t) \/ ValidityPasses(t)
  BY <1>11, PoolStepType
<1> QED
  BY <1>1, <1>2, <1>3, <1>4, <1>5, <1>6, <1>7, <1>8, <1>9, <1>10, <1>11 DEF Next

\* Type correctness of the identifier-change service, for any number of
\* tickets, subscribers, locks and rounds and with any behaviour of the hooks;
\* in particular the current ticket is always one of the pool.
THEOREM TypeCorrect == Spec => []TypeOK
<1>1. TypeInv => TypeOK
  BY DEF TypeInv
<1> QED
  BY <1>1, InitType, NextType, PTL DEF Spec

-----------------------------------------------------------------------------
(* Rounds, for subscribers that use the service as documented: hooks       *)
(* respond, subscribe and unsubscribe re-entrantly, nothing else.          *)

Documented == "reentrant" \notin Allowed

\* An open round belongs to at most one notify() call, the one that delivers
\* its phase; outside notify() it waits for an answer under its timer.
RoundInv ==
  /\ \A i \in DOMAIN frames : Expects(frames[i]) => frames[i].round # 0
  /\ Open => alive /\ Len(frames) <= 1
  /\ Open /\ frames # <<>> =>
       frames[1].round = round.id /\ frames[1].command = round.phase
  /\ Open /\ frames = <<>> => round.outstanding # {} /\ round_timer # Off
  /\ round_timer # Off => Open /\ frames = <<>>
  /\ ~alive => lock_timer = Off

\* Who does not use the current identifier yet is still to be told by the
\* COMMIT that is being delivered.
AgreeInv ==
  /\ Open => round.new \in pool
  /\ Open /\ round.phase = "COMMIT" => current = round.new
  /\ Open /\ frames # <<>> => frames[1].id = round.new
  /\ \A h \in subscriptions :
       identifier[h] # current =>
         /\ Open /\ round.phase = "COMMIT"
         /\ frames # <<>> /\ h \in frames[1].todo

-----------------------------------------------------------------------------
(* Lemmas on the stack of notify() calls.                                  *)

LEMMA BelowElements ==
  ASSUME TypeOK, frames # <<>>
  PROVE  Len(Below) = Len(frames) - 1 /\ \A i \in 1 .. Len(frames) - 1 : Below[i] = frames[i]
<1>1. frames \in Seq(Frames) /\ Len(frames) \in Nat \ {0}
  BY DEF TypeOK, CoreType
<1> DEFINE n == Len(frames) - 1
<1>2. n \in Int /\ 1 \in Int /\ \A i \in 1 .. n : frames[i] \in Frames
  BY <1>1
<1>3. /\ Len(SubSeq(frames, 1, n)) = IF 1 <= n THEN n - 1 + 1 ELSE 0
      /\ \A i \in 1 .. n - 1 + 1 : SubSeq(frames, 1, n)[i] = frames[1 + i - 1]
  <2> HIDE DEF n
  <2> QED
    BY <1>2, SubSeqProperties
<1>4. Below = SubSeq(frames, 1, n)
  BY DEF Below
<1> HIDE DEF n
<1>5. n = Len(frames) - 1
  BY DEF n
<1> QED
  BY <1>1, <1>3, <1>4, <1>5

LEMMA BelowEmpty ==
  ASSUME TypeOK, Len(frames) = 1
  PROVE  Below = <<>>
<1>1. frames # <<>> /\ frames \in Seq(Frames)
  <2>1. Len(<<>>) = 0
    OBVIOUS
  <2>2. frames # <<>>
    BY <2>1
  <2> QED
    BY <2>2 DEF TypeOK, CoreType
<1>2. Len(Below) = 0 /\ Below \in Seq(Frames)
  <2>1. Len(Below) = Len(frames) - 1
    BY <1>1, BelowElements, Zenon
  <2>2. Below \in Seq(Frames)
    BY <1>1 DEF Below
  <2> QED
    BY <2>1, <2>2
<1> QED
  BY <1>2

LEMMA ReplaceTop ==
  ASSUME TypeOK, frames # <<>>, NEW f, frames' = Append(Below, f)
  PROVE  /\ frames' # <<>> /\ Len(frames') = Len(frames)
         /\ DOMAIN frames' = DOMAIN frames
         /\ frames'[Len(frames)] = f
         /\ \A i \in 1 .. Len(frames) - 1 : frames'[i] = frames[i]
<1>1. frames \in Seq(Frames) /\ Len(frames) \in Nat \ {0} /\ Below \in Seq(Frames)
  BY DEF TypeOK, CoreType, Below
<1>2. Len(Below) = Len(frames) - 1 /\ \A i \in 1 .. Len(frames) - 1 : Below[i] = frames[i]
  BY BelowElements
<1> QED
  BY <1>1, <1>2

LEMMA PopTop ==
  ASSUME TypeOK, frames # <<>>, frames' = Below
  PROVE  /\ Len(frames') = Len(frames) - 1
         /\ DOMAIN frames' = 1 .. Len(frames) - 1
         /\ \A i \in DOMAIN frames' : frames'[i] = frames[i]
         /\ Len(frames) = 1 => frames' = <<>>
<1>1. frames \in Seq(Frames) /\ Len(frames) \in Nat \ {0} /\ Below \in Seq(Frames)
  BY DEF TypeOK, CoreType, Below
<1>2. Len(Below) = Len(frames) - 1 /\ \A i \in 1 .. Len(frames) - 1 : Below[i] = frames[i]
  BY BelowElements
<1>3. DOMAIN Below = 1 .. Len(frames) - 1
  BY <1>1, <1>2
<1>4. Len(frames) = 1 => Below = <<>>
  BY <1>1, <1>2
<1> QED
  BY <1>2, <1>3, <1>4

LEMMA PushTop ==
  ASSUME TypeOK, NEW f, frames' = Append(frames, f)
  PROVE  /\ frames' # <<>>
         /\ DOMAIN frames' = 1 .. Len(frames) + 1
         /\ frames'[Len(frames) + 1] = f
         /\ \A i \in DOMAIN frames : frames'[i] = frames[i]
BY DEF TypeOK, CoreType

\* A new phase is announced by a single notify() call.
Announced(phase) ==
  /\ round'.id # 0 /\ round'.phase = phase
  /\ frames' = <<Frame(phase, round'.new, round'.id, round'.outstanding)>>
  /\ round'.outstanding = subscriptions'

LEMMA TryStartOutcome ==
  ASSUME TypeOK, NEW p \in BOOLEAN, NEW locked \in BOOLEAN, NEW r \in Rounds,
         TryStart(p, locked, r, subscriptions', <<>>)
  PROVE  \/ round' = r /\ frames' = <<>>
         \/ r.id = 0 /\ Announced("PREPARE") /\ round'.new \in pool
<1>1. CASE CanStart(p, locked, r) /\ OtherValid # {}
  <2>1. PICK next \in OtherValid :
          /\ round' = [id |-> round_counter + 1, phase |-> "PREPARE",
                       new |-> next, outstanding |-> subscriptions']
          /\ frames' = Append(<<>>, Frame("PREPARE", next, round_counter + 1, subscriptions'))
    BY <1>1 DEF TryStart
  <2>2. round_counter + 1 # 0
    BY BoundsAssumption DEF TypeOK, CoreType
  <2>3. r.id = 0 /\ next \in pool
    BY <1>1 DEF CanStart, OtherValid
  <2> QED
    BY <2>1, <2>2, <2>3 DEF Announced
<1>2. CASE ~(CanStart(p, locked, r) /\ OtherValid # {})
  BY <1>2 DEF TryStart
<1> QED
  BY <1>1, <1>2

\* What advance() and finish() leave behind when no other notify() runs.
Settled ==
  /\ round_timer' = Off
  /\ \/ round'.id = 0 /\ frames' = <<>> /\ current' = current
     \/ Announced("PREPARE") /\ round'.new \in pool /\ current' = current

LEMMA FinishOutcome ==
  ASSUME TypeOK, NEW f, NEW t, Finish(subscriptions', <<>>, f, t)
  PROVE  Settled
<1> DEFINE locked == DOMAIN locks # {}
<1>1. TryStart(pending_trigger, locked, NoRound, subscriptions', <<>>) /\ round_timer' = Off
      /\ current' = current
  BY DEF Finish
<1>2. locked \in BOOLEAN /\ pending_trigger \in BOOLEAN
  BY DEF TypeOK, CoreType
<1>3. \/ round' = NoRound /\ frames' = <<>>
      \/ Announced("PREPARE") /\ round'.new \in pool
  <2> HIDE DEF locked
  <2> QED
    BY <1>1, <1>2, NoRoundType, TryStartOutcome
<1> QED
  BY <1>1, <1>3 DEF Settled, NoRound

LEMMA AdvanceOutcome ==
  ASSUME TypeOK, NEW r \in Rounds, NEW f, Advance(r, subscriptions', <<>>, f),
         r.id # 0, r.outstanding = {}
  PROVE  \/ Settled
         \/ /\ round_timer' = Off /\ r.phase = "PREPARE"
            /\ Announced("COMMIT") /\ round'.new = r.new
            /\ current' = Select(r.new)
<1>1. CASE r.phase = "PREPARE"
  BY <1>1 DEF Advance, Announced
<1>2. CASE r.phase = "COMMIT"
  BY <1>2, FinishOutcome DEF Advance
<1> QED
  BY <1>1, <1>2 DEF Rounds, Phases

LEMMA AnnouncedInv ==
  ASSUME NEW phase \in Phases, Announced(phase), round_timer' = Off,
         alive' = TRUE
  PROVE  RoundInv'
<1> DEFINE f == Frame(phase, round'.new, round'.id, round'.outstanding)
<1>1. /\ frames' = <<f>> /\ f.round = round'.id /\ f.command = round'.phase
      /\ round'.id # 0
  BY DEF Announced, Frame
<1> HIDE DEF f
<1>2. /\ frames' # <<>> /\ Len(frames') = 1 /\ DOMAIN frames' = {1} /\ frames'[1] = f
  BY <1>1
<1> QED
  BY <1>1, <1>2 DEF RoundInv, Open

LEMMA SettledInv ==
  ASSUME Settled, alive' = TRUE
  PROVE  RoundInv'
<1>1. CASE round'.id = 0 /\ frames' = <<>>
  BY <1>1 DEF Settled, RoundInv, Open
<1>2. CASE Announced("PREPARE")
  BY <1>2, AnnouncedInv DEF Settled, Phases
<1> QED
  BY <1>1, <1>2 DEF Settled

LEMMA AdvanceInv ==
  ASSUME TypeOK, NEW r \in Rounds, NEW f, Advance(r, subscriptions', <<>>, f),
         r.id # 0, r.outstanding = {}, alive' = TRUE
  PROVE  RoundInv'
<1>1. \/ Settled
      \/ round_timer' = Off /\ Announced("COMMIT")
  BY AdvanceOutcome
<1> QED
  BY <1>1, SettledInv, AnnouncedInv DEF Phases

\* An abort may be raised at any depth.
LEMMA AbortInv ==
  ASSUME TypeOK, RoundInv, NEW t, Abort(frames, t), alive' = alive,
         lock_timer' = lock_timer
  PROVE  RoundInv'
<1> DEFINE f == Frame("ABORT", round.new, 0, subscriptions)
<1>1. /\ frames' = Append(frames, f) /\ round' = NoRound /\ round_timer' = Off
      /\ ~Expects(f)
  BY DEF Abort, Frame, Expects, Phases
<1> HIDE DEF f
<1>2. \A i \in DOMAIN frames' : Expects(frames'[i]) => frames'[i].round # 0
  BY <1>1, PushTop DEF RoundInv, TypeOK, CoreType
<1> QED
  BY <1>1, <1>2 DEF RoundInv, Open, NoRound

\* trigger(), unlock() and the expiry of locks.
LEMMA StartInv ==
  ASSUME TypeOK, RoundInv, frames = <<>>, alive,
         NEW p \in BOOLEAN, NEW locked \in BOOLEAN,
         TryStart(p, locked, round, subscriptions, frames),
         UNCHANGED <<round_timer, alive, subscriptions>>
  PROVE  RoundInv'
<1>1. TryStart(p, locked, round, subscriptions', <<>>) /\ round \in Rounds
  BY DEF TypeOK, CoreType
<1>2. \/ round' = round /\ frames' = <<>>
      \/ round.id = 0 /\ Announced("PREPARE")
  BY <1>1, TryStartOutcome
<1>3. alive' = TRUE
  BY DEF TypeOK, CoreType
<1>4. CASE round' = round /\ frames' = <<>>
  BY <1>3, <1>4 DEF RoundInv, Open
<1>5. CASE round.id = 0 /\ Announced("PREPARE")
  BY <1>3, <1>5, AnnouncedInv DEF RoundInv, Open, Phases
<1> QED
  BY <1>2, <1>4, <1>5

LEMMA InitRound == Init => RoundInv
BY DEF Init, RoundInv, Open, NoRound

LEMMA NotifyInv ==
  ASSUME TypeInv, RoundInv, NotifyStep
  PROVE  RoundInv'
<1>1. CASE NotifySkip
  <2>1. PICK h \in Top.todo :
          /\ round' = IF round.id # 0 /\ round.id = Top.round
                      THEN [round EXCEPT !.outstanding = @ \ {h}] ELSE round
          /\ frames' = Append(Below, Delivered(Top, h, 0))
    BY <1>1 DEF NotifySkip
  <2>2. round'.id = round.id /\ round'.phase = round.phase
    BY <2>1 DEF TypeInv, TypeOK, CoreType, Rounds
  <2> DEFINE f == Delivered(Top, h, 0)
  <2>3. frames' = Append(Below, f) /\ f.command = Top.command /\ f.round = Top.round
    BY <2>1 DEF Delivered
  <2> HIDE DEF f
  <2>4. /\ frames # <<>> /\ frames' # <<>> /\ Len(frames') = Len(frames)
        /\ DOMAIN frames' = DOMAIN frames
        /\ frames'[Len(frames)] = f
        /\ \A i \in 1 .. Len(frames) - 1 : frames'[i] = frames[i]
    BY <2>3, <1>1, ReplaceTop DEF NotifySkip, TypeInv
  <2>5. \A i \in DOMAIN frames : /\ frames'[i].command = frames[i].command
                                 /\ frames'[i].round = frames[i].round
    BY <2>3, <2>4 DEF Top, TypeInv, TypeOK, CoreType
  <2>6. Len(frames) \in Nat /\ DOMAIN frames = 1 .. Len(frames)
    BY DEF TypeInv, TypeOK, CoreType
  <2>7. UNCHANGED <<round_timer, lock_timer, alive>>
    BY <1>1 DEF NotifySkip, lockvars
  <2>8. Len(frames) # 0
    BY <2>4, <2>6 DEF TypeInv, TypeOK, CoreType
  <2> QED
    BY <2>2, <2>4, <2>5, <2>6, <2>7, <2>8 DEF RoundInv, Open, Expects
<1>2. CASE NotifyCall
  <2>1. PICK h \in Top.todo : frames' = Append(Below, Delivered(Top, h, h))
    BY <1>2 DEF NotifyCall
  <2> DEFINE f == Delivered(Top, h, h)
  <2>2. frames' = Append(Below, f) /\ f.command = Top.command /\ f.round = Top.round
    BY <2>1 DEF Delivered
  <2> HIDE DEF f
  <2>3. /\ frames # <<>> /\ frames' # <<>> /\ Len(frames') = Len(frames)
        /\ DOMAIN frames' = DOMAIN frames
        /\ frames'[Len(frames)] = f
        /\ \A i \in 1 .. Len(frames) - 1 : frames'[i] = frames[i]
    BY <2>2, <1>2, ReplaceTop DEF NotifyCall, TypeInv
  <2>4. \A i \in DOMAIN frames : /\ frames'[i].command = frames[i].command
                                 /\ frames'[i].round = frames[i].round
    BY <2>2, <2>3 DEF Top, TypeInv, TypeOK, CoreType
  <2>5. Len(frames) \in Nat /\ DOMAIN frames = 1 .. Len(frames)
    BY DEF TypeInv, TypeOK, CoreType
  <2>6. UNCHANGED <<round, round_timer, lock_timer, alive>>
    BY <1>2 DEF NotifyCall, lockvars
  <2>7. Len(frames) # 0
    BY <2>3, <2>5 DEF TypeInv, TypeOK, CoreType
  <2> QED
    BY <2>3, <2>4, <2>5, <2>6, <2>7 DEF RoundInv, Open, Expects
<1>3. CASE NotifyReturn
  <2>1. frames # <<>> /\ Len(frames) \in Nat \ {0} /\ UNCHANGED <<alive, lock_timer>>
    BY <1>3, BelowType DEF NotifyReturn, TypeInv, lockvars
  <2>2. CASE Open
    <3>1. Len(frames) <= 1
      BY <2>2, Zenon DEF RoundInv
    <3>2. Len(frames) = 1 /\ Top = frames[1] /\ Below = <<>>
      <4>1. Len(frames) = 1
        <5>1. Len(frames) \in Nat \ {0}
          BY <2>1
        <5>2. \A n \in Nat \ {0} : n <= 1 => n = 1
          OBVIOUS
        <5> QED
          BY <5>1, <5>2, <3>1, Zenon
      <4>2. Below = <<>>
        BY <4>1, BelowEmpty DEF TypeInv
      <4> QED
        BY <4>1, <4>2 DEF Top
    <3>3. Expects(Top) /\ round.id = Top.round /\ Top.command # "DEREG"
      BY <2>1, <2>2, <3>2 DEF RoundInv, Expects, Open, TypeInv, TypeOK, CoreType, Rounds, Phases
    <3>4. subscriptions' = subscriptions /\ alive' = TRUE /\ round \in Rounds
      BY <1>3, <2>1, <2>2, <3>3 DEF NotifyReturn, RoundInv, TypeInv, TypeOK, CoreType
    <3>5. CASE round.outstanding = {}
      <4>1. Advance(round, subscriptions', <<>>, 0)
        BY <1>3, <2>2, <3>2, <3>3, <3>4, <3>5 DEF NotifyReturn, Open
      <4> QED
        BY <4>1, <2>2, <3>4, <3>5, AdvanceInv DEF Open, TypeInv
    <3>6. CASE round.outstanding # {}
      <4>1. ArmRoundTimer(<<>>)
        BY <1>3, <2>2, <3>2, <3>3, <3>6 DEF NotifyReturn, Open
      <4>2. ResponseTimeout # Off
        BY BoundsAssumption, OffAssumption
      <4> QED
        BY <4>1, <4>2, <2>2, <3>4, <3>6 DEF ArmRoundTimer, RoundInv, Open
    <3> QED
      BY <3>5, <3>6
  <2>3. CASE ~Open
    <3>1. frames' = Below /\ UNCHANGED <<round, round_timer>>
      BY <1>3, <2>3 DEF NotifyReturn, Open
    <3>2. \A i \in DOMAIN frames' : frames'[i] = frames[i] /\ i \in DOMAIN frames
      BY <2>1, <3>1, PopTop DEF TypeInv, TypeOK, CoreType
    <3> QED
      BY <2>1, <2>3, <3>1, <3>2 DEF RoundInv, Open
  <2> QED
    BY <2>2, <2>3
<1> QED
  BY <1>1, <1>2, <1>3 DEF NotifyStep

LEMMA RespondInv ==
  ASSUME TypeInv, RoundInv, NEW r \in responders, NEW code \in BOOLEAN, Respond(r, code)
  PROVE  RoundInv'
<1> DEFINE left == [round EXCEPT !.outstanding = round.outstanding \ {r.handle}]
<1>1. UNCHANGED <<lock_timer, alive, subscriptions>>
  BY DEF Respond, lockvars
<1>2. /\ round \in Rounds /\ left \in Rounds /\ left.id = round.id
      /\ left.phase = round.phase /\ left.outstanding = round.outstanding \ {r.handle}
  BY DEF TypeInv, TypeOK, CoreType, Rounds
<1>3. CASE UNCHANGED core
  BY <1>1, <1>3 DEF core, RoundInv, Open
<1>4. CASE Abort(frames, 0)
  BY <1>1, <1>4, AbortInv DEF TypeInv
<1>5. CASE /\ Awaited(r) /\ left.outstanding = {} /\ frames = <<>>
           /\ \E f \in Nat : Advance(left, subscriptions, frames, f)
  <2>1. PICK f \in Nat : Advance(left, subscriptions', <<>>, f)
    BY <1>1, <1>5
  <2>2. left.id # 0 /\ alive' = TRUE
    BY <1>1, <1>2, <1>5 DEF Awaited, RoundInv, Open, TypeInv, TypeOK, CoreType
  <2> HIDE DEF left
  <2> QED
    BY <2>1, <2>2, <1>2, <1>5, AdvanceInv DEF TypeInv
<1>6. CASE /\ Awaited(r) /\ ~(left.outstanding = {} /\ frames = <<>>)
           /\ round' = left
           /\ UNCHANGED <<frames, round_timer>>
  BY <1>1, <1>2, <1>6 DEF RoundInv, Open
<1> QED
  <2>1. (IF code THEN 0 ELSE 1) \in Nat
    OBVIOUS
  <2> QED
    BY <2>1, <1>2, <1>3, <1>4, <1>5, <1>6 DEF Respond

LEMMA UnsubscribeInv ==
  ASSUME TypeInv, RoundInv, NEW h \in Handles, Unsubscribe(h)
  PROVE  RoundInv'
<1> DEFINE left == [round EXCEPT !.outstanding = round.outstanding \ {h}]
<1>1. UNCHANGED <<lock_timer, alive>> /\ subscriptions' = subscriptions \ {h}
  BY DEF Unsubscribe, lockvars
<1>2. /\ round \in Rounds /\ left \in Rounds /\ left.id = round.id
      /\ left.phase = round.phase /\ left.outstanding = round.outstanding \ {h}
  BY DEF TypeInv, TypeOK, CoreType, Rounds
<1>3. CASE round.id # 0 /\ h \in round.outstanding /\ left.outstanding = {} /\ frames = <<>>
  <2>1. Advance(left, subscriptions', <<>>, 0)
    BY <1>1, <1>2, <1>3 DEF Unsubscribe
  <2>2. alive' = TRUE
    BY <1>1, <1>3 DEF RoundInv, Open, TypeInv, TypeOK, CoreType
  <2> HIDE DEF left
  <2> QED
    BY <2>1, <2>2, <1>2, <1>3, AdvanceInv DEF TypeInv
<1>4. CASE ~(round.id # 0 /\ h \in round.outstanding /\ left.outstanding = {} /\ frames = <<>>)
  <2>1. round' = left /\ UNCHANGED <<frames, round_timer>>
    BY <1>2, <1>4 DEF Unsubscribe
  <2>2. round'.outstanding = {} /\ round.id # 0 /\ frames = <<>> => round.outstanding = {}
    BY <2>1, <1>2, <1>4
  <2> QED
    BY <1>1, <1>2, <2>1, <2>2 DEF RoundInv, Open
<1> QED
  BY <1>3, <1>4

LEMMA ReleaseExpiredInv ==
  ASSUME TypeOK, RoundInv, frames = <<>>, alive, NEW l, ReleaseExpired(l),
         UNCHANGED <<round_timer, alive, subscriptions>>
  PROVE  RoundInv'
<1> DEFINE locked == {k \in DOMAIN l : l[k] > 0} # {}
<1>1. TryStart(pending_trigger, locked, round, subscriptions, frames)
  BY DEF ReleaseExpired
<1>2. locked \in BOOLEAN /\ pending_trigger \in BOOLEAN
  BY DEF TypeOK, CoreType
<1> HIDE DEF locked
<1> QED
  BY <1>1, <1>2, StartInv

LEMMA TriggerInv ==
  ASSUME Documented, TypeInv, RoundInv, Trigger
  PROVE  RoundInv'
<1> DEFINE locked == DOMAIN locks # {}
<1>1. frames = <<>> /\ alive
  BY DEF Trigger, MayReenter, Available, Documented
<1>2. /\ TryStart(TRUE, locked, round, subscriptions, frames)
      /\ UNCHANGED <<round_timer, alive, subscriptions>>
  BY DEF Trigger, subvars
<1>3. locked \in BOOLEAN /\ TRUE \in BOOLEAN
  OBVIOUS
<1> HIDE DEF locked
<1> QED
  BY <1>1, <1>2, <1>3, StartInv DEF TypeInv

LEMMA LockInv ==
  ASSUME Documented, TypeInv, RoundInv, NEW d \in LockDurations, Lock(d)
  PROVE  RoundInv'
<1> DEFINE l == [k \in DOMAIN locks \cup {next_lock} |->
                   IF k = next_lock THEN d ELSE locks[k]]
<1>1. frames = <<>> /\ alive
  BY DEF Lock, MayReenter, Available, Documented
<1>2. UNCHANGED <<round_timer, alive, subscriptions>>
  BY DEF Lock, subvars
<1>3. CASE ReleaseExpired(l)
  <2> HIDE DEF l
  <2> QED
    BY <1>1, <1>2, <1>3, ReleaseExpiredInv DEF TypeInv
<1>4. CASE UNCHANGED <<frames, round, round_counter, pending_trigger>>
  BY <1>1, <1>2, <1>4 DEF RoundInv, Open
<1> QED
  BY <1>3, <1>4 DEF Lock

LEMMA UnlockInv ==
  ASSUME Documented, TypeInv, RoundInv, NEW k \in Locks, Unlock(k)
  PROVE  RoundInv'
<1> DEFINE locked == DOMAIN [j \in DOMAIN locks \ {k} |-> locks[j]] # {}
<1>1. frames = <<>> /\ alive
  BY DEF Unlock, MayReenter, Available, Documented
<1>2. /\ TryStart(pending_trigger, locked, round, subscriptions, frames)
      /\ UNCHANGED <<round_timer, alive, subscriptions>>
  BY DEF Unlock, subvars
<1>3. locked \in BOOLEAN /\ pending_trigger \in BOOLEAN
  BY DEF TypeInv, TypeOK, CoreType
<1> HIDE DEF locked
<1> QED
  BY <1>1, <1>2, <1>3, StartInv DEF TypeInv

LEMMA DestroyInv ==
  ASSUME TypeInv, RoundInv, Destroy
  PROVE  RoundInv'
<1> DEFINE f == Frame("DEREG", current, 0, subscriptions)
<1>1. /\ frames' = <<f>> /\ ~Expects(f)
      /\ round'.id = 0 /\ round_timer' = Off /\ lock_timer' = Off
  BY DEF Destroy, Frame, Expects, Phases, NoRound
<1> HIDE DEF f
<1>2. DOMAIN frames' = {1} /\ frames'[1] = f
  BY <1>1
<1> QED
  BY <1>1, <1>2 DEF RoundInv, Open

LEMMA TickInv ==
  ASSUME TypeInv, RoundInv, NEW d \in 1 .. MaxJump, Tick(d)
  PROVE  RoundInv'
<1>1. d \in Int
  BY BoundsAssumption
<1>2. (round_timer' = Off <=> round_timer = Off) /\ (lock_timer = Off => lock_timer' = Off)
  BY <1>1, OffAssumption DEF Tick, Elapse, TypeInv, TypeOK, CoreType
<1>3. UNCHANGED <<frames, round, alive>>
  BY DEF Tick
<1> QED
  BY <1>2, <1>3 DEF RoundInv, Open

LEMMA RoundTimeoutInv ==
  ASSUME TypeInv, RoundInv, RoundTimeout
  PROVE  RoundInv'
<1>1. UNCHANGED <<alive, lock_timer, subscriptions>> /\ frames = <<>> /\ Open /\ alive
  BY DEF RoundTimeout, lockvars, subvars, RoundInv
<1>2. CASE Abort(frames, 1)
  BY <1>1, <1>2, AbortInv DEF TypeInv
<1>3. CASE Finish(subscriptions, frames, Cardinality(round.outstanding), 1)
  <2>1. Finish(subscriptions', <<>>, Cardinality(round.outstanding), 1)
    BY <1>1, <1>3
  <2>2. Settled
    BY <2>1, FinishOutcome DEF TypeInv
  <2>3. alive' = TRUE
    BY <1>1 DEF TypeInv, TypeOK, CoreType
  <2> QED
    BY <2>2, <2>3, SettledInv
<1> QED
  BY <1>1, <1>2, <1>3 DEF RoundTimeout, Open

LEMMA LockTimeoutInv ==
  ASSUME TypeInv, RoundInv, LockTimeout
  PROVE  RoundInv'
<1>1. frames = <<>> /\ lock_timer # Off /\ ReleaseExpired(locks)
  BY DEF LockTimeout
<1>2. alive
  BY <1>1 DEF RoundInv
<1>3. UNCHANGED <<round_timer, alive, subscriptions>>
  BY DEF LockTimeout, subvars
<1> QED
  BY <1>1, <1>2, <1>3, ReleaseExpiredInv DEF TypeInv

LEMMA NextInv == Documented /\ TypeInv /\ RoundInv /\ [Next]_vars => RoundInv'
<1> SUFFICES ASSUME Documented, TypeInv, RoundInv, [Next]_vars PROVE RoundInv'
  OBVIOUS
<1>1. CASE UNCHANGED <<core, lock_timer, alive>>
  BY <1>1 DEF core, RoundInv, Open
<1>2. UNCHANGED vars \/ Subscribe \/ Prune \/ (\E t \in Tickets : AddTicket(t) \/ ValidityPasses(t))
      => UNCHANGED <<core, lock_timer, alive>>
  BY DEF vars, lockvars, Subscribe, Prune, AddTicket, ValidityPasses
<1>3. CASE NotifyStep
  BY <1>3, NotifyInv
<1>4. CASE \E r \in responders, code \in BOOLEAN : Respond(r, code)
  BY <1>4, RespondInv
<1>5. CASE \E h \in Handles : Unsubscribe(h)
  BY <1>5, UnsubscribeInv
<1>6. CASE Trigger \/ \E d \in LockDurations : Lock(d)
  BY <1>6, TriggerInv, LockInv
<1>7. CASE \E k \in Locks : Unlock(k)
  BY <1>7, UnlockInv
<1>8. CASE Destroy \/ \E d \in 1 .. MaxJump : Tick(d)
  BY <1>8, DestroyInv, TickInv
<1>9. CASE RoundTimeout \/ LockTimeout
  BY <1>9, RoundTimeoutInv, LockTimeoutInv
<1> QED
  BY <1>1, <1>2, <1>3, <1>4, <1>5, <1>6, <1>7, <1>8, <1>9 DEF Next

\* Whatever the subscribers answer, and however they come and go, a round
\* that is open between two events waits for somebody and is timed: the
\* station is never left between PREPARE and COMMIT for good.
THEOREM RoundsAreTimed ==
  ASSUME Documented
  PROVE  Spec => []OpenRoundIsTimed
<1>1. RoundInv => OpenRoundIsTimed
  BY DEF RoundInv, OpenRoundIsTimed
<1>2. TypeInv /\ RoundInv /\ [Next]_vars => RoundInv'
  BY NextInv
<1> QED
  BY <1>1, <1>2, InitType, NextType, InitRound, PTL DEF Spec

\* The destructor leaves no timer behind whose callback would find the
\* manager gone.
THEOREM NoDanglingTimer ==
  ASSUME Documented
  PROVE  Spec => []NoTimerAfterDestroy
<1>1. RoundInv => NoTimerAfterDestroy
  BY DEF RoundInv, NoTimerAfterDestroy, Open
<1>2. TypeInv /\ RoundInv /\ [Next]_vars => RoundInv'
  BY NextInv
<1> QED
  BY <1>1, <1>2, InitType, NextType, InitRound, PTL DEF Spec

-----------------------------------------------------------------------------
(* Agreement on the identifier, when in addition the pool is left alone    *)
(* while a round is open.                                                  *)

NoPruneInRound == "prune" \notin Allowed
Agreement == \A h \in subscriptions : identifier[h] = current

LEMMA InitAgree == Init => AgreeInv
BY DEF Init, AgreeInv, Open, NoRound

LEMMA QuietAgreement ==
  ASSUME AgreeInv, \/ frames = <<>>
                   \/ ~Open
                   \/ round.phase = "PREPARE"
                   \/ frames[1].todo = {}
  PROVE  Agreement
BY DEF AgreeInv, Agreement

LEMMA AnnouncedAgree ==
  ASSUME NEW phase \in Phases, Announced(phase), round'.new \in pool',
         phase = "COMMIT" => current' = round'.new,
         phase = "PREPARE" => Agreement'
  PROVE  AgreeInv'
<1> DEFINE f == Frame(phase, round'.new, round'.id, round'.outstanding)
<1>1. /\ frames' = <<f>> /\ f.id = round'.new /\ f.todo = subscriptions'
      /\ round'.phase = phase /\ round'.id # 0
  BY DEF Announced, Frame
<1> HIDE DEF f
<1>2. frames' # <<>> /\ frames'[1] = f
  BY <1>1
<1> QED
  BY <1>1, <1>2 DEF AgreeInv, Agreement, Open, Phases

LEMMA SettledAgree ==
  ASSUME Settled, Agreement', pool' = pool
  PROVE  AgreeInv'
<1>1. CASE round'.id = 0 /\ frames' = <<>>
  BY <1>1 DEF AgreeInv, Agreement, Open
<1>2. CASE Announced("PREPARE") /\ round'.new \in pool
  BY <1>2, AnnouncedAgree DEF Phases
<1> QED
  BY <1>1, <1>2 DEF Settled

\* Agreement carries over as long as the ticket and the identifiers stay.
LEMMA AgreementKept ==
  ASSUME Agreement, UNCHANGED <<identifier, current>>, subscriptions' \subseteq subscriptions
  PROVE  Agreement'
BY DEF Agreement

LEMMA AdvanceAgree ==
  ASSUME TypeOK, NEW r \in Rounds, NEW f, Advance(r, subscriptions', <<>>, f),
         r.id # 0, r.outstanding = {}, r.new \in pool, Agreement,
         UNCHANGED <<identifier, pool>>, subscriptions' \subseteq subscriptions
  PROVE  AgreeInv'
<1>1. CASE Settled
  BY <1>1, AgreementKept, SettledAgree DEF Settled
<1>2. CASE Announced("COMMIT") /\ round'.new = r.new /\ current' = Select(r.new)
  BY <1>2, AnnouncedAgree DEF Select, Phases
<1> QED
  BY <1>1, <1>2, AdvanceOutcome

\* A round that ends with nobody left to tell.
LEMMA ClosedAgree ==
  ASSUME Agreement, round'.id = 0,
         UNCHANGED <<identifier, current>>, subscriptions' \subseteq subscriptions
  PROVE  AgreeInv'
<1>1. Agreement'
  BY AgreementKept
<1> QED
  BY <1>1 DEF Agreement, AgreeInv, Open

LEMMA StartAgree ==
  ASSUME TypeOK, AgreeInv, frames = <<>>,
         NEW p \in BOOLEAN, NEW locked \in BOOLEAN,
         TryStart(p, locked, round, subscriptions, frames),
         UNCHANGED <<subscriptions, identifier, current, pool>>
  PROVE  AgreeInv'
<1>1. TryStart(p, locked, round, subscriptions', <<>>) /\ round \in Rounds
  BY DEF TypeOK, CoreType
<1>2. Agreement'
  BY QuietAgreement, AgreementKept
<1>3. CASE round' = round /\ frames' = <<>>
  BY <1>2, <1>3 DEF AgreeInv, Agreement, Open
<1>4. CASE Announced("PREPARE") /\ round'.new \in pool
  BY <1>2, <1>4, AnnouncedAgree DEF Phases
<1> QED
  BY <1>1, <1>3, <1>4, TryStartOutcome

\* The frame whose hooks run is the one of the open round.
LEMMA OpenTop ==
  ASSUME TypeInv, RoundInv, frames # <<>>
  PROVE  /\ Open => Len(frames) = 1 /\ Top = frames[1] /\ Below = <<>>
         /\ Expects(Top) /\ ~Stale(Top) => Open
         /\ Open => Expects(Top) /\ ~Stale(Top) /\ Top.command = round.phase
<1>1. Len(frames) \in Nat \ {0} /\ DOMAIN frames = 1 .. Len(frames) /\ Len(frames) \in DOMAIN frames
  BY BelowType DEF TypeInv, TypeOK, CoreType
<1>2. ASSUME Open
      PROVE  Len(frames) = 1 /\ Top = frames[1] /\ Below = <<>>
  <2>1. Len(frames) <= 1
    BY <1>2, Zenon DEF RoundInv
  <2>2. \A n \in Nat \ {0} : n <= 1 => n = 1
    OBVIOUS
  <2>3. Len(frames) = 1
    BY <1>1, <2>1, <2>2, Zenon
  <2>4. Below = <<>>
    BY <2>3, BelowEmpty DEF TypeInv
  <2> QED
    BY <2>3, <2>4 DEF Top
<1>3. Expects(Top) => Top.round # 0
  BY <1>1 DEF RoundInv, Top
<1>4. ASSUME Open
      PROVE  Expects(Top) /\ ~Stale(Top) /\ Top.command = round.phase
  <2>1. Top = frames[1]
    BY <1>2, <1>4
  <2>2. Top.round = round.id /\ Top.command = round.phase
    BY <1>4, <2>1 DEF RoundInv
  <2> QED
    BY <2>2 DEF Stale, Expects, TypeInv, TypeOK, CoreType, Rounds
<1> QED
  BY <1>2, <1>3, <1>4 DEF Stale, Open

LEMMA NotifySkipAgree ==
  ASSUME TypeInv, RoundInv, AgreeInv, NotifySkip
  PROVE  AgreeInv'
<1>1. PICK h \in Top.todo \ subscriptions :
        /\ round' = IF round.id # 0 /\ round.id = Top.round
                    THEN [round EXCEPT !.outstanding = @ \ {h}] ELSE round
        /\ frames' = Append(Below, Delivered(Top, h, 0))
  BY DEF NotifySkip
<1>2. round'.id = round.id /\ round'.phase = round.phase /\ round'.new = round.new
  BY <1>1 DEF TypeInv, TypeOK, CoreType, Rounds
<1>3. UNCHANGED <<subscriptions, identifier, current, pool>> /\ frames # <<>>
  BY DEF NotifySkip, subvars, poolvars
<1>4. CASE ~Open
  BY <1>2, <1>3, <1>4, QuietAgreement DEF Agreement, AgreeInv, Open
<1>5. CASE Open
  <2>1. Top = frames[1] /\ Below = <<>>
    BY <1>3, <1>5, OpenTop
  <2> DEFINE f == Delivered(frames[1], h, 0)
  <2>2. frames' = <<f>> /\ f.id = frames[1].id /\ f.todo = frames[1].todo \ {h}
    BY <1>1, <2>1 DEF Delivered
  <2> HIDE DEF f
  <2>3. frames' # <<>> /\ frames'[1] = f
    BY <2>2
  <2> QED
    BY <1>1, <1>2, <1>3, <1>5, <2>2, <2>3 DEF AgreeInv, Open
<1> QED
  BY <1>4, <1>5

LEMMA NotifyCallAgree ==
  ASSUME TypeInv, RoundInv, AgreeInv, NotifyCall
  PROVE  AgreeInv'
<1>1. PICK h \in Top.todo \cap subscriptions :
        /\ frames' = Append(Below, Delivered(Top, h, h))
        /\ OnIdChange(h, Top.command, Top.id)
  BY DEF NotifyCall
<1>2. UNCHANGED <<round, subscriptions, current, pool>> /\ frames # <<>> /\ ~Stale(Top)
  BY DEF NotifyCall, poolvars
<1>3. CASE ~Open
  <2>1. ~Expects(Top)
    BY <1>2, <1>3, OpenTop
  <2>2. identifier' = identifier
    BY <1>1, <2>1 DEF OnIdChange, Expects, Phases
  <2> QED
    BY <1>2, <1>3, <2>2, QuietAgreement DEF Agreement, AgreeInv, Open
<1>4. CASE Open
  <2>1. Top = frames[1] /\ Below = <<>> /\ Top.command = round.phase
    BY <1>2, <1>4, OpenTop
  <2> DEFINE f == Delivered(frames[1], h, h)
  <2>2. frames' = <<f>> /\ f.id = frames[1].id /\ f.todo = frames[1].todo \ {h}
    BY <1>1, <2>1 DEF Delivered
  <2> HIDE DEF f
  <2>3. frames' # <<>> /\ frames'[1] = f
    BY <2>2
  <2>4. identifier' = IF round.phase = "COMMIT"
                      THEN [identifier EXCEPT ![h] = round.new] ELSE identifier
    BY <1>1, <1>2, <1>4, <2>1 DEF OnIdChange, AgreeInv
  <2>5. identifier \in [Handles -> Tickets \cup {0}] /\ subscriptions \subseteq Handles
    BY DEF TypeInv, TypeOK, SubscriberType
  <2>6. \A k \in subscriptions : k # h => identifier'[k] = identifier[k]
    BY <2>4, <2>5
  <2>7. round.phase = "COMMIT" => identifier'[h] = current
    BY <1>4, <2>4, <2>5 DEF AgreeInv
  <2>8. \A k \in subscriptions :
          identifier'[k] # current => /\ round.phase = "COMMIT"
                                      /\ k \in frames'[1].todo
    BY <1>4, <2>2, <2>3, <2>4, <2>6, <2>7 DEF AgreeInv
  <2> QED
    BY <1>2, <1>4, <2>2, <2>3, <2>8 DEF AgreeInv, Open
<1> QED
  BY <1>3, <1>4

LEMMA NotifyReturnAgree ==
  ASSUME TypeInv, RoundInv, AgreeInv, NotifyReturn
  PROVE  AgreeInv'
<1>1. /\ frames # <<>> /\ (Top.todo = {} \/ Stale(Top))
      /\ UNCHANGED <<identifier, pool>> /\ subscriptions' \subseteq subscriptions
  BY DEF NotifyReturn, poolvars
<1>2. CASE ~Open
  <2>1. UNCHANGED <<round, current>>
    BY <1>2 DEF NotifyReturn, Open
  <2> QED
    BY <1>1, <1>2, <2>1, QuietAgreement, ClosedAgree DEF Open
<1>3. CASE Open
  <2>1. /\ Len(frames) = 1 /\ Top = frames[1] /\ Below = <<>>
        /\ Expects(Top) /\ ~Stale(Top) /\ round.id = Top.round
    BY <1>1, <1>3, OpenTop DEF Stale
  <2>2. Agreement
    BY <1>1, <2>1, QuietAgreement
  <2>3. subscriptions' = subscriptions
    BY <2>1 DEF NotifyReturn, Expects, Phases
  <2>4. CASE round.outstanding = {}
    <3>1. Advance(round, subscriptions', <<>>, 0)
      BY <1>3, <2>1, <2>3, <2>4 DEF NotifyReturn, Open
    <3>2. round \in Rounds /\ TypeOK /\ round.id # 0 /\ round.new \in pool
      BY <1>3 DEF TypeInv, TypeOK, CoreType, AgreeInv, Open
    <3> QED
      BY <1>1, <2>2, <2>4, <3>1, <3>2, AdvanceAgree
  <2>5. CASE round.outstanding # {}
    <3>1. ArmRoundTimer(<<>>)
      BY <1>3, <2>1, <2>5 DEF NotifyReturn, Open
    <3>2. UNCHANGED <<round, current>> /\ frames' = <<>>
      BY <3>1 DEF ArmRoundTimer
    <3>3. Agreement'
      BY <1>1, <2>2, <3>2, AgreementKept
    <3> QED
      BY <1>1, <3>2, <3>3 DEF AgreeInv, Agreement, Open
  <2> QED
    BY <2>4, <2>5
<1> QED
  BY <1>2, <1>3

LEMMA RespondAgree ==
  ASSUME TypeInv, RoundInv, AgreeInv, NEW r \in responders, NEW code \in BOOLEAN,
         Respond(r, code)
  PROVE  AgreeInv'
<1> DEFINE left == [round EXCEPT !.outstanding = round.outstanding \ {r.handle}]
<1>1. UNCHANGED <<subscriptions, identifier, pool>>
  BY DEF Respond, poolvars
<1>2. /\ round \in Rounds /\ left \in Rounds /\ left.id = round.id
      /\ left.phase = round.phase /\ left.new = round.new
      /\ left.outstanding = round.outstanding \ {r.handle}
  BY DEF TypeInv, TypeOK, CoreType, Rounds
<1>3. CASE UNCHANGED core
  BY <1>1, <1>3 DEF core, AgreeInv, Open
<1>4. CASE round.phase = "PREPARE" /\ Abort(frames, 0)
  <2>1. Agreement
    BY <1>4, QuietAgreement
  <2>2. round'.id = 0 /\ current' = current
    BY <1>4 DEF Abort, NoRound
  <2> QED
    BY <1>1, <2>1, <2>2, ClosedAgree
<1>5. CASE /\ Awaited(r) /\ left.outstanding = {} /\ frames = <<>>
           /\ \E f \in Nat : Advance(left, subscriptions, frames, f)
  <2>1. PICK f \in Nat : Advance(left, subscriptions', <<>>, f)
    BY <1>1, <1>5
  <2>2. left.id # 0 /\ left.new \in pool
    BY <1>2, <1>5 DEF Awaited, AgreeInv, Open
  <2>3. Agreement
    BY <1>5, QuietAgreement
  <2> HIDE DEF left
  <2> QED
    BY <1>1, <1>2, <1>5, <2>1, <2>2, <2>3, AdvanceAgree DEF TypeInv
<1>6. CASE round' = left /\ UNCHANGED <<frames, current>>
  BY <1>1, <1>2, <1>6 DEF AgreeInv, Open
<1> QED
  <2>1. (IF code THEN 0 ELSE 1) \in Nat
    OBVIOUS
  <2> QED
    BY <2>1, <1>2, <1>3, <1>4, <1>5, <1>6 DEF Respond

LEMMA SubscribeAgree ==
  ASSUME TypeInv, AgreeInv, Subscribe
  PROVE  AgreeInv'
<1>1. /\ subscriptions' = subscriptions \cup {next_subscription}
      /\ identifier' = [identifier EXCEPT ![next_subscription] = current]
      /\ UNCHANGED <<round, frames, current, pool>>
  BY DEF Subscribe, core, poolvars
<1>2. next_subscription \in Handles
  BY BoundsAssumption DEF Subscribe, TypeInv, TypeOK, SubscriberType, Handles
<1>3. identifier \in [Handles -> Tickets \cup {0}] /\ subscriptions \subseteq Handles
  BY DEF TypeInv, TypeOK, SubscriberType
<1>4. \A h \in subscriptions' : identifier'[h] = current \/ (h \in subscriptions /\ identifier'[h] = identifier[h])
  BY <1>1, <1>2, <1>3
<1> QED
  BY <1>1, <1>4 DEF AgreeInv, Open

LEMMA UnsubscribeAgree ==
  ASSUME TypeInv, AgreeInv, NEW h \in Handles, Unsubscribe(h)
  PROVE  AgreeInv'
<1> DEFINE left == [round EXCEPT !.outstanding = round.outstanding \ {h}]
<1>1. UNCHANGED <<identifier, pool>> /\ subscriptions' = subscriptions \ {h}
  BY DEF Unsubscribe, poolvars
<1>2. /\ round \in Rounds /\ left \in Rounds /\ left.id = round.id
      /\ left.phase = round.phase /\ left.new = round.new
      /\ left.outstanding = round.outstanding \ {h}
  BY DEF TypeInv, TypeOK, CoreType, Rounds
<1>3. CASE round.id # 0 /\ h \in round.outstanding /\ left.outstanding = {} /\ frames = <<>>
  <2>1. Advance(left, subscriptions', <<>>, 0)
    BY <1>1, <1>2, <1>3 DEF Unsubscribe
  <2>2. left.id # 0 /\ left.new \in pool /\ subscriptions' \subseteq subscriptions
    BY <1>1, <1>2, <1>3 DEF AgreeInv, Open
  <2>3. Agreement
    BY <1>3, QuietAgreement
  <2> HIDE DEF left
  <2> QED
    BY <1>1, <1>2, <1>3, <2>1, <2>2, <2>3, AdvanceAgree DEF TypeInv
<1>4. CASE ~(round.id # 0 /\ h \in round.outstanding /\ left.outstanding = {} /\ frames = <<>>)
  <2>1. round' = left /\ UNCHANGED <<frames, current>>
    BY <1>2, <1>4 DEF Unsubscribe
  <2> QED
    BY <1>1, <1>2, <2>1 DEF AgreeInv, Open
<1> QED
  BY <1>3, <1>4

LEMMA ReleaseExpiredAgree ==
  ASSUME TypeOK, AgreeInv, frames = <<>>, NEW l, ReleaseExpired(l),
         UNCHANGED <<subscriptions, identifier, current, pool>>
  PROVE  AgreeInv'
<1> DEFINE locked == {k \in DOMAIN l : l[k] > 0} # {}
<1>1. TryStart(pending_trigger, locked, round, subscriptions, frames)
  BY DEF ReleaseExpired
<1>2. locked \in BOOLEAN /\ pending_trigger \in BOOLEAN
  BY DEF TypeOK, CoreType
<1> HIDE DEF locked
<1> QED
  BY <1>1, <1>2, StartAgree

LEMMA TriggerAgree ==
  ASSUME Documented, TypeInv, AgreeInv, Trigger
  PROVE  AgreeInv'
<1> DEFINE locked == DOMAIN locks # {}
<1>1. frames = <<>>
  BY DEF Trigger, MayReenter, Documented
<1>2. /\ TryStart(TRUE, locked, round, subscriptions, frames)
      /\ UNCHANGED <<subscriptions, identifier, current, pool>>
  BY DEF Trigger, subvars, poolvars
<1>3. locked \in BOOLEAN /\ TRUE \in BOOLEAN
  OBVIOUS
<1> HIDE DEF locked
<1> QED
  BY <1>1, <1>2, <1>3, StartAgree DEF TypeInv

LEMMA LockAgree ==
  ASSUME Documented, TypeInv, AgreeInv, NEW d \in LockDurations, Lock(d)
  PROVE  AgreeInv'
<1> DEFINE l == [k \in DOMAIN locks \cup {next_lock} |->
                   IF k = next_lock THEN d ELSE locks[k]]
<1>1. frames = <<>> /\ UNCHANGED <<subscriptions, identifier, current, pool>>
  BY DEF Lock, MayReenter, Documented, subvars, poolvars
<1>2. CASE ReleaseExpired(l)
  <2> HIDE DEF l
  <2> QED
    BY <1>1, <1>2, ReleaseExpiredAgree DEF TypeInv
<1>3. CASE UNCHANGED <<frames, round, round_counter, pending_trigger>>
  BY <1>1, <1>3 DEF AgreeInv, Open
<1> QED
  BY <1>2, <1>3 DEF Lock

LEMMA UnlockAgree ==
  ASSUME Documented, TypeInv, AgreeInv, NEW k \in Locks, Unlock(k)
  PROVE  AgreeInv'
<1> DEFINE locked == DOMAIN [j \in DOMAIN locks \ {k} |-> locks[j]] # {}
<1>1. frames = <<>>
  BY DEF Unlock, MayReenter, Documented
<1>2. /\ TryStart(pending_trigger, locked, round, subscriptions, frames)
      /\ UNCHANGED <<subscriptions, identifier, current, pool>>
  BY DEF Unlock, subvars, poolvars
<1>3. locked \in BOOLEAN /\ pending_trigger \in BOOLEAN
  BY DEF TypeInv, TypeOK, CoreType
<1> HIDE DEF locked
<1> QED
  BY <1>1, <1>2, <1>3, StartAgree DEF TypeInv

LEMMA DestroyAgree ==
  ASSUME AgreeInv, Destroy
  PROVE  AgreeInv'
<1>1. Agreement
  BY QuietAgreement DEF Destroy
<1>2. round'.id = 0 /\ UNCHANGED <<identifier, current>> /\ subscriptions' = subscriptions
  BY DEF Destroy, NoRound, subvars
<1> QED
  BY <1>1, <1>2, ClosedAgree

LEMMA RoundTimeoutAgree ==
  ASSUME TypeInv, RoundInv, AgreeInv, RoundTimeout
  PROVE  AgreeInv'
<1>1. UNCHANGED <<subscriptions, identifier, pool>> /\ frames = <<>> /\ Open
  BY DEF RoundTimeout, poolvars, subvars, RoundInv
<1>2. Agreement
  BY <1>1, QuietAgreement
<1>3. CASE Abort(frames, 1)
  BY <1>1, <1>2, <1>3, ClosedAgree DEF Abort, NoRound
<1>4. CASE Finish(subscriptions, frames, Cardinality(round.outstanding), 1)
  <2>1. Finish(subscriptions', <<>>, Cardinality(round.outstanding), 1)
    BY <1>1, <1>4
  <2>2. Settled
    BY <2>1, FinishOutcome DEF TypeInv
  <2> QED
    BY <1>1, <1>2, <2>2, AgreementKept, SettledAgree DEF Settled
<1> QED
  BY <1>1, <1>3, <1>4 DEF RoundTimeout, Open

LEMMA PoolStepAgree ==
  ASSUME NoPruneInRound, TypeInv, AgreeInv,
         Prune \/ \E t \in Tickets : AddTicket(t) \/ ValidityPasses(t)
  PROVE  AgreeInv'
<1>1. UNCHANGED <<round, frames, current, subscriptions, identifier>>
  BY DEF Prune, AddTicket, ValidityPasses, core, subvars
<1>2. Open => round.new \in pool'
  BY DEF Prune, AddTicket, ValidityPasses, NoPruneInRound, Open, AgreeInv
<1> QED
  BY <1>1, <1>2 DEF AgreeInv, Open

LEMMA NextAgree ==
  Documented /\ NoPruneInRound /\ TypeInv /\ RoundInv /\ AgreeInv /\ [Next]_vars => AgreeInv'
<1> SUFFICES ASSUME Documented, NoPruneInRound, TypeInv, RoundInv, AgreeInv, [Next]_vars
             PROVE  AgreeInv'
  OBVIOUS
<1>1. CASE UNCHANGED <<round, frames, current, subscriptions, identifier, pool>>
  BY <1>1 DEF AgreeInv, Open
<1>2. UNCHANGED vars \/ (\E d \in 1 .. MaxJump : Tick(d))
      => UNCHANGED <<round, frames, current, subscriptions, identifier, pool>>
  BY DEF vars, core, poolvars, subvars, Tick
<1>3. CASE NotifyStep
  BY <1>3, NotifySkipAgree, NotifyCallAgree, NotifyReturnAgree DEF NotifyStep
<1>4. CASE \E r \in responders, code \in BOOLEAN : Respond(r, code)
  BY <1>4, RespondAgree
<1>5. CASE Subscribe \/ \E h \in Handles : Unsubscribe(h)
  BY <1>5, SubscribeAgree, UnsubscribeAgree
<1>6. CASE Trigger \/ \E d \in LockDurations : Lock(d)
  BY <1>6, TriggerAgree, LockAgree
<1>7. CASE \E k \in Locks : Unlock(k)
  BY <1>7, UnlockAgree
<1>8. CASE Destroy \/ RoundTimeout
  BY <1>8, DestroyAgree, RoundTimeoutAgree
<1>9. CASE LockTimeout
  <2>1. frames = <<>> /\ ReleaseExpired(locks)
        /\ UNCHANGED <<subscriptions, identifier, current, pool>>
    BY <1>9 DEF LockTimeout, subvars, poolvars
  <2> QED
    BY <2>1, ReleaseExpiredAgree DEF TypeInv
<1>10. CASE Prune \/ \E t \in Tickets : AddTicket(t) \/ ValidityPasses(t)
  BY <1>10, PoolStepAgree
<1> QED
  BY <1>1, <1>2, <1>3, <1>4, <1>5, <1>6, <1>7, <1>8, <1>9, <1>10 DEF Next

\* Between rounds every subscriber uses the identifier of the ticket the
\* security entity signs with, for any number of subscribers that answer,
\* refuse, stay silent, come and go.
THEOREM IdentifiersAgree ==
  ASSUME Documented, NoPruneInRound
  PROVE  Spec => []SubscribersAgree
<1>1. AgreeInv => SubscribersAgree
  BY DEF AgreeInv, SubscribersAgree
<1>2. TypeInv /\ RoundInv /\ AgreeInv /\ [Next]_vars => RoundInv' /\ AgreeInv'
  BY NextInv, NextAgree
<1> QED
  BY <1>1, <1>2, InitType, NextType, InitRound, InitAgree, PTL DEF Spec

-----------------------------------------------------------------------------
(* The effect a step may have on the round, whoever takes it.              *)

Ended(committed, aborted) ==
  /\ stats'.committed = stats.committed + committed
  /\ stats'.aborted = stats.aborted + aborted

\* The round stays as it is, but for the answers it waits for.
Kept ==
  /\ round'.id = round.id /\ round'.phase = round.phase /\ round'.new = round.new
  /\ UNCHANGED <<round_counter, current>>

\* A round begins; no lock is held.
Began ==
  /\ round_counter' = round_counter + 1
  /\ round'.id = round_counter + 1 /\ round'.phase = "PREPARE"
  /\ round'.new \in OtherValid
  /\ current' = current
  /\ DOMAIN locks' = {}

Decided ==
  /\ Open /\ round.phase = "PREPARE"
  /\ round'.id = round.id /\ round'.phase = "COMMIT" /\ round'.new = round.new
  /\ current' = Select(round.new)
  /\ UNCHANGED round_counter

Cleared == round' = NoRound /\ UNCHANGED <<round_counter, current>>

RoundStep ==
  \/ Kept /\ Ended(0, 0)
  \/ ~Open /\ Began /\ Ended(0, 0)
  \/ Decided /\ Ended(0, 0)
  \/ Open /\ round.phase = "PREPARE" /\ Cleared /\ Ended(0, 1)
  \/ Open /\ round.phase = "COMMIT" /\ (Cleared \/ Began) /\ Ended(1, 0)
  \/ alive /\ ~alive' /\ Cleared /\ UNCHANGED stats

LEMMA CountedEnds ==
  ASSUME stats \in Statistics, NEW a \in Nat, NEW b \in Nat, NEW c \in Nat, NEW d \in Nat,
         stats' = Counted(a, b, c, d)
  PROVE  Ended(a, b)
BY DEF Counted, Ended, Statistics

LEMMA StatsKept ==
  ASSUME stats \in Statistics, stats' = stats
  PROVE  Ended(0, 0)
BY DEF Ended, Statistics

LEMMA TryStartStep ==
  ASSUME NEW p \in BOOLEAN, NEW locked \in BOOLEAN, NEW r, NEW S, NEW base,
         TryStart(p, locked, r, S, base), current' = current,
         ~locked => DOMAIN locks' = {}
  PROVE  \/ round' = r /\ round_counter' = round_counter
         \/ r.id = 0 /\ Began
<1>1. CASE CanStart(p, locked, r) /\ OtherValid # {}
  <2>1. PICK next \in OtherValid :
          /\ round_counter' = round_counter + 1
          /\ round' = [id |-> round_counter + 1, phase |-> "PREPARE",
                       new |-> next, outstanding |-> S]
    BY <1>1 DEF TryStart
  <2> QED
    BY <1>1, <2>1 DEF Began, CanStart
<1>2. CASE ~(CanStart(p, locked, r) /\ OtherValid # {})
  BY <1>2 DEF TryStart
<1> QED
  BY <1>1, <1>2

\* trigger(), unlock() and the expiry of locks
LEMMA StartStep ==
  ASSUME TypeOK, NEW p \in BOOLEAN, NEW locked \in BOOLEAN, NEW S, NEW base,
         TryStart(p, locked, round, S, base), UNCHANGED <<current, stats>>,
         ~locked => DOMAIN locks' = {}
  PROVE  RoundStep
<1>1. Ended(0, 0)
  BY StatsKept DEF TypeOK, CoreType
<1>2. \/ round' = round /\ round_counter' = round_counter
      \/ round.id = 0 /\ Began
  BY TryStartStep
<1> QED
  BY <1>1, <1>2 DEF RoundStep, Kept, Open

LEMMA FinishStep ==
  ASSUME TypeOK, NEW S, NEW base, NEW f \in Nat, NEW t \in Nat, Finish(S, base, f, t),
         locks' = locks
  PROVE  (Cleared \/ Began) /\ Ended(1, 0)
<1> DEFINE locked == DOMAIN locks # {}
<1>1. /\ TryStart(pending_trigger, locked, NoRound, S, base) /\ current' = current
      /\ stats' = Counted(1, 0, t, f)
  BY DEF Finish
<1>2. locked \in BOOLEAN /\ pending_trigger \in BOOLEAN /\ stats \in Statistics
  BY DEF TypeOK, CoreType
<1>3. ~locked => DOMAIN locks' = {}
  OBVIOUS
<1>4. (round' = NoRound /\ round_counter' = round_counter) \/ Began
  <2> HIDE DEF locked
  <2> QED
    BY <1>1, <1>2, <1>3, TryStartStep
<1>5. Ended(1, 0)
  BY <1>1, <1>2, CountedEnds
<1> QED
  BY <1>1, <1>4, <1>5 DEF Cleared

\* r is the open round, without those it no longer waits for
LEMMA AdvanceStep ==
  ASSUME TypeOK, Open, NEW r \in Rounds, r.id = round.id, r.phase = round.phase, r.new = round.new,
         NEW S, NEW base, NEW f \in Nat, Advance(r, S, base, f), locks' = locks
  PROVE  RoundStep
<1>1. CASE r.phase = "PREPARE"
  <2>1. /\ current' = Select(r.new)
        /\ round' = [id |-> r.id, phase |-> "COMMIT", new |-> r.new,
                     outstanding |-> r.outstanding \cup S]
        /\ UNCHANGED <<round_counter, stats>>
    BY <1>1 DEF Advance
  <2>2. Ended(0, 0)
    BY <2>1, StatsKept DEF TypeOK, CoreType
  <2>3. Decided
    BY <1>1, <2>1 DEF Decided
  <2> QED
    BY <2>2, <2>3 DEF RoundStep
<1>2. CASE r.phase = "COMMIT"
  <2>1. Finish(S, base, f, 0)
    BY <1>2 DEF Advance
  <2>2. (Cleared \/ Began) /\ Ended(1, 0)
    BY <2>1, FinishStep
  <2> QED
    BY <1>2, <2>2 DEF RoundStep
<1> QED
  BY <1>1, <1>2 DEF Rounds, Phases

LEMMA AbortStep ==
  ASSUME TypeOK, Open, round.phase = "PREPARE", NEW base, NEW t \in Nat, Abort(base, t)
  PROVE  RoundStep
<1>1. Ended(0, 1)
  BY CountedEnds DEF Abort, TypeOK, CoreType
<1>2. Cleared
  BY DEF Abort, Cleared
<1> QED
  BY <1>1, <1>2 DEF RoundStep

LEMMA KeptStep ==
  ASSUME TypeOK, UNCHANGED <<round, round_counter, current, stats>>
  PROVE  RoundStep
<1>1. Ended(0, 0)
  BY StatsKept DEF TypeOK, CoreType
<1> QED
  BY <1>1 DEF RoundStep, Kept

LEMMA NotifyRoundStep ==
  ASSUME TypeOK, NotifyStep
  PROVE  RoundStep
<1>1. CASE NotifySkip
  <2>1. PICK h : round' = IF round.id # 0 /\ round.id = Top.round
                          THEN [round EXCEPT !.outstanding = @ \ {h}] ELSE round
    BY <1>1 DEF NotifySkip
  <2>2. round'.id = round.id /\ round'.phase = round.phase /\ round'.new = round.new
    BY <2>1 DEF TypeOK, CoreType, Rounds
  <2>3. Kept
    BY <1>1, <2>2 DEF Kept, NotifySkip
  <2>4. Ended(0, 0)
    BY <1>1, StatsKept DEF NotifySkip, TypeOK, CoreType
  <2> QED
    BY <2>3, <2>4 DEF RoundStep
<1>2. CASE NotifyCall
  BY <1>2, KeptStep DEF NotifyCall
<1>3. CASE NotifyReturn
  <2>1. locks' = locks
    BY <1>3 DEF NotifyReturn, lockvars
  <2>2. CASE Open /\ Advance(round, subscriptions, Below, 0)
    BY <2>1, <2>2, AdvanceStep DEF TypeOK, CoreType
  <2>3. CASE UNCHANGED <<round, round_counter, current, stats>>
    BY <2>3, KeptStep
  <2> QED
    BY <1>3, <2>2, <2>3 DEF NotifyReturn, ArmRoundTimer, Open
<1> QED
  BY <1>1, <1>2, <1>3 DEF NotifyStep

LEMMA RespondRoundStep ==
  ASSUME TypeOK, NEW r \in responders, NEW code \in BOOLEAN, Respond(r, code)
  PROVE  RoundStep
<1> DEFINE left == [round EXCEPT !.outstanding = round.outstanding \ {r.handle}]
           failures == IF code THEN 0 ELSE 1
<1>1. /\ left \in Rounds /\ left.id = round.id /\ left.phase = round.phase
      /\ left.new = round.new /\ round \in Rounds /\ stats \in Statistics
  BY DEF TypeOK, CoreType, Rounds
<1>2. failures \in Nat /\ locks' = locks
  BY DEF Respond, lockvars
<1>3. CASE UNCHANGED core
  BY <1>3, KeptStep DEF core
<1>4. CASE Open /\ round.phase = "PREPARE" /\ Abort(frames, 0)
  BY <1>4, AbortStep
<1>5. CASE Open /\ Advance(left, subscriptions, frames, failures)
  <2> HIDE DEF left, failures
  <2> QED
    BY <1>1, <1>2, <1>5, AdvanceStep
<1>6. CASE /\ round' = left /\ stats' = Counted(0, 0, 0, failures)
           /\ UNCHANGED <<round_counter, current>>
  <2> HIDE DEF failures
  <2>1. Ended(0, 0)
    BY <1>1, <1>2, <1>6, CountedEnds
  <2> QED
    BY <1>1, <1>6, <2>1 DEF RoundStep, Kept
<1> QED
  BY <1>3, <1>4, <1>5, <1>6 DEF Respond, Awaited, Open

LEMMA UnsubscribeRoundStep ==
  ASSUME TypeOK, NEW h \in Handles, Unsubscribe(h)
  PROVE  RoundStep
<1> DEFINE left == [round EXCEPT !.outstanding = round.outstanding \ {h}]
<1>1. /\ left \in Rounds /\ left.id = round.id /\ left.phase = round.phase
      /\ left.new = round.new /\ stats \in Statistics
  BY DEF TypeOK, CoreType, Rounds
<1>2. locks' = locks
  BY DEF Unsubscribe, lockvars
<1>3. CASE Open /\ Advance(left, subscriptions \ {h}, frames, 0)
  <2> HIDE DEF left
  <2> QED
    BY <1>1, <1>2, <1>3, AdvanceStep
<1>4. CASE round' = left /\ UNCHANGED <<round_counter, current, stats>>
  <2>1. Ended(0, 0)
    BY <1>1, <1>4, StatsKept
  <2> QED
    BY <1>1, <1>4, <2>1 DEF RoundStep, Kept
<1> QED
  BY <1>3, <1>4 DEF Unsubscribe, Open

LEMMA ReleaseExpiredStep ==
  ASSUME TypeOK, NEW l, ReleaseExpired(l), UNCHANGED <<current, stats>>
  PROVE  RoundStep
<1> DEFINE kept == {k \in DOMAIN l : l[k] > 0}
           locked == kept # {}
<1>1. TryStart(pending_trigger, locked, round, subscriptions, frames)
  BY DEF ReleaseExpired
<1>2. locked \in BOOLEAN /\ pending_trigger \in BOOLEAN
  BY DEF TypeOK, CoreType
<1>3. ~locked => DOMAIN locks' = {}
  BY DEF ReleaseExpired
<1> HIDE DEF locked
<1> QED
  BY <1>1, <1>2, <1>3, StartStep

LEMMA LockRoundStep ==
  ASSUME TypeOK, Trigger \/ (\E d \in LockDurations : Lock(d)) \/ (\E k \in Locks : Unlock(k))
  PROVE  RoundStep
<1>1. CASE Trigger
  <2> DEFINE locked == DOMAIN locks # {}
  <2>1. TryStart(TRUE, locked, round, subscriptions, frames) /\ UNCHANGED <<current, stats>>
    BY <1>1 DEF Trigger
  <2>2. (~locked => DOMAIN locks' = {}) /\ locked \in BOOLEAN /\ TRUE \in BOOLEAN
    BY <1>1 DEF Trigger, lockvars
  <2> HIDE DEF locked
  <2> QED
    BY <2>1, <2>2, StartStep
<1>2. CASE \E d \in LockDurations : Lock(d)
  <2>1. PICK d \in LockDurations : Lock(d)
    BY <1>2
  <2> DEFINE l == [k \in DOMAIN locks \cup {next_lock} |->
                     IF k = next_lock THEN d ELSE locks[k]]
  <2>2. /\ ReleaseExpired(l) \/ UNCHANGED <<round, round_counter>>
        /\ UNCHANGED <<current, stats>>
    BY <2>1 DEF Lock
  <2> HIDE DEF l
  <2> QED
    BY <2>2, ReleaseExpiredStep, KeptStep
<1>3. CASE \E k \in Locks : Unlock(k)
  <2>1. PICK k \in Locks : Unlock(k)
    BY <1>3
  <2> DEFINE locked == DOMAIN [j \in DOMAIN locks \ {k} |-> locks[j]] # {}
  <2>2. TryStart(pending_trigger, locked, round, subscriptions, frames)
        /\ UNCHANGED <<current, stats>>
    BY <2>1 DEF Unlock
  <2>3. (~locked => DOMAIN locks' = {}) /\ locked \in BOOLEAN /\ pending_trigger \in BOOLEAN
    BY <2>1 DEF Unlock, TypeOK, CoreType
  <2> HIDE DEF locked
  <2> QED
    BY <2>2, <2>3, StartStep
<1> QED
  BY <1>1, <1>2, <1>3

LEMMA RoundTimeoutStep ==
  ASSUME TypeOK, RoundTimeout
  PROVE  RoundStep
<1>1. CASE UNCHANGED <<round, round_counter, current, stats>>
  BY <1>1, KeptStep
<1>2. CASE Open /\ round.phase = "PREPARE" /\ Abort(frames, 1)
  BY <1>2, AbortStep
<1>3. CASE /\ Open /\ round.phase = "COMMIT"
           /\ Finish(subscriptions, frames, Cardinality(round.outstanding), 1)
  <2>1. locks' = locks
    BY DEF RoundTimeout, lockvars
  <2>2. Cardinality(round.outstanding) \in Nat
    <3>1. IsFiniteSet(Handles)
      BY BoundsAssumption, FS_Interval DEF Handles
    <3>2. round.outstanding \subseteq Handles
      BY DEF TypeOK, CoreType, Rounds
    <3>3. IsFiniteSet(round.outstanding)
      BY <3>1, <3>2, FS_Subset
    <3> QED
      BY <3>3, FS_CardinalityType
  <2>3. (Cleared \/ Began) /\ Ended(1, 0)
    BY <1>3, <2>1, <2>2, FinishStep
  <2> QED
    BY <1>3, <2>3 DEF RoundStep
<1> QED
  BY <1>1, <1>2, <1>3 DEF RoundTimeout, Open

\* A step leaves the round, opens one, decides it or ends it, and counts what
\* it ends; a step of the destructor may drop it.
LEMMA NextRoundStep == TypeOK /\ [Next]_vars => RoundStep
<1> SUFFICES ASSUME TypeOK, [Next]_vars PROVE RoundStep
  OBVIOUS
<1>1. CASE UNCHANGED vars \/ Subscribe \/ (\E d \in 1 .. MaxJump : Tick(d))
           \/ Prune \/ (\E t \in Tickets : AddTicket(t) \/ ValidityPasses(t))
  <2>1. UNCHANGED <<round, round_counter, current, stats>>
    BY <1>1 DEF vars, core, Subscribe, Tick, Prune, AddTicket, ValidityPasses
  <2> QED
    BY <2>1, KeptStep
<1>2. CASE NotifyStep
  BY <1>2, NotifyRoundStep
<1>3. CASE \E r \in responders, code \in BOOLEAN : Respond(r, code)
  BY <1>3, RespondRoundStep
<1>4. CASE \E h \in Handles : Unsubscribe(h)
  BY <1>4, UnsubscribeRoundStep
<1>5. CASE Trigger \/ (\E d \in LockDurations : Lock(d)) \/ (\E k \in Locks : Unlock(k))
  BY <1>5, LockRoundStep
<1>6. CASE Destroy
  BY <1>6 DEF Destroy, RoundStep, Cleared
<1>7. CASE RoundTimeout
  BY <1>7, RoundTimeoutStep
<1>8. CASE LockTimeout
  BY <1>8, ReleaseExpiredStep DEF LockTimeout
<1> QED
  BY <1>1, <1>2, <1>3, <1>4, <1>5, <1>6, <1>7, <1>8 DEF Next

-----------------------------------------------------------------------------
(* Every round is counted once.                                            *)

LEMMA InitAccounted == Init => RoundsAccountedFor
BY DEF Init, RoundsAccountedFor, Open, NoRound

LEMMA NextAccounted ==
  TypeOK /\ RoundsAccountedFor /\ (alive' => alive) /\ RoundStep => RoundsAccountedFor'
<1> SUFFICES ASSUME TypeOK, RoundsAccountedFor, alive, alive', RoundStep
             PROVE  RoundsAccountedFor'
  BY DEF RoundsAccountedFor
<1>1. /\ stats.committed \in Nat /\ stats.aborted \in Nat /\ round_counter \in Nat
      /\ round_counter = stats.committed + stats.aborted + (IF Open THEN 1 ELSE 0)
  BY BoundsAssumption DEF TypeOK, CoreType, Statistics, RoundsAccountedFor
<1>2. NoRound.id = 0
  BY DEF NoRound
<1>3. CASE Kept /\ Ended(0, 0)
  BY <1>1, <1>3 DEF Kept, Ended, RoundsAccountedFor, Open
<1>4. CASE ~Open /\ Began /\ Ended(0, 0)
  BY <1>1, <1>4 DEF Began, Ended, RoundsAccountedFor, Open
<1>5. CASE Decided /\ Ended(0, 0)
  BY <1>1, <1>5 DEF Decided, Ended, RoundsAccountedFor, Open
<1>6. CASE Open /\ Cleared /\ Ended(0, 1)
  BY <1>1, <1>2, <1>6 DEF Cleared, Ended, RoundsAccountedFor, Open
<1>7. CASE Open /\ (Cleared \/ Began) /\ Ended(1, 0)
  BY <1>1, <1>2, <1>7 DEF Cleared, Began, Ended, RoundsAccountedFor, Open
<1> QED
  BY <1>3, <1>4, <1>5, <1>6, <1>7 DEF RoundStep

\* Nothing brings a destroyed manager back.
LEMMA StaysDestroyed == TypeOK /\ [Next]_vars => (alive' => alive)
BY DEF Next, vars, NotifyStep, NotifySkip, NotifyCall, NotifyReturn, Respond, Subscribe,
       Unsubscribe, Trigger, Lock, Unlock, Destroy, Tick, RoundTimeout, LockTimeout,
       AddTicket, ValidityPasses, Prune

\* Every round that was begun is counted exactly once, as committed or as
\* aborted, by whichever of advance(), finish(), abort() and the timeout ends
\* it, and also when hooks start rounds inside notify().
THEOREM RoundsAreCounted == Spec => []RoundsAccountedFor
<1>1. TypeInv => TypeOK
  BY DEF TypeInv
<1>2. TypeOK /\ RoundsAccountedFor /\ [Next]_vars => RoundsAccountedFor'
  BY NextRoundStep, StaysDestroyed, NextAccounted
<1> QED
  BY <1>1, <1>2, InitType, NextType, InitAccounted, PTL DEF Spec

-----------------------------------------------------------------------------
(* Locks.                                                                  *)

\* All locks held in an open round were taken in it.
LockRounds ==
  Open => /\ round.id = round_counter
          /\ \A k \in DOMAIN locks : lock_round[k] = round.id

\* A lock is new in this step, or kept with its round.
LocksGrow ==
  \A k \in DOMAIN locks' :
    \/ k \in DOMAIN locks /\ lock_round'[k] = lock_round[k]
    \/ lock_round'[k] = round_counter

LEMMA NextLocksGrow ==
  TypeOK /\ [Next]_vars => LocksGrow
<1> SUFFICES ASSUME TypeOK, [Next]_vars PROVE LocksGrow
  OBVIOUS
<1>1. /\ DOMAIN locks \subseteq Locks /\ next_lock \in Nat
      /\ lock_round \in [Locks -> 0 .. MaxRounds]
  BY BoundsAssumption DEF TypeOK, LockType
<1>2. CASE \E d \in LockDurations : Lock(d)
  <2>1. PICK d \in LockDurations : Lock(d)
    BY <1>2
  <2>2. /\ next_lock \in Locks
        /\ lock_round' = [lock_round EXCEPT ![next_lock] = round_counter]
    BY <2>1, <1>1, BoundsAssumption DEF Lock, Locks, TypeOK, LockType
  <2>3. DOMAIN locks' \subseteq DOMAIN locks \cup {next_lock}
    BY <2>1 DEF Lock, ReleaseExpired
  <2> QED
    BY <1>1, <2>2, <2>3 DEF LocksGrow
<1>3. CASE \E k \in Locks : Unlock(k)
  <2>1. lock_round' = lock_round /\ DOMAIN locks' \subseteq DOMAIN locks
    BY <1>3 DEF Unlock
  <2> QED
    BY <2>1 DEF LocksGrow
<1>4. CASE LockTimeout
  <2>1. lock_round' = lock_round /\ DOMAIN locks' \subseteq DOMAIN locks
    BY <1>4 DEF LockTimeout, ReleaseExpired
  <2> QED
    BY <2>1 DEF LocksGrow
<1>5. CASE UNCHANGED lock_round /\ DOMAIN locks' = DOMAIN locks
  BY <1>5 DEF LocksGrow
<1>6. CASE \E d \in 1 .. MaxJump : Tick(d)
  <2>1. lock_round' = lock_round /\ DOMAIN locks' = DOMAIN locks
    BY <1>6 DEF Tick
  <2> QED
    BY <2>1, <1>5
<1>7. ASSUME UNCHANGED vars \/ NotifyStep \/ (\E r \in responders, code \in BOOLEAN : Respond(r, code))
             \/ Subscribe \/ (\E h \in Handles : Unsubscribe(h)) \/ Trigger \/ Destroy
             \/ RoundTimeout \/ Prune \/ (\E t \in Tickets : AddTicket(t) \/ ValidityPasses(t))
      PROVE  UNCHANGED lock_round /\ DOMAIN locks' = DOMAIN locks
  BY <1>7 DEF vars, NotifyStep, NotifySkip, NotifyCall, NotifyReturn, Respond, Subscribe,
       Unsubscribe, Trigger, Destroy, RoundTimeout, AddTicket, ValidityPasses, Prune, lockvars
<1> QED
  BY <1>2, <1>3, <1>4, <1>5, <1>6, <1>7 DEF Next

LEMMA InitLockRounds == Init => LockRounds
BY DEF Init, LockRounds, Open, NoRound

LEMMA NextLockRounds == LockRounds /\ RoundStep /\ LocksGrow => LockRounds'
<1> SUFFICES ASSUME LockRounds, RoundStep, LocksGrow, Open'
             PROVE  /\ round'.id = round_counter'
                    /\ \A k \in DOMAIN locks' : lock_round'[k] = round'.id
  BY DEF LockRounds
<1>1. CASE Began
  BY <1>1 DEF Began
<1>2. CASE Kept \/ Decided
  <2>1. Open /\ round'.id = round.id /\ round_counter' = round_counter
    BY <1>2 DEF Kept, Decided, Open
  <2> QED
    BY <2>1 DEF LockRounds, LocksGrow
<1> QED
  BY <1>1, <1>2 DEF RoundStep, Cleared, Open, NoRound

\* A lock keeps the identifier for as long as it is held, unless it was taken
\* while the round was already open: a round starts under no lock, and a lock
\* taken later bears its number.
THEOREM LocksKeepIdentifier == Spec => LockKeepsIdentifier
<1>1. TypeInv => TypeOK
  BY DEF TypeInv
<1>2. TypeOK /\ LockRounds /\ [Next]_vars => LockRounds'
  BY NextRoundStep, NextLocksGrow, NextLockRounds
<1>3. TypeOK /\ LockRounds /\ [Next]_vars
      => [current' # current => \A k \in DOMAIN locks : lock_round[k] = round.id]_vars
  <2> SUFFICES ASSUME TypeOK, LockRounds, [Next]_vars, current' # current
               PROVE  \A k \in DOMAIN locks : lock_round[k] = round.id
    OBVIOUS
  <2>1. Decided
    BY NextRoundStep DEF RoundStep, Kept, Began, Cleared
  <2> QED
    BY <2>1 DEF Decided, LockRounds
<1> QED
  BY <1>1, <1>2, <1>3, InitType, NextType, InitLockRounds, PTL DEF Spec, LockKeepsIdentifier

LEMMA ArmCovers ==
  ASSUME NEW l, ArmLockTimer(l), locks' = l
  PROVE  LockTimerCoversLocks'
BY DEF ArmLockTimer, LockTimerCoversLocks

LEMMA ReleaseCovers ==
  ASSUME NEW l, ReleaseExpired(l)
  PROVE  LockTimerCoversLocks'
<1> DEFINE left == [k \in {i \in DOMAIN l : l[i] > 0} |-> l[k]]
<1>1. ArmLockTimer(left) /\ locks' = left
  BY DEF ReleaseExpired
<1> HIDE DEF left
<1> QED
  BY <1>1, ArmCovers

LEMMA TickCovers ==
  ASSUME TypeOK, LockTimerCoversLocks, NEW d \in 1 .. MaxJump, Tick(d)
  PROVE  LockTimerCoversLocks'
<1>1. /\ d \in Int
      /\ lock_timer' = IF lock_timer = Off THEN Off ELSE lock_timer - d
      /\ locks' = [k \in DOMAIN locks |-> locks[k] - d]
      /\ alive' = alive
  BY BoundsAssumption DEF Tick, Elapse
<1>2. CASE alive /\ DOMAIN locks # {}
  <2>1. PICK k \in DOMAIN locks : lock_timer = locks[k] /\ \A j \in DOMAIN locks : lock_timer <= locks[j]
    BY <1>2 DEF LockTimerCoversLocks
  <2>2. \A j \in DOMAIN locks : locks[j] \in Int
    BY DEF TypeOK, LockType
  <2>3. lock_timer' = lock_timer - d /\ lock_timer \in Int
    BY <1>1, <2>1, <2>2, OffAssumption
  <2>4. DOMAIN locks' = DOMAIN locks /\ \A j \in DOMAIN locks : locks'[j] = locks[j] - d
    BY <1>1
  <2>5. lock_timer' = locks'[k] /\ \A j \in DOMAIN locks' : lock_timer' <= locks'[j]
    BY <1>1, <2>1, <2>2, <2>3, <2>4
  <2> QED
    BY <2>4, <2>5 DEF LockTimerCoversLocks
<1>3. CASE ~(alive /\ DOMAIN locks # {})
  BY <1>1, <1>3 DEF LockTimerCoversLocks
<1> QED
  BY <1>2, <1>3

LEMMA NextCovers == TypeOK /\ LockTimerCoversLocks /\ [Next]_vars => LockTimerCoversLocks'
<1> SUFFICES ASSUME TypeOK, LockTimerCoversLocks, [Next]_vars PROVE LockTimerCoversLocks'
  OBVIOUS
<1>1. CASE \E d \in LockDurations : Lock(d)
  <2>1. PICK d \in LockDurations : Lock(d)
    BY <1>1
  <2> DEFINE l == [k \in DOMAIN locks \cup {next_lock} |->
                     IF k = next_lock THEN d ELSE locks[k]]
  <2>2. ReleaseExpired(l) \/ (ArmLockTimer(l) /\ locks' = l)
    BY <2>1 DEF Lock
  <2> HIDE DEF l
  <2> QED
    BY <2>2, ArmCovers, ReleaseCovers
<1>2. CASE \E k \in Locks : Unlock(k)
  <2>1. PICK k \in Locks : Unlock(k)
    BY <1>2
  <2> DEFINE l == [j \in DOMAIN locks \ {k} |-> locks[j]]
  <2>2. ArmLockTimer(l) /\ locks' = l
    BY <2>1 DEF Unlock
  <2> HIDE DEF l
  <2> QED
    BY <2>2, ArmCovers
<1>3. CASE LockTimeout
  BY <1>3, ReleaseCovers DEF LockTimeout
<1>4. CASE \E d \in 1 .. MaxJump : Tick(d)
  BY <1>4, TickCovers
<1>5. CASE Destroy
  BY <1>5 DEF Destroy, LockTimerCoversLocks
<1>6. CASE UNCHANGED <<locks, lock_timer, alive>>
  BY <1>6 DEF LockTimerCoversLocks
<1>7. ASSUME UNCHANGED vars \/ NotifyStep \/ (\E r \in responders, code \in BOOLEAN : Respond(r, code))
             \/ Subscribe \/ (\E h \in Handles : Unsubscribe(h)) \/ Trigger
             \/ RoundTimeout \/ Prune \/ (\E t \in Tickets : AddTicket(t) \/ ValidityPasses(t))
      PROVE  UNCHANGED <<locks, lock_timer, alive>>
  BY <1>7 DEF vars, NotifyStep, NotifySkip, NotifyCall, NotifyReturn, Respond, Subscribe,
       Unsubscribe, Trigger, RoundTimeout, AddTicket, ValidityPasses, Prune, lockvars
<1> QED
  BY <1>1, <1>2, <1>3, <1>4, <1>5, <1>6, <1>7 DEF Next

\* The lock timer is always set to the lock that expires first, however locks
\* are taken, released and expire, hooks that lock and unlock included.
THEOREM LockTimerCovers == Spec => []LockTimerCoversLocks
<1>1. TypeInv => TypeOK
  BY DEF TypeInv
<1>2. Init => LockTimerCoversLocks
  BY DEF Init, LockTimerCoversLocks
<1> QED
  BY <1>1, <1>2, InitType, NextType, NextCovers, PTL DEF Spec

-----------------------------------------------------------------------------
(* Handles and rounds in use have been given out.                          *)

Known ==
  /\ \A h \in subscriptions \cup change_pending : h < next_subscription
  /\ \A r \in responders : r.round <= round_counter /\ r.handle < next_subscription
  /\ \A a \in answered : a.round <= round_counter /\ a.handle < next_subscription

LEMMA InitKnown == Init => Known
BY DEF Init, Known

\* A step that gives out no handle and no responder.
LEMMA KnownKept ==
  ASSUME TypeOK, Known, RoundStep, next_subscription' = next_subscription,
         subscriptions' \subseteq subscriptions, change_pending' \subseteq change_pending,
         responders' \subseteq responders,
         \A a \in answered' : \/ a \in answered
                              \/ \E r \in responders : a.round = r.round /\ a.handle = r.handle
  PROVE  Known'
<1>1. round_counter' \in Int /\ round_counter' >= round_counter /\ round_counter \in Int
  BY BoundsAssumption DEF RoundStep, Kept, Began, Decided, Cleared, TypeOK, CoreType
<1>2. \A r \in responders : r.round \in Int
  BY BoundsAssumption DEF TypeOK, SubscriberType, Responders
<1>3. \A a \in answered : a.round \in Int
  BY BoundsAssumption DEF TypeOK, SubscriberType, Answers
<1>4. \A r \in responders : r.round <= round_counter'
  BY <1>1, <1>2 DEF Known
<1>5. \A a \in answered : a.round <= round_counter'
  BY <1>1, <1>3 DEF Known
<1> QED
  BY <1>4, <1>5 DEF Known

LEMMA NotifyCallKnown ==
  ASSUME TypeOK, Known, LockRounds, NotifyCall
  PROVE  Known'
<1>1. PICK h \in Top.todo \cap subscriptions :
        /\ OnIdChange(h, Top.command, Top.id)
        /\ responders' = IF Expects(Top)
                         THEN responders \cup
                              {[round |-> Top.round, handle |-> h, phase |-> Top.command]}
                         ELSE responders
  BY DEF NotifyCall
<1>2. UNCHANGED <<subscriptions, next_subscription, answered, round_counter>>
  BY DEF NotifyCall
<1>3. \A k \in change_pending' : k \in change_pending \/ k = h
  BY <1>1 DEF OnIdChange
<1>4. Expects(Top) => Top.round <= round_counter
  <2>1. Expects(Top) => Top.round = round.id
    BY DEF NotifyCall, Stale
  <2>2. round.id <= round_counter
    BY BoundsAssumption DEF LockRounds, Open, TypeOK, CoreType, Rounds
  <2> QED
    BY <2>1, <2>2
<1> QED
  BY <1>1, <1>2, <1>3, <1>4 DEF Known

LEMMA SubscribeKnown ==
  ASSUME TypeOK, Known, Subscribe
  PROVE  Known'
<1>1. /\ subscriptions' = subscriptions \cup {next_subscription}
      /\ next_subscription' = next_subscription + 1
      /\ UNCHANGED <<change_pending, responders, answered, round_counter>>
  BY DEF Subscribe, core
<1>2. /\ next_subscription \in Int /\ subscriptions \cup change_pending \subseteq Int
      /\ \A r \in responders : r.handle \in Int
      /\ \A a \in answered : a.handle \in Int
  BY BoundsAssumption DEF TypeOK, SubscriberType, Handles, Responders, Answers
<1> QED
  BY <1>1, <1>2 DEF Known

LEMMA NextKnown == TypeOK /\ Known /\ LockRounds /\ [Next]_vars => Known'
<1> SUFFICES ASSUME TypeOK, Known, LockRounds, [Next]_vars PROVE Known'
  OBVIOUS
<1>1. RoundStep
  BY NextRoundStep
<1>2. CASE NotifyCall
  BY <1>2, NotifyCallKnown
<1>3. CASE Subscribe
  BY <1>3, SubscribeKnown
<1>4. CASE \E r \in responders, code \in BOOLEAN : Respond(r, code)
  <2>1. PICK r \in responders, code \in BOOLEAN : Respond(r, code)
    BY <1>4
  <2>2. /\ UNCHANGED <<subscriptions, next_subscription, change_pending>>
        /\ responders' \subseteq responders
        /\ answered' \subseteq answered \cup {Answer(r, code)}
    BY <2>1 DEF Respond
  <2>3. \A a \in answered' : \/ a \in answered
                             \/ \E q \in responders : a.round = q.round /\ a.handle = q.handle
    BY <2>2 DEF Answer
  <2> QED
    BY <1>1, <2>2, <2>3, KnownKept
<1>5. CASE /\ next_subscription' = next_subscription
           /\ subscriptions' \subseteq subscriptions /\ change_pending' \subseteq change_pending
           /\ UNCHANGED <<responders, answered>>
  BY <1>1, <1>5, KnownKept
<1>6. ASSUME UNCHANGED vars \/ NotifySkip \/ NotifyReturn \/ (\E h \in Handles : Unsubscribe(h))
             \/ Trigger \/ (\E d \in LockDurations : Lock(d)) \/ (\E k \in Locks : Unlock(k))
             \/ Destroy \/ (\E d \in 1 .. MaxJump : Tick(d)) \/ RoundTimeout \/ LockTimeout
             \/ Prune \/ (\E t \in Tickets : AddTicket(t) \/ ValidityPasses(t))
      PROVE  /\ next_subscription' = next_subscription
             /\ subscriptions' \subseteq subscriptions /\ change_pending' \subseteq change_pending
             /\ UNCHANGED <<responders, answered>>
  BY <1>6 DEF vars, NotifySkip, NotifyReturn, Unsubscribe, Trigger, Lock, Unlock, Destroy, Tick,
       RoundTimeout, LockTimeout, AddTicket, ValidityPasses, Prune, subvars
<1> QED
  BY <1>2, <1>3, <1>4, <1>5, <1>6 DEF Next, NotifyStep

-----------------------------------------------------------------------------
(* The flags of the subscribers.                                           *)

\* A flag that is set belongs to an open PREPARE, or a notify() call is about
\* to clear it; whom PREPARE waits for is flagged or about to be.
FlagInv ==
  /\ \A h \in change_pending \cap subscriptions :
       \/ Open /\ round.phase = "PREPARE"
       \/ Open /\ round.phase = "COMMIT" /\ frames # <<>> /\ h \in frames[1].todo
       \/ ~Open /\ frames # <<>> /\ ~Expects(Top) /\ h \in Top.todo
  /\ Open /\ round.phase = "PREPARE" =>
       \A h \in round.outstanding :
         h \in change_pending \/ (frames # <<>> /\ h \in frames[1].todo)

NoFlags == change_pending \cap subscriptions = {}

\* One turn of the loop of notify().
LEMMA DeliveredTop ==
  ASSUME TypeInv, RoundInv, frames # <<>>, NEW h, NEW hook,
         frames' = Append(Below, Delivered(Top, h, hook))
  PROVE  /\ frames' # <<>>
         /\ Top'.command = Top.command /\ Top'.todo = Top.todo \ {h}
         /\ Open => /\ Top = frames[1] /\ Len(frames) = 1
                    /\ frames'[1].todo = frames[1].todo \ {h}
                    /\ frames'[1].command = frames[1].command
<1> DEFINE f == Delivered(Top, h, hook)
<1>1. f.command = Top.command /\ f.todo = Top.todo \ {h}
  BY DEF Delivered
<1> HIDE DEF f
<1>2. frames' = Append(Below, f)
  BY DEF f
<1>3. /\ frames' # <<>> /\ Len(frames') = Len(frames) /\ frames'[Len(frames)] = f
  BY <1>2, ReplaceTop DEF TypeInv
<1>4. Top' = f
  BY <1>3 DEF Top
<1>5. Open => Len(frames) = 1 /\ Top = frames[1]
  BY OpenTop
<1> QED
  BY <1>1, <1>3, <1>4, <1>5

LEMMA AnnouncedFlags ==
  ASSUME NEW phase \in Phases, Announced(phase)
  PROVE  FlagInv'
<1> DEFINE f == Frame(phase, round'.new, round'.id, round'.outstanding)
<1>1. /\ frames' = <<f>> /\ f.todo = round'.outstanding /\ round'.outstanding = subscriptions'
      /\ round'.id # 0 /\ round'.phase = phase
  BY DEF Announced, Frame
<1> HIDE DEF f
<1>2. frames' # <<>> /\ frames'[1] = f
  BY <1>1
<1> QED
  BY <1>1, <1>2 DEF FlagInv, Open, Phases

LEMMA NoFlagsInv ==
  ASSUME NoFlags', ~Open' \/ round'.phase = "COMMIT"
  PROVE  FlagInv'
BY DEF NoFlags, FlagInv

LEMMA SettledFlags ==
  ASSUME Settled, NoFlags'
  PROVE  FlagInv'
<1>1. CASE round'.id = 0
  BY <1>1, NoFlagsInv DEF Open
<1>2. CASE Announced("PREPARE")
  BY <1>2, AnnouncedFlags DEF Phases
<1> QED
  BY <1>1, <1>2 DEF Settled

\* advance() from no notify() call: in COMMIT no flag is left.
LEMMA AdvanceFlags ==
  ASSUME TypeOK, NEW r \in Rounds, NEW f, Advance(r, subscriptions', <<>>, f),
         r.id # 0, r.outstanding = {}, r.phase = "COMMIT" => NoFlags'
  PROVE  FlagInv'
<1>1. CASE r.phase = "COMMIT"
  <2>1. Settled
    BY <1>1, FinishOutcome DEF Advance
  <2> QED
    BY <1>1, <2>1, SettledFlags
<1>2. CASE r.phase = "PREPARE"
  <2>1. Announced("COMMIT")
    BY <1>2 DEF Advance, Announced
  <2> QED
    BY <2>1, AnnouncedFlags DEF Phases
<1> QED
  BY <1>1, <1>2 DEF Rounds, Phases

LEMMA AbortFlags ==
  ASSUME TypeOK, NEW t, Abort(frames, t), subscriptions' = subscriptions
  PROVE  FlagInv'
<1> DEFINE f == Frame("ABORT", round.new, 0, subscriptions)
<1>1. /\ frames' = Append(frames, f) /\ f.todo = subscriptions /\ ~Expects(f)
      /\ round'.id = 0
  BY DEF Abort, Frame, Expects, Phases, NoRound
<1> HIDE DEF f
<1>2. frames' # <<>> /\ frames'[Len(frames')] = f
  BY <1>1 DEF TypeOK, CoreType
<1> QED
  BY <1>1, <1>2 DEF FlagInv, Open, Top

LEMMA StartFlags ==
  ASSUME TypeOK, FlagInv, frames = <<>>, NEW p \in BOOLEAN, NEW locked \in BOOLEAN,
         TryStart(p, locked, round, subscriptions, frames),
         UNCHANGED <<subscriptions, change_pending>>
  PROVE  FlagInv'
<1>1. TryStart(p, locked, round, subscriptions', <<>>) /\ round \in Rounds
  BY DEF TypeOK, CoreType
<1>2. CASE round' = round /\ frames' = <<>>
  BY <1>2 DEF FlagInv, Open
<1>3. CASE Announced("PREPARE")
  BY <1>3, AnnouncedFlags DEF Phases
<1> QED
  BY <1>1, <1>2, <1>3, TryStartOutcome

LEMMA NotifySkipFlags ==
  ASSUME TypeInv, RoundInv, FlagInv, NotifySkip
  PROVE  FlagInv'
<1>1. PICK h \in Top.todo \ subscriptions :
        /\ round' = IF round.id # 0 /\ round.id = Top.round
                    THEN [round EXCEPT !.outstanding = @ \ {h}] ELSE round
        /\ frames' = Append(Below, Delivered(Top, h, 0))
  BY DEF NotifySkip
<1>2. frames # <<>> /\ UNCHANGED <<subscriptions, change_pending>>
  BY DEF NotifySkip, subvars
<1>3. /\ frames' # <<>>
      /\ Top'.command = Top.command /\ Top'.todo = Top.todo \ {h}
      /\ Open => frames'[1].todo = frames[1].todo \ {h}
  BY <1>1, <1>2, DeliveredTop
<1>4. /\ round'.id = round.id /\ round'.phase = round.phase
      /\ round'.outstanding = IF Open /\ round.id = Top.round
                              THEN round.outstanding \ {h} ELSE round.outstanding
  BY <1>1 DEF TypeInv, TypeOK, CoreType, Rounds, Open
<1>5. Open => round.id = Top.round
  BY <1>2, OpenTop DEF Stale
<1> QED
  BY <1>1, <1>2, <1>3, <1>4, <1>5 DEF FlagInv, Open, Expects

LEMMA NotifyCallFlags ==
  ASSUME TypeInv, RoundInv, FlagInv, NotifyCall
  PROVE  FlagInv'
<1>1. PICK h \in Top.todo \cap subscriptions :
        /\ frames' = Append(Below, Delivered(Top, h, h))
        /\ OnIdChange(h, Top.command, Top.id)
  BY DEF NotifyCall
<1>2. frames # <<>> /\ UNCHANGED <<subscriptions, round>> /\ ~Stale(Top)
  BY DEF NotifyCall
<1>3. /\ frames' # <<>>
      /\ Top'.command = Top.command /\ Top'.todo = Top.todo \ {h}
      /\ Open => Top = frames[1] /\ frames'[1].todo = frames[1].todo \ {h}
  BY <1>1, <1>2, DeliveredTop
<1>4. /\ Open => Top.command = round.phase
      /\ Expects(Top) => Open
      /\ round.phase \in Phases
  BY <1>2, OpenTop DEF TypeInv, TypeOK, CoreType, Rounds
<1>5. CASE Open /\ round.phase = "PREPARE"
  <2>1. change_pending' = change_pending \cup {h}
    BY <1>1, <1>4, <1>5 DEF OnIdChange
  <2> QED
    BY <1>2, <1>3, <1>5, <2>1 DEF FlagInv, Open
<1>6. CASE ~(Open /\ round.phase = "PREPARE")
  <2>1. Top.command # "PREPARE"
    BY <1>4, <1>6 DEF Expects, Phases
  <2>2. change_pending' = change_pending \ {h}
    BY <1>1, <2>1 DEF OnIdChange
  <2> QED
    BY <1>2, <1>3, <1>6, <2>2 DEF FlagInv, Open, Expects
<1> QED
  BY <1>5, <1>6

LEMMA NotifyReturnFlags ==
  ASSUME TypeInv, RoundInv, FlagInv, NotifyReturn
  PROVE  FlagInv'
<1>1. /\ frames # <<>> /\ (Top.todo = {} \/ Stale(Top))
      /\ change_pending' = change_pending /\ subscriptions' \subseteq subscriptions
  BY DEF NotifyReturn
<1>2. CASE ~Open
  <2>1. UNCHANGED round
    BY <1>2 DEF NotifyReturn, Open
  <2>2. NoFlags
    BY <1>1, <1>2 DEF FlagInv, NoFlags, Stale
  <2> QED
    BY <1>1, <1>2, <2>1, <2>2, NoFlagsInv DEF NoFlags, Open
<1>3. CASE Open
  <2>1. /\ Len(frames) = 1 /\ Top = frames[1] /\ Below = <<>>
        /\ Expects(Top) /\ ~Stale(Top) /\ round.id = Top.round /\ Top.todo = {}
    BY <1>1, <1>3, OpenTop DEF Stale
  <2>2. subscriptions' = subscriptions /\ round \in Rounds
    BY <2>1 DEF NotifyReturn, Expects, Phases, TypeInv, TypeOK, CoreType
  <2>3. round.phase = "COMMIT" => NoFlags'
    BY <1>1, <1>3, <2>1, <2>2 DEF FlagInv, NoFlags
  <2>4. CASE round.outstanding = {}
    <3>1. Advance(round, subscriptions', <<>>, 0)
      BY <1>3, <2>1, <2>2, <2>4 DEF NotifyReturn, Open
    <3> QED
      BY <1>3, <2>2, <2>3, <2>4, <3>1, AdvanceFlags DEF TypeInv, Open
  <2>5. CASE round.outstanding # {}
    <3>1. UNCHANGED round /\ frames' = <<>>
      BY <1>3, <2>1, <2>5 DEF NotifyReturn, Open, ArmRoundTimer
    <3>2. CASE round.phase = "COMMIT"
      BY <2>3, <3>1, <3>2, NoFlagsInv
    <3>3. CASE round.phase = "PREPARE"
      BY <1>1, <1>3, <2>1, <2>2, <3>1, <3>3 DEF FlagInv, Open
    <3> QED
      BY <2>2, <3>2, <3>3 DEF Rounds, Phases
  <2> QED
    BY <2>4, <2>5
<1> QED
  BY <1>2, <1>3

LEMMA RespondFlags ==
  ASSUME TypeInv, RoundInv, FlagInv, NEW r \in responders, NEW code \in BOOLEAN, Respond(r, code)
  PROVE  FlagInv'
<1> DEFINE left == [round EXCEPT !.outstanding = round.outstanding \ {r.handle}]
<1>1. UNCHANGED <<subscriptions, change_pending>>
  BY DEF Respond
<1>2. /\ left \in Rounds /\ left.id = round.id /\ left.phase = round.phase
      /\ left.outstanding = round.outstanding \ {r.handle}
  BY DEF TypeInv, TypeOK, CoreType, Rounds
<1>3. CASE UNCHANGED core
  BY <1>1, <1>3 DEF core, FlagInv, Open, Top
<1>4. CASE Abort(frames, 0)
  BY <1>1, <1>4, AbortFlags DEF TypeInv
<1>5. CASE /\ Awaited(r) /\ left.outstanding = {} /\ frames = <<>>
           /\ \E f \in Nat : Advance(left, subscriptions, frames, f)
  <2>1. PICK f \in Nat : Advance(left, subscriptions', <<>>, f)
    BY <1>1, <1>5
  <2>2. left.id # 0
    BY <1>2, <1>5 DEF Awaited
  <2>3. left.phase = "COMMIT" => NoFlags'
    BY <1>1, <1>2, <1>5 DEF FlagInv, NoFlags, Awaited, Open
  <2> HIDE DEF left
  <2> QED
    BY <1>2, <1>5, <2>1, <2>2, <2>3, AdvanceFlags DEF TypeInv
<1>6. CASE round' = left /\ UNCHANGED frames
  BY <1>1, <1>2, <1>6 DEF FlagInv, Open, Top
<1> QED
  <2>1. (IF code THEN 0 ELSE 1) \in Nat
    OBVIOUS
  <2> QED
    BY <2>1, <1>2, <1>3, <1>4, <1>5, <1>6 DEF Respond

LEMMA SubscribeFlags ==
  ASSUME TypeInv, Known, FlagInv, Subscribe
  PROVE  FlagInv'
<1>1. /\ subscriptions' = subscriptions \cup {next_subscription}
      /\ UNCHANGED <<change_pending, round, frames>>
  BY DEF Subscribe, core
<1>2. next_subscription \notin change_pending
  BY BoundsAssumption DEF Known, TypeInv, TypeOK, SubscriberType, Handles
<1> QED
  BY <1>1, <1>2 DEF FlagInv, Open, Top

LEMMA UnsubscribeFlags ==
  ASSUME TypeInv, FlagInv, NEW h \in Handles, Unsubscribe(h)
  PROVE  FlagInv'
<1> DEFINE left == [round EXCEPT !.outstanding = round.outstanding \ {h}]
<1>1. subscriptions' = subscriptions \ {h} /\ change_pending' = change_pending \ {h}
  BY DEF Unsubscribe
<1>2. /\ left \in Rounds /\ left.id = round.id /\ left.phase = round.phase
      /\ left.outstanding = round.outstanding \ {h}
  BY DEF TypeInv, TypeOK, CoreType, Rounds
<1>3. CASE round.id # 0 /\ h \in round.outstanding /\ left.outstanding = {} /\ frames = <<>>
  <2>1. Advance(left, subscriptions', <<>>, 0)
    BY <1>1, <1>2, <1>3 DEF Unsubscribe
  <2>2. left.phase = "COMMIT" => NoFlags'
    BY <1>1, <1>2, <1>3 DEF FlagInv, NoFlags, Open
  <2> HIDE DEF left
  <2> QED
    BY <1>2, <1>3, <2>1, <2>2, AdvanceFlags DEF TypeInv
<1>4. CASE ~(round.id # 0 /\ h \in round.outstanding /\ left.outstanding = {} /\ frames = <<>>)
  <2>1. round' = left /\ UNCHANGED frames
    BY <1>2, <1>4 DEF Unsubscribe
  <2> QED
    BY <1>1, <1>2, <2>1 DEF FlagInv, Open, Top
<1> QED
  BY <1>3, <1>4

LEMMA ReleaseExpiredFlags ==
  ASSUME TypeOK, FlagInv, frames = <<>>, NEW l, ReleaseExpired(l),
         UNCHANGED <<subscriptions, change_pending>>
  PROVE  FlagInv'
<1> DEFINE locked == {k \in DOMAIN l : l[k] > 0} # {}
<1>1. TryStart(pending_trigger, locked, round, subscriptions, frames)
  BY DEF ReleaseExpired
<1>2. locked \in BOOLEAN /\ pending_trigger \in BOOLEAN
  BY DEF TypeOK, CoreType
<1> HIDE DEF locked
<1> QED
  BY <1>1, <1>2, StartFlags

LEMMA LockFlags ==
  ASSUME Documented, TypeInv, FlagInv,
         Trigger \/ (\E d \in LockDurations : Lock(d)) \/ (\E k \in Locks : Unlock(k))
  PROVE  FlagInv'
<1>1. CASE Trigger
  <2> DEFINE locked == DOMAIN locks # {}
  <2>1. /\ TryStart(TRUE, locked, round, subscriptions, frames)
        /\ frames = <<>> /\ UNCHANGED <<subscriptions, change_pending>>
    BY <1>1 DEF Trigger, MayReenter, Documented, subvars
  <2>2. locked \in BOOLEAN /\ TRUE \in BOOLEAN
    OBVIOUS
  <2> HIDE DEF locked
  <2> QED
    BY <2>1, <2>2, StartFlags DEF TypeInv
<1>2. CASE \E d \in LockDurations : Lock(d)
  <2>1. PICK d \in LockDurations : Lock(d)
    BY <1>2
  <2> DEFINE l == [k \in DOMAIN locks \cup {next_lock} |->
                     IF k = next_lock THEN d ELSE locks[k]]
  <2>2. /\ ReleaseExpired(l) \/ UNCHANGED <<frames, round>>
        /\ frames = <<>> /\ UNCHANGED <<subscriptions, change_pending>>
    BY <2>1 DEF Lock, MayReenter, Documented, subvars
  <2> HIDE DEF l
  <2>3. CASE UNCHANGED <<frames, round>>
    BY <2>2, <2>3 DEF FlagInv, Open
  <2> QED
    BY <2>2, <2>3, ReleaseExpiredFlags DEF TypeInv
<1>3. CASE \E k \in Locks : Unlock(k)
  <2>1. PICK k \in Locks : Unlock(k)
    BY <1>3
  <2> DEFINE locked == DOMAIN [j \in DOMAIN locks \ {k} |-> locks[j]] # {}
  <2>2. /\ TryStart(pending_trigger, locked, round, subscriptions, frames)
        /\ frames = <<>> /\ UNCHANGED <<subscriptions, change_pending>>
    BY <2>1 DEF Unlock, MayReenter, Documented, subvars
  <2>3. locked \in BOOLEAN /\ pending_trigger \in BOOLEAN
    BY DEF TypeInv, TypeOK, CoreType
  <2> HIDE DEF locked
  <2> QED
    BY <2>2, <2>3, StartFlags DEF TypeInv
<1> QED
  BY <1>1, <1>2, <1>3

LEMMA DestroyFlags ==
  ASSUME Destroy
  PROVE  FlagInv'
<1> DEFINE f == Frame("DEREG", current, 0, subscriptions)
<1>1. /\ frames' = <<f>> /\ ~Expects(f) /\ f.todo = subscriptions /\ round'.id = 0
      /\ UNCHANGED <<subscriptions, change_pending>>
  BY DEF Destroy, Frame, Expects, Phases, NoRound, subvars
<1> HIDE DEF f
<1>2. frames' # <<>> /\ frames'[Len(frames')] = f
  BY <1>1
<1> QED
  BY <1>1, <1>2 DEF FlagInv, Open, Top

LEMMA RoundTimeoutFlags ==
  ASSUME TypeInv, RoundInv, FlagInv, RoundTimeout
  PROVE  FlagInv'
<1>1. UNCHANGED <<subscriptions, change_pending>> /\ frames = <<>> /\ Open
  BY DEF RoundTimeout, subvars, RoundInv
<1>2. CASE Abort(frames, 1)
  BY <1>1, <1>2, AbortFlags DEF TypeInv
<1>3. CASE /\ round.phase = "COMMIT"
           /\ Finish(subscriptions, frames, Cardinality(round.outstanding), 1)
  <2>1. Settled
    BY <1>1, <1>3, FinishOutcome DEF TypeInv
  <2>2. NoFlags'
    BY <1>1, <1>3 DEF FlagInv, NoFlags
  <2> QED
    BY <2>1, <2>2, SettledFlags
<1> QED
  BY <1>1, <1>2, <1>3 DEF RoundTimeout, Open

LEMMA NextFlags ==
  Documented /\ TypeInv /\ RoundInv /\ Known /\ FlagInv /\ [Next]_vars => FlagInv'
<1> SUFFICES ASSUME Documented, TypeInv, RoundInv, Known, FlagInv, [Next]_vars PROVE FlagInv'
  OBVIOUS
<1>1. CASE UNCHANGED <<round, frames, subscriptions, change_pending>>
  BY <1>1 DEF FlagInv, Open, Top
<1>2. UNCHANGED vars \/ (\E d \in 1 .. MaxJump : Tick(d)) \/ Prune
      \/ (\E t \in Tickets : AddTicket(t) \/ ValidityPasses(t))
      => UNCHANGED <<round, frames, subscriptions, change_pending>>
  BY DEF vars, core, subvars, Tick, Prune, AddTicket, ValidityPasses
<1>3. CASE NotifyStep
  BY <1>3, NotifySkipFlags, NotifyCallFlags, NotifyReturnFlags DEF NotifyStep
<1>4. CASE \E r \in responders, code \in BOOLEAN : Respond(r, code)
  BY <1>4, RespondFlags
<1>5. CASE Subscribe \/ \E h \in Handles : Unsubscribe(h)
  BY <1>5, SubscribeFlags, UnsubscribeFlags
<1>6. CASE Trigger \/ (\E d \in LockDurations : Lock(d)) \/ (\E k \in Locks : Unlock(k))
  BY <1>6, LockFlags
<1>7. CASE Destroy \/ RoundTimeout
  BY <1>7, DestroyFlags, RoundTimeoutFlags
<1>8. CASE LockTimeout
  <2>1. frames = <<>> /\ ReleaseExpired(locks) /\ UNCHANGED <<subscriptions, change_pending>>
    BY <1>8 DEF LockTimeout, subvars
  <2> QED
    BY <2>1, ReleaseExpiredFlags DEF TypeInv
<1> QED
  BY <1>1, <1>2, <1>3, <1>4, <1>5, <1>6, <1>7, <1>8 DEF Next

\* No subscriber is left with change_pending set, and so refusing every
\* request, when no PREPARE is open, and everybody PREPARE waits for is
\* flagged: an abort, a timeout and the destructor reach every subscriber.
THEOREM FlagsMatchRound ==
  ASSUME Documented
  PROVE  Spec => []PendingFlagsMatch
<1>1. FlagInv => PendingFlagsMatch
  BY DEF FlagInv, PendingFlagsMatch
<1>2. Init => FlagInv
  BY DEF Init, FlagInv, Open, NoRound
<1>3. TypeInv /\ LockRounds /\ Known /\ [Next]_vars => LockRounds' /\ Known'
  BY NextRoundStep, NextLocksGrow, NextLockRounds, NextKnown DEF TypeInv
<1>4. TypeInv /\ RoundInv /\ Known /\ FlagInv /\ [Next]_vars => RoundInv' /\ FlagInv'
  BY NextInv, NextFlags
<1> QED
  BY <1>1, <1>2, <1>3, <1>4, InitType, NextType, InitRound, InitLockRounds, InitKnown, PTL DEF Spec

-----------------------------------------------------------------------------
(* The votes, however often and however late responders are used.          *)

\* In PREPARE, who has not been asked is waited for and has no responder yet.
Unasked ==
  Open /\ round.phase = "PREPARE" /\ frames # <<>> =>
    \A h \in frames[1].todo :
      /\ h < next_subscription
      /\ h \in subscriptions => h \in round.outstanding
      /\ \A r \in responders : ~(r.round = round.id /\ r.handle = h)

\* Who was asked to prepare has answered, or is waited for.
Asked ==
  Open => \A r \in responders :
            r.round = round.id /\ r.handle \in subscriptions =>
              /\ round.phase = "PREPARE" => r.phase = "PREPARE"
              /\ r.phase = "PREPARE" =>
                   \/ IsAnswered(r)
                   \/ round.phase = "PREPARE" /\ r.handle \in round.outstanding

AllYes ==
  Open => \A a \in answered :
            a.round = round.id /\ a.handle \in subscriptions /\ a.phase = "PREPARE" => a.code

VoteInv == Unasked /\ Asked /\ AllYes

\* A new round has a number nobody has answered to.
LEMMA BeganVotes ==
  ASSUME TypeOK, Known, Known', Announced("PREPARE"), round'.id = round_counter + 1,
         responders' \subseteq responders,
         \A a \in answered' : \/ a \in answered
                              \/ \E r \in responders : a.round = r.round
  PROVE  VoteInv'
<1> DEFINE f == Frame("PREPARE", round'.new, round'.id, round'.outstanding)
<1>1. /\ frames' = <<f>> /\ f.todo = round'.outstanding /\ round'.outstanding = subscriptions'
  BY DEF Announced, Frame
<1> HIDE DEF f
<1>2. frames'[1] = f
  BY <1>1
<1>3. round_counter \in Int
  BY BoundsAssumption DEF TypeOK, CoreType
<1>4. \A r \in responders : r.round # round'.id
  BY <1>3 DEF Known, TypeOK, SubscriberType, Responders
<1>5. \A a \in answered' : a.round # round'.id
  BY <1>3, <1>4 DEF Known, TypeOK, SubscriberType, Answers
<1> QED
  BY <1>1, <1>2, <1>4, <1>5 DEF VoteInv, Unasked, Asked, AllYes, Known

LEMMA ClosedVotes ==
  ASSUME round'.id = 0
  PROVE  VoteInv'
BY DEF VoteInv, Unasked, Asked, AllYes, Open

\* COMMIT is announced when nobody is left to answer PREPARE.
LEMMA DecidedVotes ==
  ASSUME Known', Announced("COMMIT"), round'.id = round.id,
         \A r \in responders' :
           r.round = round.id /\ r.handle \in subscriptions' /\ r.phase = "PREPARE" => IsAnswered(r)',
         \A a \in answered' :
           a.round = round.id /\ a.handle \in subscriptions' /\ a.phase = "PREPARE" => a.code
  PROVE  VoteInv'
<1> DEFINE f == Frame("COMMIT", round'.new, round'.id, round'.outstanding)
<1>1. /\ frames' = <<f>> /\ f.todo = round'.outstanding /\ round'.outstanding = subscriptions'
  BY DEF Announced, Frame
<1> HIDE DEF f
<1>2. frames'[1] = f
  BY <1>1
<1>3. round'.phase = "COMMIT"
  BY DEF Announced
<1> QED
  BY <1>1, <1>2, <1>3 DEF VoteInv, Unasked, Asked, AllYes, Known

LEMMA TryStartNumber ==
  ASSUME TypeOK, NEW p \in BOOLEAN, NEW locked \in BOOLEAN, NEW r \in Rounds,
         TryStart(p, locked, r, subscriptions', <<>>)
  PROVE  \/ round' = r /\ frames' = <<>>
         \/ r.id = 0 /\ Announced("PREPARE") /\ round'.id = round_counter + 1
<1>1. CASE CanStart(p, locked, r) /\ OtherValid # {}
  <2>1. PICK next \in OtherValid :
          /\ round' = [id |-> round_counter + 1, phase |-> "PREPARE",
                       new |-> next, outstanding |-> subscriptions']
          /\ frames' = Append(<<>>, Frame("PREPARE", next, round_counter + 1, subscriptions'))
    BY <1>1 DEF TryStart
  <2>2. round_counter + 1 # 0
    BY BoundsAssumption DEF TypeOK, CoreType
  <2> QED
    BY <1>1, <2>1, <2>2 DEF Announced, CanStart
<1>2. CASE ~(CanStart(p, locked, r) /\ OtherValid # {})
  BY <1>2 DEF TryStart
<1> QED
  BY <1>1, <1>2

LEMMA FinishVotes ==
  ASSUME TypeOK, Known, Known', NEW f, NEW t, Finish(subscriptions', <<>>, f, t),
         responders' \subseteq responders,
         \A a \in answered' : \/ a \in answered
                              \/ \E r \in responders : a.round = r.round
  PROVE  VoteInv'
<1> DEFINE locked == DOMAIN locks # {}
<1>1. TryStart(pending_trigger, locked, NoRound, subscriptions', <<>>)
  BY DEF Finish
<1>2. locked \in BOOLEAN /\ pending_trigger \in BOOLEAN
  BY DEF TypeOK, CoreType
<1>3. \/ round' = NoRound
      \/ Announced("PREPARE") /\ round'.id = round_counter + 1
  <2> HIDE DEF locked
  <2> QED
    BY <1>1, <1>2, NoRoundType, TryStartNumber
<1> QED
  BY <1>3, BeganVotes, ClosedVotes DEF NoRound

LEMMA AdvanceVotes ==
  ASSUME TypeOK, Known, Known', NEW r \in Rounds, NEW f, Advance(r, subscriptions', <<>>, f),
         r.id # 0, r.outstanding = {}, r.id = round.id,
         responders' \subseteq responders,
         \A a \in answered' : \/ a \in answered
                              \/ \E q \in responders : a.round = q.round,
         r.phase = "PREPARE" =>
           /\ \A q \in responders' :
                q.round = round.id /\ q.handle \in subscriptions' /\ q.phase = "PREPARE"
                  => IsAnswered(q)'
           /\ \A a \in answered' :
                a.round = round.id /\ a.handle \in subscriptions' /\ a.phase = "PREPARE" => a.code
  PROVE  VoteInv'
<1>1. CASE r.phase = "COMMIT"
  BY <1>1, FinishVotes DEF Advance
<1>2. CASE r.phase = "PREPARE"
  <2>1. Announced("COMMIT") /\ round'.id = round.id
    BY <1>2 DEF Advance, Announced
  <2> QED
    BY <1>2, <2>1, DecidedVotes
<1> QED
  BY <1>1, <1>2 DEF Rounds, Phases

LEMMA StartVotes ==
  ASSUME TypeOK, Known, Known', VoteInv, frames = <<>>, NEW p \in BOOLEAN, NEW locked \in BOOLEAN,
         TryStart(p, locked, round, subscriptions, frames),
         UNCHANGED <<subscriptions, next_subscription, responders, answered>>
  PROVE  VoteInv'
<1>1. TryStart(p, locked, round, subscriptions', <<>>) /\ round \in Rounds
  BY DEF TypeOK, CoreType
<1>2. CASE round' = round /\ frames' = <<>>
  BY <1>2 DEF VoteInv, Unasked, Asked, AllYes, IsAnswered, Open
<1>3. CASE Announced("PREPARE") /\ round'.id = round_counter + 1
  BY <1>3, BeganVotes
<1> QED
  BY <1>1, <1>2, <1>3, TryStartNumber

LEMMA NotifySkipVotes ==
  ASSUME TypeInv, RoundInv, VoteInv, NotifySkip
  PROVE  VoteInv'
<1>1. PICK h \in Top.todo \ subscriptions :
        /\ round' = IF round.id # 0 /\ round.id = Top.round
                    THEN [round EXCEPT !.outstanding = @ \ {h}] ELSE round
        /\ frames' = Append(Below, Delivered(Top, h, 0))
  BY DEF NotifySkip
<1>2. frames # <<>> /\ UNCHANGED <<subscriptions, next_subscription, responders, answered>>
  BY DEF NotifySkip, subvars
<1>3. Open => frames'[1].todo = frames[1].todo \ {h}
  BY <1>1, <1>2, DeliveredTop
<1>4. /\ round'.id = round.id /\ round'.phase = round.phase
      /\ round'.outstanding \in {round.outstanding, round.outstanding \ {h}}
  BY <1>1 DEF TypeInv, TypeOK, CoreType, Rounds
<1> QED
  BY <1>1, <1>2, <1>3, <1>4 DEF VoteInv, Unasked, Asked, AllYes, IsAnswered, Open

LEMMA NotifyCallVotes ==
  ASSUME TypeInv, RoundInv, VoteInv, NotifyCall
  PROVE  VoteInv'
<1>1. PICK h \in Top.todo \cap subscriptions :
        /\ frames' = Append(Below, Delivered(Top, h, h))
        /\ responders' = IF Expects(Top)
                         THEN responders \cup
                              {[round |-> Top.round, handle |-> h, phase |-> Top.command]}
                         ELSE responders
  BY DEF NotifyCall
<1>2. frames # <<>> /\ UNCHANGED <<subscriptions, next_subscription, answered, round>> /\ ~Stale(Top)
  BY DEF NotifyCall
<1>3. CASE ~Open
  BY <1>2, <1>3, ClosedVotes DEF Open
<1>4. CASE Open
  <2>1. Top = frames[1] /\ frames'[1].todo = frames[1].todo \ {h}
    BY <1>1, <1>2, <1>4, DeliveredTop
  <2>2. Expects(Top) /\ Top.command = round.phase /\ Top.round = round.id
    BY <1>2, <1>4, OpenTop DEF Stale
  <2>3. round.phase = "PREPARE" => h \in round.outstanding
    BY <1>1, <1>2, <1>4, <2>1 DEF VoteInv, Unasked
  <2>4. \A r \in responders' :
          r \in responders \/ (r.round = round.id /\ r.handle = h /\ r.phase = round.phase)
    BY <1>1, <2>2
  <2>5. \A r : IsAnswered(r)' = IsAnswered(r)
    BY <1>2 DEF IsAnswered
  <2>6. Unasked' /\ AllYes'
    BY <1>2, <1>4, <2>1, <2>4 DEF VoteInv, Unasked, AllYes, Open
  <2>7. Asked'
    BY <1>2, <1>4, <2>3, <2>4, <2>5 DEF VoteInv, Asked, Open
  <2> QED
    BY <2>6, <2>7 DEF VoteInv
<1> QED
  BY <1>3, <1>4

LEMMA NotifyReturnVotes ==
  ASSUME TypeInv, RoundInv, Known, Known', VoteInv, NotifyReturn
  PROVE  VoteInv'
<1>1. frames # <<>> /\ UNCHANGED <<next_subscription, responders, answered>>
  BY DEF NotifyReturn
<1>2. CASE ~Open
  BY <1>2, ClosedVotes DEF NotifyReturn, Open
<1>3. CASE Open
  <2>1. /\ Len(frames) = 1 /\ Below = <<>> /\ Expects(Top) /\ round.id = Top.round
    BY <1>1, <1>3, OpenTop DEF Stale
  <2>2. subscriptions' = subscriptions /\ round \in Rounds
    BY <2>1 DEF NotifyReturn, Expects, Phases, TypeInv, TypeOK, CoreType
  <2>3. CASE round.outstanding = {}
    <3>1. Advance(round, subscriptions', <<>>, 0)
      BY <1>3, <2>1, <2>2, <2>3 DEF NotifyReturn, Open
    <3>2. \A q \in responders' :
            q.round = round.id /\ q.handle \in subscriptions' /\ q.phase = "PREPARE"
              => IsAnswered(q)'
      BY <1>1, <1>3, <2>2, <2>3 DEF VoteInv, Asked, IsAnswered
    <3>3. \A a \in answered' :
            a.round = round.id /\ a.handle \in subscriptions' /\ a.phase = "PREPARE" => a.code
      BY <1>1, <1>3, <2>2 DEF VoteInv, AllYes
    <3> QED
      BY <1>1, <1>3, <2>2, <2>3, <3>1, <3>2, <3>3, AdvanceVotes DEF TypeInv, Open
  <2>4. CASE round.outstanding # {}
    <3>1. UNCHANGED round /\ frames' = <<>>
      BY <1>3, <2>1, <2>4 DEF NotifyReturn, Open, ArmRoundTimer
    <3> QED
      BY <1>1, <2>2, <3>1 DEF VoteInv, Unasked, Asked, AllYes, IsAnswered, Open
  <2> QED
    BY <2>3, <2>4
<1> QED
  BY <1>2, <1>3

\* What the history of answers keeps of an answer.
LEMMA RespondAnswered ==
  ASSUME TypeOK, NEW r \in responders, NEW code \in BOOLEAN, Respond(r, code)
  PROVE  /\ \A q : q.round = round.id /\ IsAnswered(q) => IsAnswered(q)'
         /\ r.round = round.id => IsAnswered(r)'
         /\ \A a \in answered' :
              \/ a \in answered
              \/ /\ a.round = r.round /\ a.handle = r.handle /\ a.phase = r.phase /\ a.code = code
                 /\ r.round = round.id /\ ~IsAnswered(r)
<1>1. answered' = {a \in answered : a.round = round.id} \cup
                  (IF r.round = round.id /\ ~IsAnswered(r) THEN {Answer(r, code)} ELSE {})
  BY DEF Respond
<1>2. \A q : q.round = round.id => \A c \in BOOLEAN : Answer(q, c).round = round.id
  BY DEF Answer
<1>3. \A q : q.round = round.id /\ IsAnswered(q) => IsAnswered(q)'
  BY <1>1, <1>2 DEF IsAnswered
<1>4. r.round = round.id => IsAnswered(r)'
  BY <1>1, <1>3 DEF IsAnswered
<1>5. \A a \in answered' :
        \/ a \in answered
        \/ a = Answer(r, code) /\ r.round = round.id /\ ~IsAnswered(r)
  BY <1>1
<1> QED
  BY <1>3, <1>4, <1>5 DEF Answer

\* A first answer to PREPARE is given in PREPARE, and one with false ends the
\* round; an answer that comes later finds its responder answered.
LEMMA RespondVotes ==
  ASSUME TypeInv, RoundInv, Known, Known', VoteInv,
         NEW r \in responders, NEW code \in BOOLEAN, Respond(r, code)
  PROVE  VoteInv'
<1> DEFINE left == [round EXCEPT !.outstanding = round.outstanding \ {r.handle}]
<1>1. UNCHANGED <<subscriptions, next_subscription, responders>>
  BY DEF Respond
<1>2. /\ left \in Rounds /\ left.id = round.id /\ left.phase = round.phase
      /\ left.outstanding = round.outstanding \ {r.handle}
  BY DEF TypeInv, TypeOK, CoreType, Rounds
<1>3. /\ \A q : q.round = round.id /\ IsAnswered(q) => IsAnswered(q)'
      /\ r.round = round.id => IsAnswered(r)'
      /\ \A a \in answered' :
           \/ a \in answered
           \/ /\ a.round = r.round /\ a.handle = r.handle /\ a.phase = r.phase /\ a.code = code
              /\ r.round = round.id /\ ~IsAnswered(r)
  BY RespondAnswered DEF TypeInv
<1>4. \A a \in answered' : a \in answered \/ \E q \in responders : a.round = q.round
  BY <1>3
<1>5. CASE ~Open
  <2>1. UNCHANGED core
    BY <1>5 DEF Respond, Awaited, Open
  <2> QED
    BY <1>5, <2>1, ClosedVotes DEF core, Open
<1>6. CASE Awaited(r) /\ ~code /\ round.phase = "PREPARE"
  <2>1. Abort(frames, 0)
    BY <1>6 DEF Respond
  <2> QED
    BY <2>1, ClosedVotes DEF Abort, NoRound
<1>7. CASE Open /\ ~(Awaited(r) /\ ~code /\ round.phase = "PREPARE")
  <2>1. \A a \in answered' :
          a.round = round.id /\ a.handle \in subscriptions' /\ a.phase = "PREPARE" => a.code
    <3> SUFFICES ASSUME NEW a \in answered', a \notin answered, a.round = round.id,
                        a.handle \in subscriptions, a.phase = "PREPARE"
                 PROVE  a.code
      BY <1>1, <1>7 DEF VoteInv, AllYes
    <3>1. /\ r.round = round.id /\ r.handle \in subscriptions /\ r.phase = "PREPARE"
          /\ ~IsAnswered(r) /\ a.code = code
      BY <1>3
    <3>2. round.phase = "PREPARE" /\ r.handle \in round.outstanding
      BY <1>7, <3>1 DEF VoteInv, Asked
    <3> QED
      BY <1>7, <3>1, <3>2 DEF Awaited, Open
  <2>2. \A q \in responders' :
          q.round = round.id /\ q.handle \in subscriptions' /\ q.phase = "PREPARE" =>
            \/ IsAnswered(q)'
            \/ /\ round.phase = "PREPARE" /\ q.handle \in round.outstanding
               /\ Awaited(r) => q.handle # r.handle
    <3> SUFFICES ASSUME NEW q \in responders, q.round = round.id, q.handle \in subscriptions,
                        q.phase = "PREPARE", ~IsAnswered(q)'
                 PROVE  /\ round.phase = "PREPARE" /\ q.handle \in round.outstanding
                        /\ Awaited(r) => q.handle # r.handle
      BY <1>1
    <3>1. round.phase = "PREPARE" /\ q.handle \in round.outstanding
      BY <1>3, <1>7 DEF VoteInv, Asked
    <3>2. ASSUME Awaited(r), q.handle = r.handle
          PROVE  FALSE
      <4>1. r.round = round.id /\ r.phase = "PREPARE"
        BY <1>7, <3>1, <3>2 DEF VoteInv, Asked, Awaited
      <4>2. q = r
        BY <3>2, <4>1 DEF TypeInv, TypeOK, SubscriberType, Responders
      <4> QED
        BY <1>3, <4>1, <4>2
    <3> QED
      BY <3>1, <3>2
  <2>3. CASE ~Awaited(r)
    <3>1. UNCHANGED <<round, frames>>
      BY <2>3 DEF Respond, core
    <3>2. Unasked'
      BY <1>1, <1>7, <3>1 DEF VoteInv, Unasked, Open
    <3>3. Asked'
      BY <1>1, <1>7, <2>2, <3>1 DEF VoteInv, Asked, Open
    <3> QED
      BY <2>1, <3>1, <3>2, <3>3 DEF VoteInv, AllYes
  <2>4. CASE Awaited(r) /\ left.outstanding = {} /\ frames = <<>>
    <3>1. PICK f \in {0, 1} : Advance(left, subscriptions', <<>>, f)
      BY <1>1, <1>2, <1>7, <2>4 DEF Respond
    <3>2. \A q \in responders' :
            q.round = round.id /\ q.handle \in subscriptions' /\ q.phase = "PREPARE"
              => IsAnswered(q)'
      BY <1>2, <2>2, <2>4
    <3> HIDE DEF left
    <3> QED
      BY <1>1, <1>2, <1>4, <1>7, <2>1, <2>4, <3>1, <3>2, AdvanceVotes DEF TypeInv, Open
  <2>5. CASE Awaited(r) /\ ~(left.outstanding = {} /\ frames = <<>>)
    <3>1. round' = left /\ UNCHANGED frames
      BY <1>2, <1>7, <2>5 DEF Respond
    <3> HIDE DEF left
    <3>2. Unasked'
      <4>1. round.phase = "PREPARE" /\ frames # <<>> => r.handle \notin frames[1].todo
        BY <1>7, <2>5 DEF VoteInv, Unasked, Awaited
      <4> QED
        BY <1>1, <1>2, <1>7, <3>1, <4>1 DEF VoteInv, Unasked, Open
    <3>3. Asked'
      BY <1>1, <1>2, <1>7, <2>2, <2>5, <3>1 DEF VoteInv, Asked, Open
    <3> QED
      BY <1>2, <2>1, <3>1, <3>2, <3>3 DEF VoteInv, AllYes
  <2> QED
    BY <2>3, <2>4, <2>5
<1> QED
  BY <1>5, <1>6, <1>7

LEMMA SubscribeVotes ==
  ASSUME TypeInv, RoundInv, Known, Known', VoteInv, Subscribe
  PROVE  VoteInv'
<1>1. /\ subscriptions' = subscriptions \cup {next_subscription}
      /\ next_subscription' = next_subscription + 1
      /\ UNCHANGED <<responders, answered, round, frames>>
  BY DEF Subscribe, core
<1>2. /\ \A r \in responders : r.handle # next_subscription
      /\ \A a \in answered : a.handle # next_subscription
  BY BoundsAssumption DEF Known, TypeInv, TypeOK, SubscriberType, Responders, Answers, Handles
<1>3. Open /\ round.phase = "PREPARE" /\ frames # <<>> =>
        \A h \in frames[1].todo : h < next_subscription' /\ h # next_subscription
  <2>1. next_subscription \in Int
    BY DEF TypeInv, TypeOK, SubscriberType
  <2>2. Open /\ frames # <<>> => frames[1] \in Frames
    BY DEF TypeInv, TypeOK, CoreType
  <2> QED
    BY <1>1, <2>1, <2>2, BoundsAssumption DEF VoteInv, Unasked, Frames, Handles
<1> QED
  BY <1>1, <1>2, <1>3 DEF VoteInv, Unasked, Asked, AllYes, IsAnswered, Open

LEMMA UnsubscribeVotes ==
  ASSUME TypeInv, RoundInv, Known, Known', VoteInv, NEW h \in Handles, Unsubscribe(h)
  PROVE  VoteInv'
<1> DEFINE left == [round EXCEPT !.outstanding = round.outstanding \ {h}]
<1>1. subscriptions' = subscriptions \ {h} /\ UNCHANGED <<next_subscription, responders, answered>>
  BY DEF Unsubscribe
<1>2. /\ left \in Rounds /\ left.id = round.id /\ left.phase = round.phase
      /\ left.outstanding = round.outstanding \ {h}
  BY DEF TypeInv, TypeOK, CoreType, Rounds
<1>3. CASE round.id # 0 /\ h \in round.outstanding /\ left.outstanding = {} /\ frames = <<>>
  <2>1. Advance(left, subscriptions', <<>>, 0)
    BY <1>1, <1>2, <1>3 DEF Unsubscribe
  <2> HIDE DEF left
  <2>2. /\ \A q \in responders' :
             q.round = round.id /\ q.handle \in subscriptions' /\ q.phase = "PREPARE"
               => IsAnswered(q)'
        /\ \A a \in answered' :
             a.round = round.id /\ a.handle \in subscriptions' /\ a.phase = "PREPARE" => a.code
    BY <1>1, <1>2, <1>3 DEF VoteInv, Asked, AllYes, IsAnswered, Open
  <2> QED
    BY <1>1, <1>2, <1>3, <2>1, <2>2, AdvanceVotes DEF TypeInv
<1>4. CASE ~(round.id # 0 /\ h \in round.outstanding /\ left.outstanding = {} /\ frames = <<>>)
  <2>1. round' = left /\ UNCHANGED frames
    BY <1>2, <1>4 DEF Unsubscribe
  <2> HIDE DEF left
  <2> QED
    BY <1>1, <1>2, <2>1 DEF VoteInv, Unasked, Asked, AllYes, IsAnswered, Open
<1> QED
  BY <1>3, <1>4

LEMMA ReleaseExpiredVotes ==
  ASSUME TypeOK, Known, Known', VoteInv, frames = <<>>, NEW l, ReleaseExpired(l), UNCHANGED subvars
  PROVE  VoteInv'
<1> DEFINE locked == {k \in DOMAIN l : l[k] > 0} # {}
<1>1. /\ TryStart(pending_trigger, locked, round, subscriptions, frames)
      /\ UNCHANGED <<subscriptions, next_subscription, responders, answered>>
  BY DEF ReleaseExpired, subvars
<1>2. locked \in BOOLEAN /\ pending_trigger \in BOOLEAN
  BY DEF TypeOK, CoreType
<1> HIDE DEF locked
<1> QED
  BY <1>1, <1>2, StartVotes

LEMMA LockVotes ==
  ASSUME Documented, TypeInv, Known, Known', VoteInv,
         Trigger \/ (\E d \in LockDurations : Lock(d)) \/ (\E k \in Locks : Unlock(k))
  PROVE  VoteInv'
<1>1. CASE Trigger
  <2> DEFINE locked == DOMAIN locks # {}
  <2>1. /\ TryStart(TRUE, locked, round, subscriptions, frames) /\ frames = <<>>
        /\ UNCHANGED <<subscriptions, next_subscription, responders, answered>>
    BY <1>1 DEF Trigger, MayReenter, Documented, subvars
  <2>2. locked \in BOOLEAN /\ TRUE \in BOOLEAN
    OBVIOUS
  <2> HIDE DEF locked
  <2> QED
    BY <2>1, <2>2, StartVotes DEF TypeInv
<1>2. CASE \E d \in LockDurations : Lock(d)
  <2>1. PICK d \in LockDurations : Lock(d)
    BY <1>2
  <2> DEFINE l == [k \in DOMAIN locks \cup {next_lock} |->
                     IF k = next_lock THEN d ELSE locks[k]]
  <2>2. /\ ReleaseExpired(l) \/ UNCHANGED <<frames, round>>
        /\ frames = <<>> /\ UNCHANGED subvars
    BY <2>1 DEF Lock, MayReenter, Documented
  <2> HIDE DEF l
  <2>3. CASE UNCHANGED <<frames, round>>
    BY <2>2, <2>3 DEF VoteInv, Unasked, Asked, AllYes, IsAnswered, Open, subvars
  <2> QED
    BY <2>2, <2>3, ReleaseExpiredVotes DEF TypeInv
<1>3. CASE \E k \in Locks : Unlock(k)
  <2>1. PICK k \in Locks : Unlock(k)
    BY <1>3
  <2> DEFINE locked == DOMAIN [j \in DOMAIN locks \ {k} |-> locks[j]] # {}
  <2>2. /\ TryStart(pending_trigger, locked, round, subscriptions, frames) /\ frames = <<>>
        /\ UNCHANGED <<subscriptions, next_subscription, responders, answered>>
    BY <2>1 DEF Unlock, MayReenter, Documented, subvars
  <2>3. locked \in BOOLEAN /\ pending_trigger \in BOOLEAN
    BY DEF TypeInv, TypeOK, CoreType
  <2> HIDE DEF locked
  <2> QED
    BY <2>2, <2>3, StartVotes DEF TypeInv
<1> QED
  BY <1>1, <1>2, <1>3

LEMMA RoundTimeoutVotes ==
  ASSUME TypeInv, RoundInv, Known, Known', VoteInv, RoundTimeout
  PROVE  VoteInv'
<1>1. /\ UNCHANGED <<subscriptions, next_subscription, responders, answered>>
      /\ frames = <<>> /\ Open
  BY DEF RoundTimeout, subvars, RoundInv
<1>2. CASE Abort(frames, 1)
  BY <1>2, ClosedVotes DEF Abort, NoRound
<1>3. CASE Finish(subscriptions, frames, Cardinality(round.outstanding), 1)
  BY <1>1, <1>3, FinishVotes DEF TypeInv
<1> QED
  BY <1>1, <1>2, <1>3 DEF RoundTimeout, Open

LEMMA NextVotes ==
  Documented /\ TypeInv /\ RoundInv /\ Known /\ Known' /\ VoteInv /\ [Next]_vars => VoteInv'
<1> SUFFICES ASSUME Documented, TypeInv, RoundInv, Known, Known', VoteInv, [Next]_vars
             PROVE  VoteInv'
  OBVIOUS
<1>1. CASE UNCHANGED <<round, frames, subvars>>
  BY <1>1 DEF VoteInv, Unasked, Asked, AllYes, IsAnswered, Open, subvars
<1>2. UNCHANGED vars \/ (\E d \in 1 .. MaxJump : Tick(d)) \/ Prune
      \/ (\E t \in Tickets : AddTicket(t) \/ ValidityPasses(t))
      => UNCHANGED <<round, frames, subvars>>
  BY DEF vars, core, Tick, Prune, AddTicket, ValidityPasses
<1>3. CASE NotifyStep
  BY <1>3, NotifySkipVotes, NotifyCallVotes, NotifyReturnVotes DEF NotifyStep
<1>4. CASE \E r \in responders, code \in BOOLEAN : Respond(r, code)
  BY <1>4, RespondVotes
<1>5. CASE Subscribe \/ \E h \in Handles : Unsubscribe(h)
  BY <1>5, SubscribeVotes, UnsubscribeVotes
<1>6. CASE Trigger \/ (\E d \in LockDurations : Lock(d)) \/ (\E k \in Locks : Unlock(k))
  BY <1>6, LockVotes
<1>7. CASE Destroy
  BY <1>7, ClosedVotes DEF Destroy, NoRound
<1>8. CASE RoundTimeout
  BY <1>8, RoundTimeoutVotes
<1>9. CASE LockTimeout
  <2>1. frames = <<>> /\ ReleaseExpired(locks) /\ UNCHANGED subvars
    BY <1>9 DEF LockTimeout
  <2> QED
    BY <2>1, ReleaseExpiredVotes DEF TypeInv
<1> QED
  BY <1>1, <1>2, <1>3, <1>4, <1>5, <1>6, <1>7, <1>8, <1>9 DEF Next

\* A COMMIT is unanimous: in PREPARE the manager stops waiting for a subscriber
\* only once it has answered, and when COMMIT is reached every subscriber that
\* was asked has answered this round's PREPARE, the first time with true,
\* whatever responders are used again or come late from earlier rounds and
\* whoever came or went meanwhile.
THEOREM CommitsAreUnanimous ==
  ASSUME Documented
  PROVE  Spec => []CommitNeedsAllYes
<1>1. VoteInv => CommitNeedsAllYes
  <2> SUFFICES ASSUME VoteInv, Open, NEW h \in subscriptions
               PROVE  /\ Unanswered(h, "PREPARE") =>
                           round.phase = "PREPARE" /\ h \in round.outstanding
                      /\ [round |-> round.id, handle |-> h, phase |-> "PREPARE", code |-> FALSE]
                           \notin answered
    BY DEF CommitNeedsAllYes
  <2>1. ASSUME Unanswered(h, "PREPARE")
        PROVE  round.phase = "PREPARE" /\ h \in round.outstanding
    BY <2>1 DEF Unanswered, VoteInv, Asked
  <2> QED
    BY <2>1 DEF VoteInv, AllYes
<1>2. Init => VoteInv
  BY DEF Init, VoteInv, Unasked, Asked, AllYes, Open, NoRound
<1>3. TypeInv /\ LockRounds /\ Known /\ [Next]_vars => LockRounds' /\ Known'
  BY NextRoundStep, NextLocksGrow, NextLockRounds, NextKnown DEF TypeInv
<1>4. TypeInv /\ LockRounds /\ RoundInv /\ Known /\ VoteInv /\ [Next]_vars => RoundInv' /\ VoteInv'
  BY <1>3, NextInv, NextVotes
<1> QED
  BY <1>1, <1>2, <1>3, <1>4, InitType, NextType, InitRound, InitLockRounds, InitKnown, PTL DEF Spec

-----------------------------------------------------------------------------
(* Every step of the service is a step of IdChange or none of it.          *)

\* Between rounds no identifier is under way.
IdleNew == ~Open => round.new = 0

LEMMA NextIdleNew ==
  ASSUME TypeOK, IdleNew, RoundStep
  PROVE  IdleNew'
<1>1. round_counter + 1 # 0
  BY BoundsAssumption DEF TypeOK, CoreType
<1> QED
  BY <1>1 DEF IdleNew, RoundStep, Kept, Began, Decided, Cleared, Open, NoRound

\* Who leaves may complete a COMMIT and may be the last to answer PREPARE, but
\* neither begins nor ends a round otherwise.
LEMMA LeavingKeepsRound ==
  ASSUME TypeOK, NotifyReturn \/ \E h \in Handles : Unsubscribe(h), subscriptions' # subscriptions
  PROVE  (Open /\ round.phase = "COMMIT") \/ round'.id = round.id
<1>1. CASE NotifyReturn
  BY <1>1 DEF NotifyReturn, Expects, Phases
<1>2. CASE \E h \in Handles : Unsubscribe(h)
  <2>1. PICK h \in Handles : Unsubscribe(h)
    BY <1>2
  <2> DEFINE left == [round EXCEPT !.outstanding = round.outstanding \ {h}]
  <2>2. left.id = round.id /\ left.phase = round.phase /\ round.phase \in Phases
    BY DEF TypeOK, CoreType, Rounds
  <2>3. \/ Open /\ Advance(left, subscriptions \ {h}, frames, 0)
        \/ round' = left
    BY <2>1 DEF Unsubscribe, Open
  <2> HIDE DEF left
  <2> QED
    BY <2>2, <2>3 DEF Advance
<1> QED
  BY <1>1, <1>2

\* The steps by which a subscriber takes over an identifier.
LEMMA AdoptStep ==
  ASSUME TypeInv, RoundInv, AgreeInv, NotifyCall
  PROVE  [Change!Next]_Change!vars
<1>1. PICK h \in Top.todo \cap subscriptions :
        /\ frames' = Append(Below, Delivered(Top, h, h))
        /\ OnIdChange(h, Top.command, Top.id)
  BY DEF NotifyCall
<1>2. UNCHANGED <<round, subscriptions, current>> /\ frames # <<>> /\ ~Stale(Top)
  BY DEF NotifyCall
<1>3. ChangePhase' = ChangePhase
  BY <1>2 DEF ChangePhase, Open
<1>4. CASE Top.command # "COMMIT"
  <2>1. identifier' = identifier
    BY <1>1, <1>4 DEF OnIdChange
  <2> QED
    BY <1>2, <1>3, <2>1 DEF Change!vars
<1>5. CASE Top.command = "COMMIT"
  <2>1. Open /\ round.phase = "COMMIT" /\ Top = frames[1]
    BY <1>2, <1>5, OpenTop DEF Expects, Phases
  <2>2. identifier' = [identifier EXCEPT ![h] = round.new]
    BY <1>1, <1>2, <1>5, <2>1 DEF OnIdChange, AgreeInv
  <2>3. ChangePhase = "committing"
    BY <2>1 DEF ChangePhase
  <2>4. Change!Adopt(h)
    BY <1>1, <1>2, <1>3, <2>2, <2>3 DEF Change!Adopt
  <2>5. h \in Handles
    BY <1>1 DEF TypeInv, TypeOK, SubscriberType
  <2> QED
    BY <2>4, <2>5 DEF Change!Next
<1> QED
  BY <1>4, <1>5

LEMMA JoinStep ==
  ASSUME TypeInv, Known, Subscribe
  PROVE  [Change!Next]_Change!vars
<1>1. /\ subscriptions' = subscriptions \cup {next_subscription}
      /\ identifier' = [identifier EXCEPT ![next_subscription] = current]
      /\ UNCHANGED <<round, current>>
  BY DEF Subscribe, core
<1>2. next_subscription \in Handles /\ next_subscription \notin subscriptions
  BY BoundsAssumption DEF Subscribe, Known, TypeInv, TypeOK, SubscriberType, Handles
<1>3. ChangePhase' = ChangePhase
  BY <1>1 DEF ChangePhase, Open
<1>4. Change!Join(next_subscription)
  BY <1>1, <1>2, <1>3 DEF Change!Join
<1> QED
  BY <1>2, <1>4 DEF Change!Next

\* Any other step does to the change what it does to the round.
LEMMA RoundStepRefines ==
  ASSUME TypeInv, AgreeInv, AgreeInv', IdleNew, RoundStep, UNCHANGED identifier,
         subscriptions' \subseteq subscriptions,
         \/ subscriptions' = subscriptions
         \/ Open /\ round.phase = "COMMIT"
         \/ round'.id = round.id
  PROVE  [Change!Next]_Change!vars
<1>1. /\ round.phase \in Phases /\ round_counter + 1 # 0
      /\ OtherValid \subseteq Tickets \ {current}
  BY BoundsAssumption DEF TypeInv, TypeOK, CoreType, Rounds, PoolType, OtherValid
<1>2. CASE Kept
  <2>1. ChangePhase' = ChangePhase
    BY <1>2 DEF Kept, ChangePhase, Open
  <2>2. Change!Leave
    BY <1>2, <2>1 DEF Kept, Change!Leave
  <2> QED
    BY <2>2 DEF Change!Next
<1>3. CASE Decided
  <2>1. ChangePhase = "preparing" /\ ChangePhase' = "committing"
    BY <1>3 DEF Decided, ChangePhase, Open
  <2>2. current' = round.new /\ round'.new = round.new
    BY <1>3 DEF Decided, Select, AgreeInv
  <2>3. Change!Decide
    BY <2>1, <2>2 DEF Change!Decide
  <2> QED
    BY <2>3 DEF Change!Next
<1>4. CASE ~Open /\ Began
  <2>1. ChangePhase = "idle" /\ ChangePhase' = "preparing"
    BY <1>1, <1>4 DEF Began, ChangePhase, Open
  <2>2. round'.id # round.id
    BY <1>1, <1>4 DEF Began, Open
  <2>3. UNCHANGED <<current, subscriptions>> /\ round'.new \in Tickets \ {current}
    BY <1>1, <1>4, <2>2 DEF Began
  <2>4. Change!Prepare
    BY <2>1, <2>3 DEF Change!Prepare, Change!Begin
  <2> QED
    BY <2>4 DEF Change!Next
<1>5. CASE ~Open /\ Cleared
  <2>1. ChangePhase = "idle" /\ ChangePhase' = "idle"
    BY <1>5 DEF Cleared, ChangePhase, Open, NoRound
  <2>2. round'.new = round.new /\ current' = current
    BY <1>5 DEF Cleared, IdleNew, NoRound
  <2>3. Change!Leave
    BY <2>1, <2>2 DEF Change!Leave
  <2> QED
    BY <2>3 DEF Change!Next
<1>6. CASE Open /\ round.phase = "PREPARE" /\ Cleared
  <2>1. ChangePhase = "preparing" /\ ChangePhase' = "idle"
    BY <1>6 DEF Cleared, ChangePhase, Open, NoRound
  <2>2. round'.new = 0 /\ current' = current /\ round'.id # round.id
    BY <1>6 DEF Cleared, NoRound, Open
  <2>3. UNCHANGED subscriptions
    BY <1>6, <2>2
  <2>4. Change!Abandon
    BY <2>1, <2>2, <2>3 DEF Change!Abandon, Change!Rest
  <2> QED
    BY <2>4 DEF Change!Next
<1>7. CASE Open /\ round.phase = "COMMIT" /\ (Cleared \/ Began)
  <2>1. /\ ChangePhase = "committing" /\ current' = current
        /\ \/ ChangePhase' = "idle" /\ round'.new = 0
           \/ ChangePhase' = "preparing" /\ round'.new \in Tickets \ {current}
    BY <1>1, <1>7 DEF Cleared, Began, ChangePhase, Open, NoRound
  <2>2. ~(Open /\ round.phase = "COMMIT")'
    BY <1>7 DEF Cleared, Began, Open, NoRound
  <2>3. \A h \in subscriptions' : identifier[h] = current
    BY <2>1, <2>2 DEF AgreeInv
  <2>4. Change!Complete
    BY <2>1, <2>3 DEF Change!Complete, Change!Rest, Change!Begin
  <2> QED
    BY <2>4 DEF Change!Next
<1> QED
  BY <1>1, <1>2, <1>3, <1>4, <1>5, <1>6, <1>7 DEF RoundStep, Phases

LEMMA NextRefines ==
  ASSUME TypeInv, RoundInv, Known, AgreeInv, AgreeInv', IdleNew, [Next]_vars
  PROVE  [Change!Next]_Change!vars
<1>1. CASE NotifyCall
  BY <1>1, AdoptStep
<1>2. CASE Subscribe
  BY <1>2, JoinStep
<1>3. CASE /\ UNCHANGED identifier /\ subscriptions' \subseteq subscriptions
           /\ NotifyReturn \/ \E h \in Handles : Unsubscribe(h)
  <2>1. RoundStep
    BY NextRoundStep DEF TypeInv
  <2> QED
    BY <1>3, <2>1, LeavingKeepsRound, RoundStepRefines DEF TypeInv
<1>4. CASE UNCHANGED <<identifier, subscriptions>>
  <2>1. RoundStep
    BY NextRoundStep DEF TypeInv
  <2> QED
    BY <1>4, <2>1, RoundStepRefines
<1>5. UNCHANGED vars \/ NotifySkip \/ Trigger \/ (\E d \in LockDurations : Lock(d))
      \/ (\E k \in Locks : Unlock(k)) \/ Destroy \/ (\E d \in 1 .. MaxJump : Tick(d))
      \/ RoundTimeout \/ LockTimeout \/ Prune
      \/ (\E t \in Tickets : AddTicket(t) \/ ValidityPasses(t))
      => UNCHANGED <<identifier, subscriptions>>
  BY DEF vars, subvars, NotifySkip, Trigger, Lock, Unlock, Destroy, Tick, RoundTimeout,
         LockTimeout, Prune, AddTicket, ValidityPasses
<1>6. (\E r \in responders, code \in BOOLEAN : Respond(r, code))
      => UNCHANGED <<identifier, subscriptions>>
  BY DEF Respond
<1>7. NotifyReturn \/ (\E h \in Handles : Unsubscribe(h))
      => UNCHANGED identifier /\ subscriptions' \subseteq subscriptions
  BY DEF NotifyReturn, Unsubscribe
<1> QED
  BY <1>1, <1>2, <1>3, <1>4, <1>5, <1>6, <1>7 DEF Next, NotifyStep

\* The service implements IdChange: whatever is answered, late, lost,
\* unsubscribed, locked or destroyed, a change is prepared, then abandoned with
\* nobody moved, or decided and completed only when every subscriber that is
\* left uses the identifier the station signs with.
THEOREM ServiceIsAtomic ==
  ASSUME Documented, NoPruneInRound
  PROVE  Spec => ChangesAreAtomic
<1>1. Init => Change!Init
  BY TicketsAssumption DEF Init, Change!Init, ChangePhase, Open, NoRound
<1>2. Init => IdleNew
  BY DEF Init, IdleNew, NoRound
<1>3. /\ TypeInv /\ LockRounds /\ Known /\ [Next]_vars => LockRounds' /\ Known'
      /\ TypeInv /\ IdleNew /\ [Next]_vars => IdleNew'
  BY NextRoundStep, NextLocksGrow, NextLockRounds, NextKnown, NextIdleNew DEF TypeInv
<1>4. TypeInv /\ RoundInv /\ AgreeInv /\ [Next]_vars => RoundInv' /\ AgreeInv'
  BY NextInv, NextAgree
<1>5. TypeInv /\ RoundInv /\ Known /\ AgreeInv /\ AgreeInv' /\ IdleNew /\ [Next]_vars
      => [Change!Next]_Change!vars
  BY NextRefines
<1> QED
  BY <1>1, <1>2, <1>3, <1>4, <1>5, InitType, NextType, InitRound, InitAgree, InitLockRounds,
     InitKnown, PTL DEF Spec, ChangesAreAtomic, Change!Spec
=============================================================================
