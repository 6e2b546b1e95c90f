--------------------------- MODULE IdentityManager ---------------------------
(***************************************************************************)
(* The identifier-change service of the security entity                    *)
(* (ports/esp_idf/src/identity_manager.cpp): a two-phase commit over the   *)
(* subscribers of the station, with locks, a response timeout and hooks    *)
(* that run re-entrantly inside notify().                                  *)
(*                                                                         *)
(* Everything happens in one task.  What interleaves are the steps of the  *)
(* notify() loops (the stack `frames', one frame per active call), the     *)
(* calls a hook makes while its frame is on top, the calls of the          *)
(* application between events, and the timers of the runtime.              *)
(* All calls of notify() in the code are tail calls, so a frame holds all  *)
(* there is to continue with.                                              *)
(*                                                                         *)
(* Every subscriber keeps the state of the GN core (Stack::Impl in         *)
(* stack.cpp): its identifier and its change_pending flag.  How and when   *)
(* it answers is its own business: in the hook, later, never.              *)
(***************************************************************************)
EXTENDS Integers, FiniteSets, Sequences

CONSTANTS
  Tickets,          \* authorization tickets, numbered in pool order
  InitialTickets,   \* those in the pool at the start; the least is current
  Changing,         \* those whose validity starts or ends while we watch
  MaxSubscriptions, \* bound: subscription handles ever given out
  MaxLocks,         \* bound: lock handles ever given out
  MaxHandles,       \* bound: pairs of how many subscriptions and locks together
  MaxRounds,        \* bound: rounds ever started
  LockDurations,    \* durations lock() is called with, in ticks
  ResponseTimeout,  \* response_timeout, in ticks
  MaxJump,          \* bound: ticks that one Stack::advance() may skip
  Off,              \* a timer that is not scheduled
  Allowed           \* what the environment does beyond the documented use

\* "reentrant": a hook calls trigger(), lock() or unlock()
\* "prune":     the pool is pruned while a round is open
EnvChoices == {"reentrant", "prune"}

ASSUME TicketsAssumption ==
  /\ Tickets \subseteq Nat \ {0}
  /\ IsFiniteSet(Tickets)
  /\ InitialTickets \subseteq Tickets
  /\ InitialTickets # {}
  /\ Changing \subseteq Tickets

ASSUME BoundsAssumption ==
  /\ MaxSubscriptions \in Nat
  /\ MaxLocks \in Nat
  /\ MaxHandles \subseteq Nat \X Nat
  /\ MaxRounds \in Nat
  /\ MaxJump \in Nat \ {0}
  /\ ResponseTimeout \in Nat \ {0}
  /\ LockDurations \subseteq Nat
  /\ Allowed \subseteq EnvChoices

ASSUME OffAssumption == Off \notin Int

VARIABLES
  subscriptions, \* handles subscribed now
  next_subscription,
  locks,         \* lock handle -> ticks until it expires (<= 0: expired)
  next_lock,
  round,         \* the open round; id 0 when there is none
  round_counter,
  pending_trigger,
  round_timer,   \* ticks until the round timer is due; Off when cancelled
  lock_timer,    \* likewise the lock timer
  frames,        \* active notify() calls, innermost last; Len = notify_depth
  stats,         \* Statistics
  alive,         \* FALSE once ~IdentityManager() has run
  pool,          \* tickets in the CertificatePool
  validity,      \* ticket -> where runtime.now() is in its validity, see Valid
  current,       \* CertificatePool::current()
  identifier,    \* subscriber -> identifier it uses (GN core: its MID)
  change_pending,\* subscribers whose change_pending flag is set
  responders,    \* responder objects given out; each may be answered again
  answered,      \* first answers to responders of the open round (history)
  lock_round     \* lock handle -> round_counter when it was taken (history)

core == <<frames, round, round_counter, pending_trigger, round_timer, stats,
          current>>
poolvars == <<pool, validity>>
lockvars == <<locks, next_lock, lock_timer, lock_round>>
subvars == <<subscriptions, next_subscription, identifier, change_pending,
             responders, answered>>
vars == <<core, poolvars, lockvars, subvars, alive>>

Commands == {"PREPARE", "COMMIT", "ABORT", "DEREG"}
Phases == {"PREPARE", "COMMIT"}
Handles == 1 .. MaxSubscriptions
Locks == 1 .. MaxLocks
NoRound == [id |-> 0, phase |-> "PREPARE", new |-> 0, outstanding |-> {}]

-----------------------------------------------------------------------------
(* The certificate pool: next_valid() and select().                        *)

\* The end of a ticket is reckoned twice: exactly by valid_at_timepoint(), in
\* years of 365 days and whole seconds by get_start_and_end_validity(), which
\* prune() compares with the whole second it is now.  "ending" is past the
\* second end only, "expired" past the first only, "over" past both.
Validities == {"future", "valid", "ending", "expired", "over"}
Valid(t) == validity[t] \in {"valid", "ending"}
PastEnd(t) == validity[t] \in {"ending", "over"}
Later ==
  {<<"future", "valid">>, <<"valid", "ending">>, <<"valid", "expired">>,
   <<"ending", "over">>, <<"expired", "over">>}

OtherValid == {t \in pool \ {current} : Valid(t)}

\* Round robin: the first valid ticket after the current one, then from the
\* start of the pool.  OtherValid = {} stands for nullptr.
NextValid(t) ==
  /\ t \in OtherValid
  /\ \A u \in OtherValid :
       IF (t > current) = (u > current) THEN t <= u ELSE t > current

\* The result of select() is ignored by advance(): an unknown digest leaves
\* the current ticket in place.
Select(t) == IF t \in pool THEN t ELSE current

-----------------------------------------------------------------------------
(* The steps of a round.  base is the stack of notify() frames below the   *)
(* call, r the round and subs the subscriptions as the caller left them.   *)

Top == frames[Len(frames)]
Below == SubSeq(frames, 1, Len(frames) - 1)
Expects(f) == f.command \in Phases

Frame(command, id, rid, subs) ==
  [command |-> command, id |-> id, round |-> rid, todo |-> subs, hook |-> 0]

\* The frame f once the loop has dealt with h; hook is the handle whose hook
\* runs, 0 for none.
Delivered(f, h, hook) ==
  [command |-> f.command, id |-> f.id, round |-> f.round, todo |-> f.todo \ {h},
   hook |-> hook]

\* The counters of IdentityManager::Statistics.
Counted(committed, aborted, timed_out, commit_failures) ==
  [committed |-> stats.committed + committed, aborted |-> stats.aborted + aborted,
   timed_out |-> stats.timed_out + timed_out,
   commit_failures |-> stats.commit_failures + commit_failures]

\* Deviation: the lock is not looked at.
CanStart_Locked(pending, locked, r) == pending /\ r.id = 0
\* Deviation: an open round is not looked at.
CanStart_Open(pending, locked, r) == pending /\ ~locked
CanStart(pending, locked, r) == pending /\ ~locked /\ r.id = 0

\* try_start()
TryStart(pending, locked, r, subs, base) ==
  IF CanStart(pending, locked, r)
  THEN /\ pending_trigger' = FALSE
       /\ IF OtherValid = {}
          THEN /\ round' = r /\ frames' = base
               /\ UNCHANGED round_counter
          ELSE \E next \in OtherValid :
               /\ NextValid(next)
               /\ round_counter' = round_counter + 1
               /\ round' = [id |-> round_counter + 1, phase |-> "PREPARE",
                            new |-> next, outstanding |-> subs]
               /\ frames' = Append(base, Frame("PREPARE", next,
                                               round_counter + 1, subs))
  ELSE /\ pending_trigger' = pending
       /\ round' = r /\ frames' = base
       /\ UNCHANGED round_counter

\* Deviation: a trigger queued during the round is left.
Finish_NoRestart(subs, base, failures, timeouts) ==
  /\ round_timer' = Off
  /\ stats' = Counted(1, 0, timeouts, failures)
  /\ round' = NoRound /\ frames' = base
  /\ UNCHANGED <<current, pending_trigger, round_counter>>

\* finish()
Finish(subs, base, failures, timeouts) ==
  /\ round_timer' = Off
  /\ stats' = Counted(1, 0, timeouts, failures)
  /\ UNCHANGED current
  /\ TryStart(pending_trigger, DOMAIN locks # {}, NoRound, subs, base)

\* advance()
Advance(r, subs, base, failures) ==
  \/ /\ r.phase = "PREPARE"
     /\ round_timer' = Off
     /\ current' = Select(r.new)
     /\ round' = [id |-> r.id, phase |-> "COMMIT", new |-> r.new,
                  outstanding |-> r.outstanding \cup subs]
     /\ frames' = Append(base, Frame("COMMIT", r.new, r.id, subs))
     /\ UNCHANGED <<round_counter, pending_trigger, stats>>
  \/ /\ r.phase = "COMMIT"
     /\ Finish(subs, base, failures, 0)

\* abort()
Abort(base, timeouts) ==
  /\ round_timer' = Off
  /\ round' = NoRound
  /\ stats' = Counted(0, 1, timeouts, 0)
  /\ frames' = Append(base, Frame("ABORT", round.new, 0, subscriptions))
  /\ UNCHANGED <<round_counter, pending_trigger, current>>

-----------------------------------------------------------------------------
(* The loop of notify().                                                   *)

Stale(f) == Expects(f) /\ round.id # f.round

\* A handle of the snapshot that has unsubscribed meanwhile.
NotifySkip ==
  /\ frames # <<>> /\ ~Stale(Top)
  /\ \E h \in Top.todo \ subscriptions :
     /\ \A k \in Top.todo : h <= k
     /\ round' = IF round.id # 0 /\ round.id = Top.round
                 THEN [round EXCEPT !.outstanding = @ \ {h}] ELSE round
     /\ frames' = Append(Below, Delivered(Top, h, 0))
  /\ UNCHANGED <<round_counter, pending_trigger, round_timer, stats, current,
                 poolvars, lockvars, subvars, alive>>

\* Deviation: the identifier is taken over at PREPARE.
OnIdChange_EarlyApply(h, command, id) ==
  /\ identifier' = IF command = "PREPARE" THEN [identifier EXCEPT ![h] = id]
                   ELSE identifier
  /\ change_pending' = IF command = "PREPARE" THEN change_pending \cup {h}
                       ELSE change_pending \ {h}
\* Deviation: ABORT leaves the flag.
OnIdChange_AbortIgnored(h, command, id) ==
  /\ identifier' = IF command = "COMMIT" THEN [identifier EXCEPT ![h] = id]
                   ELSE identifier
  /\ change_pending' = IF command = "PREPARE" THEN change_pending \cup {h}
                       ELSE IF command = "ABORT" THEN change_pending
                       ELSE change_pending \ {h}

\* The hook of the next subscriber: Stack::Impl::on_id_change().
OnIdChange(h, command, id) ==
  /\ identifier' = IF command = "COMMIT" THEN [identifier EXCEPT ![h] = id]
                   ELSE identifier
  /\ change_pending' = IF command = "PREPARE" THEN change_pending \cup {h}
                       ELSE change_pending \ {h}

NotifyCall ==
  /\ frames # <<>> /\ ~Stale(Top)
  /\ \E h \in Top.todo \cap subscriptions :
     /\ \A k \in Top.todo : h <= k
     /\ frames' = Append(Below, Delivered(Top, h, h))
     /\ OnIdChange(h, Top.command, Top.id)
     /\ responders' = IF Expects(Top)
                      THEN responders \cup
                           {[round |-> Top.round, handle |-> h, phase |-> Top.command]}
                      ELSE responders
  /\ UNCHANGED <<round, round_counter, pending_trigger, round_timer, stats,
                 current, poolvars, lockvars, subscriptions,
                 next_subscription, answered, alive>>

\* Deviation: COMMIT answers are not timed.
ArmRoundTimer_PrepareOnly(base) ==
  /\ round_timer' = IF round.phase = "PREPARE" THEN ResponseTimeout ELSE round_timer
  /\ frames' = base
  /\ UNCHANGED <<round, round_counter, pending_trigger, stats, current>>

\* Arms the round timer of an open round that still waits for answers.
ArmRoundTimer(base) ==
  /\ round_timer' = ResponseTimeout
  /\ frames' = base
  /\ UNCHANGED <<round, round_counter, pending_trigger, stats, current>>

\* The loop is over, or broken off because the round has ended.  The frame of
\* the destructor also clears the subscriptions.
NotifyReturn ==
  /\ frames # <<>> /\ (Top.todo = {} \/ Stale(Top))
  /\ IF Expects(Top) /\ Len(frames) = 1 /\ round.id # 0 /\ round.id = Top.round
     THEN IF round.outstanding = {}
          THEN Advance(round, subscriptions, Below, 0)
          ELSE ArmRoundTimer(Below)
     ELSE /\ frames' = Below
          /\ UNCHANGED <<round, round_counter, pending_trigger, round_timer,
                         stats, current>>
  /\ subscriptions' = IF Top.command = "DEREG" THEN {} ELSE subscriptions
  /\ UNCHANGED <<poolvars, lockvars, next_subscription, identifier,
                 change_pending, responders, answered, alive>>

-----------------------------------------------------------------------------
(* Calls of the service: by the application between events, or by the hook *)
(* that is running.                                                        *)

Calling == frames # <<>> => Top.hook # 0
Available == alive \/ frames # <<>> \* the Impl exists until DEREG is delivered
MayGive(subs, held) == \E max \in MaxHandles : subs <= max[1] /\ held <= max[2]
MayReenter == frames = <<>> \/ "reentrant" \in Allowed

\* Does the responder r still count?  It knows its round and its handle.
\* Deviation: the round of the responder is not compared.
Awaited_AnyRound(r) == round.id # 0 /\ r.handle \in round.outstanding
Awaited(r) ==
  round.id # 0 /\ round.id = r.round /\ r.handle \in round.outstanding

\* Has this responder been answered before, in the open round?
Answer(r, code) ==
  [round |-> r.round, handle |-> r.handle, phase |-> r.phase, code |-> code]
IsAnswered(r) == \E code \in BOOLEAN : Answer(r, code) \in answered

\* respond() and handle_response(): a responder knows its round and its handle,
\* not its phase, nor whether it has been used
Respond(r, code) ==
  LET left == round.outstanding \ {r.handle}
      failures == IF code THEN 0 ELSE 1
  IN
  /\ Calling /\ Available
  /\ r \in responders
  /\ \/ /\ ~Awaited(r)
        /\ UNCHANGED core
     \/ /\ Awaited(r) /\ ~code /\ round.phase = "PREPARE"
        /\ Abort(frames, 0)
     \/ /\ Awaited(r) /\ (code \/ round.phase = "COMMIT")
        /\ IF left = {} /\ frames = <<>>
           THEN Advance([round EXCEPT !.outstanding = left], subscriptions, frames, failures)
           ELSE /\ round' = [round EXCEPT !.outstanding = left]
                /\ stats' = Counted(0, 0, 0, failures)
                /\ UNCHANGED <<frames, round_counter, pending_trigger, round_timer, current>>
  /\ answered' = {a \in answered : a.round = round.id} \cup
                 (IF r.round = round.id /\ ~IsAnswered(r) THEN {Answer(r, code)} ELSE {})
  /\ UNCHANGED <<poolvars, lockvars, subscriptions, next_subscription,
                 identifier, change_pending, responders, alive>>

\* subscribe(), as Stack::Impl() calls it: the new subscriber takes over the
\* identifier in use.
Subscribe ==
  /\ Calling /\ Available
  /\ next_subscription <= MaxSubscriptions /\ MayGive(next_subscription, next_lock - 1)
  /\ subscriptions' = subscriptions \cup {next_subscription}
  /\ next_subscription' = next_subscription + 1
  /\ identifier' = [identifier EXCEPT ![next_subscription] = current]
  /\ UNCHANGED <<core, poolvars, lockvars, change_pending, responders, answered, alive>>

\* unsubscribe(); an unknown handle is refused and changes nothing
Unsubscribe(h) ==
  LET left == round.outstanding \ {h} IN
  /\ Calling /\ Available
  /\ h \in subscriptions
  /\ subscriptions' = subscriptions \ {h}
  /\ change_pending' = change_pending \ {h} \* the subscriber is gone
  /\ IF round.id # 0 /\ h \in round.outstanding /\ left = {} /\ frames = <<>>
     THEN Advance([round EXCEPT !.outstanding = left], subscriptions \ {h}, frames, 0)
     ELSE /\ round' = [round EXCEPT !.outstanding = left]
          /\ UNCHANGED <<frames, round_counter, pending_trigger, round_timer, stats, current>>
  /\ UNCHANGED <<poolvars, lockvars, next_subscription, identifier, responders,
                 answered, alive>>

\* trigger(); rejected when there is no other valid ticket
Trigger ==
  /\ Calling /\ Available /\ MayReenter
  /\ round_counter < MaxRounds
  /\ OtherValid # {}
  /\ TryStart(TRUE, DOMAIN locks # {}, round, subscriptions, frames)
  /\ UNCHANGED <<round_timer, stats, current, poolvars, lockvars, subvars, alive>>

\* Deviation: the oldest lock counts, not the earliest expiry.
ArmLockTimer_First(l) ==
  IF DOMAIN l = {} THEN lock_timer' = Off
  ELSE \E k \in DOMAIN l : (\A j \in DOMAIN l : k <= j) /\ lock_timer' = l[k]

\* arm_lock_timer()
ArmLockTimer(l) ==
  IF DOMAIN l = {} THEN lock_timer' = Off
  ELSE \E k \in DOMAIN l : (\A j \in DOMAIN l : l[k] <= l[j]) /\ lock_timer' = l[k]

\* on_lock_timer() on the locks l: expired ones are released
ReleaseExpired(l) ==
  LET kept == {k \in DOMAIN l : l[k] > 0}
      left == [k \in kept |-> l[k]]
  IN  /\ locks' = left
      /\ ArmLockTimer(left)
      /\ TryStart(pending_trigger, kept # {}, round, subscriptions, frames)

\* lock(); a lock of no duration is released at once
Lock(d) ==
  LET l == [k \in DOMAIN locks \cup {next_lock} |->
              IF k = next_lock THEN d ELSE locks[k]]
  IN
  /\ Calling /\ Available /\ MayReenter
  /\ next_lock <= MaxLocks /\ MayGive(next_subscription - 1, next_lock)
  /\ next_lock' = next_lock + 1
  /\ lock_round' = [lock_round EXCEPT ![next_lock] = round_counter]
  /\ IF d = 0
     THEN ReleaseExpired(l)
     ELSE /\ locks' = l
          /\ ArmLockTimer(l)
          /\ UNCHANGED <<frames, round, round_counter, pending_trigger>>
  /\ UNCHANGED <<round_timer, stats, current, poolvars, subvars, alive>>

\* unlock(); an unknown handle is refused and changes nothing
Unlock(k) ==
  LET l == [j \in DOMAIN locks \ {k} |-> locks[j]] IN
  /\ Calling /\ Available /\ MayReenter
  /\ k \in DOMAIN locks
  /\ locks' = l
  /\ ArmLockTimer(l)
  /\ TryStart(pending_trigger, DOMAIN l # {}, round, subscriptions, frames)
  /\ UNCHANGED <<next_lock, lock_round, round_timer, stats, current, poolvars,
                 subvars, alive>>

\* Deviation: the lock timer is not cancelled.
Destroy_KeepsTimer ==
  /\ alive /\ frames = <<>>
  /\ alive' = FALSE
  /\ round_timer' = Off
  /\ round' = NoRound
  /\ frames' = <<Frame("DEREG", current, 0, subscriptions)>>
  /\ UNCHANGED <<round_counter, pending_trigger, stats, current, poolvars,
                 lockvars, subvars>>

\* ~IdentityManager(): timers off, the round dropped, DEREG to everybody.
\* NotifyReturn of this frame clears the subscriptions.
Destroy ==
  /\ alive /\ frames = <<>>
  /\ alive' = FALSE
  /\ round_timer' = Off /\ lock_timer' = Off
  /\ round' = NoRound
  /\ frames' = <<Frame("DEREG", current, 0, subscriptions)>>
  /\ UNCHANGED <<round_counter, pending_trigger, stats, current, poolvars, locks,
                 next_lock, lock_round, subvars>>

-----------------------------------------------------------------------------
(* The runtime: Stack::advance() moves the clock by d ticks and then runs  *)
(* the due timers in the order of their deadlines.                         *)

Timers == {round_timer, lock_timer} \ {Off}
Due == {t \in Timers : t <= 0}
Elapse(t, d) == IF t = Off THEN Off ELSE t - d

Tick(d) ==
  /\ frames = <<>> /\ Due = {} /\ Timers # {}
  /\ round_timer' = Elapse(round_timer, d)
  /\ lock_timer' = Elapse(lock_timer, d)
  /\ locks' = [k \in DOMAIN locks |-> locks[k] - d]
  /\ UNCHANGED <<frames, round, round_counter, pending_trigger, stats, current,
                 poolvars, next_lock, lock_round, subvars, alive>>

\* on_round_timeout()
RoundTimeout ==
  /\ frames = <<>> /\ round_timer # Off /\ round_timer <= 0
  /\ lock_timer # Off => round_timer <= lock_timer
  /\ IF round.id = 0
     THEN /\ round_timer' = Off
          /\ UNCHANGED <<frames, round, round_counter, pending_trigger, stats, current>>
     ELSE \/ /\ round.phase = "PREPARE"
             /\ Abort(frames, 1)
          \/ /\ round.phase = "COMMIT"
             /\ Finish(subscriptions, frames, Cardinality(round.outstanding), 1)
  /\ UNCHANGED <<poolvars, lockvars, subvars, alive>>

\* on_lock_timer()
LockTimeout ==
  /\ frames = <<>> /\ lock_timer # Off /\ lock_timer <= 0
  /\ round_timer # Off => lock_timer <= round_timer
  /\ ReleaseExpired(locks)
  /\ UNCHANGED <<round_timer, stats, current, poolvars, next_lock, lock_round,
                 subvars, alive>>

-----------------------------------------------------------------------------
(* The application's side of the pool.                                     *)

\* CertificatePool::add()
AddTicket(t) ==
  /\ frames = <<>>
  /\ t \notin pool /\ \A u \in pool : u < t
  /\ pool' = pool \cup {t}
  /\ UNCHANGED <<core, validity, lockvars, subvars, alive>>

\* Deviation: the current ticket is not spared.
Prune_Current ==
  /\ frames = <<>>
  /\ round.id = 0 \/ "prune" \in Allowed
  /\ pool' = {t \in pool : ~PastEnd(t)}
  /\ pool' # pool
  /\ UNCHANGED <<core, validity, lockvars, subvars, alive>>

\* CertificatePool::prune()
Prune ==
  /\ frames = <<>>
  /\ round.id = 0 \/ "prune" \in Allowed
  /\ pool' = {t \in pool : t = current \/ ~PastEnd(t)}
  /\ pool' # pool
  /\ UNCHANGED <<core, validity, lockvars, subvars, alive>>

\* Time passes the start or one of the ends of a ticket's validity.
ValidityPasses(t) ==
  /\ frames = <<>>
  /\ t \in Changing
  /\ \E v \in Validities :
       <<validity[t], v>> \in Later /\ validity' = [validity EXCEPT ![t] = v]
  /\ UNCHANGED <<core, pool, lockvars, subvars, alive>>

-----------------------------------------------------------------------------
Init ==
  /\ subscriptions = {} /\ next_subscription = 1
  /\ locks = [k \in {} |-> 0] /\ next_lock = 1
  /\ round = NoRound /\ round_counter = 0 /\ pending_trigger = FALSE
  /\ round_timer = Off /\ lock_timer = Off
  /\ frames = <<>>
  /\ stats = [committed |-> 0, aborted |-> 0, timed_out |-> 0, commit_failures |-> 0]
  /\ alive = TRUE
  /\ pool = InitialTickets
  /\ validity \in [Tickets -> {"future", "valid"}]
  /\ \A t \in Tickets \ Changing : validity[t] = "valid"
  /\ current \in InitialTickets /\ \A t \in InitialTickets : current <= t
  /\ identifier = [h \in Handles |-> 0]
  /\ change_pending = {} /\ responders = {} /\ answered = {}
  /\ lock_round = [k \in Locks |-> 0]

NotifyStep == NotifySkip \/ NotifyCall \/ NotifyReturn

Next ==
  \/ NotifyStep
  \/ \E r \in responders, code \in BOOLEAN : Respond(r, code)
  \/ Subscribe
  \/ \E h \in Handles : Unsubscribe(h)
  \/ Trigger
  \/ \E d \in LockDurations : Lock(d)
  \/ \E k \in Locks : Unlock(k)
  \/ Destroy
  \/ \E d \in 1 .. MaxJump : Tick(d)
  \/ RoundTimeout
  \/ LockTimeout
  \/ \E t \in Tickets : AddTicket(t) \/ ValidityPasses(t)
  \/ Prune

Spec == Init /\ [][Next]_vars

\* The event loop drives the stack: hooks return, notify() loops go on, the
\* clock is advanced and due timers run.  Nobody is obliged to answer.
Fairness ==
  /\ WF_vars(NotifyStep)
  /\ WF_vars(\E d \in 1 .. MaxJump : Tick(d))
  /\ WF_vars(RoundTimeout)
  /\ WF_vars(LockTimeout)

FairSpec == Spec /\ Fairness

-----------------------------------------------------------------------------
(* Properties.                                                             *)

Rounds == [id : 0 .. MaxRounds, phase : Phases, new : Tickets \cup {0},
           outstanding : SUBSET Handles]
Frames == [command : Commands, id : Tickets \cup {0}, round : 0 .. MaxRounds,
           todo : SUBSET Handles, hook : Handles \cup {0}]
Statistics == [committed : Nat, aborted : Nat, timed_out : Nat, commit_failures : Nat]
Answers == [round : 0 .. MaxRounds, handle : Handles, phase : Phases, code : BOOLEAN]
Responders == [round : 0 .. MaxRounds, handle : Handles, phase : Phases]

CoreType ==
  /\ round \in Rounds
  /\ round_counter \in 0 .. MaxRounds
  /\ pending_trigger \in BOOLEAN
  /\ round_timer \in Int \cup {Off}
  /\ frames \in Seq(Frames)
  /\ stats \in Statistics
  /\ alive \in BOOLEAN

LockType ==
  /\ DOMAIN locks \subseteq Locks
  /\ locks \in [DOMAIN locks -> Int]
  /\ next_lock \in 1 .. MaxLocks + 1
  /\ lock_timer \in Int \cup {Off}
  /\ lock_round \in [Locks -> 0 .. MaxRounds]

SubscriberType ==
  /\ subscriptions \subseteq Handles
  /\ next_subscription \in 1 .. MaxSubscriptions + 1
  /\ identifier \in [Handles -> Tickets \cup {0}]
  /\ change_pending \subseteq Handles
  /\ responders \subseteq Responders
  /\ answered \subseteq Answers

PoolType ==
  /\ pool \subseteq Tickets
  /\ validity \in [Tickets -> Validities]
  /\ current \in pool

\* Every variable stays within its type: handles and round ids within their
\* bounds, and the current ticket always one of the pool.
TypeOK == CoreType /\ LockType /\ SubscriberType /\ PoolType

Open == round.id # 0
Unanswered(h, phase) ==
  LET r == [round |-> round.id, handle |-> h, phase |-> phase]
  IN  r \in responders /\ ~IsAnswered(r)

\* A round that is open while no notify() runs waits for somebody and has its
\* timer armed: notify() "advances or arms the timer itself", and a response
\* or an unsubscription that empties the set advances at once.  Otherwise the
\* station would stay between PREPARE and COMMIT for good and sign nothing.
OpenRoundIsTimed ==
  alive /\ Open /\ frames = <<>> => round.outstanding # {} /\ round_timer # Off

\* Two-phase commit: in PREPARE the manager stops waiting for a subscriber only
\* when it has answered, and once a round has reached COMMIT every current
\* subscriber that was asked has answered its PREPARE, and with true the first
\* time, whatever responders are used again or come late from earlier rounds.
CommitNeedsAllYes ==
  Open => \A h \in subscriptions :
    /\ Unanswered(h, "PREPARE") => round.phase = "PREPARE" /\ h \in round.outstanding
    /\ [round |-> round.id, handle |-> h, phase |-> "PREPARE", code |-> FALSE] \notin answered

\* Between rounds every subscriber uses the identifier of the ticket the
\* security entity signs with (TS 102 940 clause 6.5), whatever was aborted,
\* timed out, unsubscribed or subscribed on the way.
SubscribersAgree ==
  ~Open /\ frames = <<>> => \A h \in subscriptions : identifier[h] = current

\* No subscriber is left with change_pending set (refusing every request)
\* when no PREPARE is open, and none that was prepared sends during PREPARE.
PendingFlagsMatch ==
  frames = <<>> =>
    /\ change_pending \cap subscriptions # {} => Open /\ round.phase = "PREPARE"
    /\ Open /\ round.phase = "PREPARE" => round.outstanding \subseteq change_pending

\* Each round is counted exactly once, as committed or as aborted, except one
\* that is open or that the destructor dropped.
RoundsAccountedFor ==
  LET ended == stats.committed + stats.aborted IN
  alive => round_counter = ended + (IF Open THEN 1 ELSE 0)

\* No timer outlives the manager: its callback captures the Impl by `this'.
NoTimerAfterDestroy == ~alive => round_timer = Off /\ lock_timer = Off

\* The lock timer is always set to the lock that expires first, so an expired
\* lock never delays a queued trigger.
LockTimerCoversLocks ==
  alive => IF DOMAIN locks = {} THEN lock_timer = Off
           ELSE \E k \in DOMAIN locks :
                  lock_timer = locks[k] /\ \A j \in DOMAIN locks : lock_timer <= locks[j]

\* A lock taken before a round starts keeps the identifier: the identifier
\* changes only under locks that were taken while that round was open.
LockKeepsIdentifier ==
  [][current' # current => \A k \in DOMAIN locks : lock_round[k] = round.id]_vars

\* Every round ends, whether anybody answers or not (response timeout).
RoundEnds == \A n \in 1 .. MaxRounds : (round.id = n) ~> (round.id # n)

\* A trigger queued behind a lock or behind a COMMIT is taken up: finish(),
\* unlock() and the lock timer all call try_start().
QueuedTriggerRuns ==
  (/\ alive /\ pending_trigger
   /\ Open \/ DOMAIN locks # {}
   /\ Open => round.phase = "COMMIT") ~> (~alive \/ ~pending_trigger)

\* The open round as the phase of a change, see the module IdChange.
ChangePhase ==
  IF ~Open THEN "idle" ELSE IF round.phase = "PREPARE" THEN "preparing" ELSE "committing"

Change == INSTANCE IdChange WITH
  Identifiers <- Tickets, Members <- Handles, None <- 0,
  phase <- ChangePhase, next <- round.new, station <- current,
  members <- subscriptions, used <- identifier

\* The manager implements the promise of IdChange: whatever is answered, late,
\* lost, unsubscribed, locked or destroyed, a step of notify(), of a response
\* or of a timer is a step of an identifier change that is atomic for the
\* station and its subscribers, or no step of it.
ChangesAreAtomic == Change!Spec

(* What the documentation says and the code does not do.                   *)

\* id_change.hpp: trigger() "queues an identifier change; ... the two-phase
\* commit is invoked, after any lock is released".  abort() forgets a trigger
\* queued during the round: nothing calls try_start() again.
NoLostTrigger ==
  alive /\ frames = <<>> /\ ~Open /\ DOMAIN locks = {} => ~pending_trigger

\* id_change.hpp: "Responding twice, or after the phase finished (timeout, abort,
\* unsubscribe), is ignored."  So only the answer to the COMMIT of a round ends
\* the waiting for a subscriber in COMMIT.  handle_response() compares the round
\* and the handle: the PREPARE responder, used again, counts as that answer.
SecondAnswerIsIgnored ==
  Open /\ round.phase = "COMMIT" =>
    \A h \in subscriptions : Unanswered(h, "COMMIT") => h \in round.outstanding
=============================================================================
