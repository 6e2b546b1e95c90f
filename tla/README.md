# A TLA+ verification project for vanetza-idf

vanetza-idf is a C++17 ITS-G5 (V2X) protocol stack for ESP-IDF, built on
Vanetza. This directory models the parts of it in which several activities meet
(requests, received packets, timers, hooks, an identifier change in progress),
checks the models with TLC and proves the most important results with TLAPS.

Contents: [the system](#1-the-system), [modules and code](#2-modules-and-code),
[runs](#3-runs), [proofs](#4-proofs), [findings](#5-findings),
[limits](#6-what-is-not-modelled), [plan](#7-plan).

## 1. The system

A station runs one task. `ManualRuntime` keeps scheduled callbacks;
`Stack::advance(t)` moves its clock and runs what is due, in order of deadline.
Everything else is a call from the application or from the radio. There is no
preemption: what interleaves are events (calls, timers, received packets) and,
inside an event, callbacks that re-enter the component that called them.

```
 Facilities codecs -> BTP -> GeoNetworking router -> DCC -> access layer
                               |        ^
                   security entity   identifier change service
                    (sign, verify)    (PREPARE / COMMIT / ABORT hooks)
```

| Component | State | Operations | What is hard | What makes it correct |
|---|---|---|---|---|
| Identifier change service (`identity_manager.cpp`) | subscriptions, open round, queued trigger, locks, two timers | trigger, subscribe, unsubscribe, respond, lock, unlock, timeouts, destruction | hooks re-enter `notify()`; answers late, doubled or missing; locks and rounds overlap | a round is atomic, timed, counted once; everybody uses the identifier the station signs with |
| Certificate pool (`security.cpp`) | tickets, current ticket | add, select, next_valid, prune | tickets expire between PREPARE and COMMIT | the ticket in use is in the pool |
| CBF buffer and counters (`cbf_packet_buffer.cpp`, `cbf_counter.cpp`) | packets, timers, bytes, duplicate counters, one runtime timer | add, update, remove, fetch, flush | head drop and timer updates behind the runtime's back | a packet leaves when its timer expires; contention ends |
| Packet lifetime (`lifetime.cpp`, `pending_packet.hpp`) | one octet in the header | encode, decode, reduce | rounding to steps of 50 ms to 100 s | a packet does not outlive its lifetime |
| Router (`router.cpp`) | position, address, sequence number, beacon timer | request, indicate, beacon, position, address | flushes forward packets that are stored again; the station crosses the border of the area | a packet is forwarded once; own frames carry the current identifier; the station announces itself |
| Forwarding buffer (`packet_buffer.cpp`) | packets with expiry | push, flush | re-entered by what it flushes | bounded; nothing expired leaves it |
| Location table, duplicate lists | soft state per peer | update, expire, check | entries expire while packets wait | neighbours and duplicates are known |
| DCC flow control (`flow_control.cpp`) | queues per profile, scheduled triggers | request, trigger, reschedule, queue_length | the budget changes after a trigger was scheduled | queued packets leave, in order, in time, within the rate |
| Reactive rate control | burst and interval budgets | delay, notify, update | boundaries of intervals | rate |
| Signing header policy (`sign_header_policy.cpp`, `peer_request_tracker.cpp`) | inclusion timers, pending requests, last signer | prepare_header, requests, reset | a ticket changes behind its back; a refused signature has used the timer | peers can resolve what is sent by digest |
| Security entity (`security.cpp`) | certificate cache, announced signers, learned authorities, verified tickets, replay window | encapsulate, decapsulate, policy | caches outlive what they were filled under; lost requests; restarts | only authorised messages are accepted, once; signers get resolved |
| Chain rules (`security.cpp`, namespace consistency) | none | chain_consistent, region_within | rules compare neighbours only | the lowest certificate gains nothing |
| Trust, credentials (`security.cpp`, `credentials.cpp`, `pki.cpp`) | roots, authorities, revocations, tickets, a file | add, apply, save, load, erase, lists | power failure while saving; partial application | a ticket comes with its chain |
| PKI messages, HIL, access, management | sessions, serial decoder, radio queue | | | not modelled |

`PROJECT.json` lists every component, also those left out, with the reason, and
under "hazards" what can go wrong where, with the properties that would notice.

Interactions: a received message is verified against the trust configuration and
the caches, may ask peers for certificates and bring some; what is missing is
asked for in the next own CAM. The router asks the security entity to sign (refused between
PREPARE and COMMIT), hands packets to DCC, keeps packets in the forwarding and
CBF buffers until a timer, a received packet or a PREPARE flushes them; the
service calls the stack's hook, which flushes the router's buffers, then gives
it a new address; the runtime calls everybody's timers.

## 2. Modules and code

Names follow the source. `Foo_Bar` next to `Foo` is a *deviation*: a plausible
bug, used only to show that a property notices it. Times are relative: ticks
left or ticks since.

**IdentityManager** (`identity_manager.cpp`, the pool of `security.cpp`, the hook
of `stack.cpp`). `frames` is the stack of active `notify()` calls; all its calls
are tail calls, so a frame (command, round, handles still to call, hook that is
running) is all there is to continue with. `NotifySkip`, `NotifyCall` and
`NotifyReturn` are the loop; `Respond`, `Subscribe`, `Unsubscribe`, and with
`Allowed = {"reentrant"}` also `Trigger`, `Lock`, `Unlock`, may happen while a
hook runs. `TryStart`, `Advance`, `Finish`, `Abort` are the functions of the
code; `RoundTimeout`, `LockTimeout`, `Tick`, `Destroy` the timers and the
destructor; `AddTicket`, `ValidityPasses`, `Prune` the pool. Subscribers keep
what `Stack::Impl` keeps: identifier and `change_pending`. A responder stays in its
subscriber's hands and may be answered again at any time (`answered`, history, keeps
the first answer of each). A ticket's validity ends twice, where `valid_at_timepoint()`
and where `prune()` has it (`Validities`). `Allowed` names what the environment does
beyond the documented use: re-entrant calls, pruning in a round.

**IdChange** is what the service promises, without hooks, answers, timers or locks:
a change is prepared, then abandoned with nobody moved or decided; the station
moves with the decision, members afterwards, and the change is complete when all
that are still members have moved. `ChangesAreAtomic` in IdentityManager is its
`Spec` under the mapping `ChangePhase`, `round.new`, `current`, `subscriptions`,
`identifier`: IdentityManager implements it.

**Lifetime**: `Encode` (rounding to the wire format, one range of the field,
`Quantum` ticks per step) and `ReducedLifetime`.

**CbfPacketBuffer** (`cbf_packet_buffer.cpp`, `cbf_counter.cpp`, the contention
algorithms of `router.cpp`): `Receive` is a packet given to area CBF, non-area
CBF or ADVANCED forwarding, `Flush` one call of the timer callback (it takes out
all expired packets), `Fetch` and `Tick` the rest. Positions are abstracted to
what the algorithms read off them. Head drop leaves an iterator dangling
(`cbf_packet_buffer.cpp:120`): both outcomes of the comparison are possible. `excess`
(lifetime gained by rounding, against `Remaining`, what is left without it) and
`last_sent` are history.

**Router** (`router.cpp`, `packet_buffer.cpp`, `location_table.cpp`,
`soft_state_map.hpp`, `duplicate_packet_list.cpp`, `stack.cpp`): a received packet
is `Indicate` (clean up, take the forwarding buffer out), then one `Flush` per
packet taken out, then one of `IndicateSingleHop`, `IndicateMultiHop`,
`IndicateMalformed`; `Idle` keeps other events out meanwhile, as the single task
does. The split avoids a fold over the buffer, so that each step can be proved
about. `Request`, `BeaconTimer`, `CbfTimer`, `CbfDrop`, `PositionFix`, `Prepare`,
`EndChange`, `Tick` are the other events. A stored packet carries `stage`, the
closure that flushing calls: transmit, forward, or greedy. There is one
destination area, one place; a position is its distance. `left` is the lifetime a
packet really has left, `life` what its header says. The contention buffer is a
set from which any packet may be sent or dropped at any time; its timing is in
CbfPacketBuffer.

**TransmitRateControl** and **FlowControl** (`dcc/`): the two budgets as ages of
the messages they remember; `Request`, `Trigger`, `Reschedule`, `QueueLength`,
`ChannelLoad` and `Tick`. `triggers` is a bag: the runtime may hold several
scheduled calls.

**PeerRequestTracker**, **SignHeaderPolicy** (`peer_request_tracker.cpp`,
`sign_header_policy.cpp`): functions on the state of one tracker and one policy.
Inclusion times are ages that stop at one second. **CertificateDistribution**
composes several stations with them: `Send` is one signed message and its
verification by all that hear it (`Deliver`: `LearnAuthority`, `Announce`,
`P2pRequests`, `Resolve`, `Bounded`, the order of `verify()`); `SignRefused`,
`ChangeTicket`, `NewCamSigner`, `Restart` and `Tick` are the rest. `shown` is when a
ticket was last sent in full, `spoilt` when a message that would have carried it was
last refused (history).

**ChainConsistency** (`security.cpp`, namespace consistency): the permission and
region rules as operators. An octet is the set of its 1 bits; first matches in
lists are kept. **ChainRules** (`ChainSpec`) builds chains issuer by issuer as the
rules allow and compares their ends with a reference (`Permits`, `Extent`).

**TrustConfiguration** (`security.cpp`, `credentials.cpp`, `pki.cpp`): what a
station holds as a record, each operation a function; the credential bundle as
its records. **VerifyService** composes ChainConsistency and TrustConfiguration
into a receiving station: `Receive` is `verify()` of one message with all it
changes (learned authorities, verified tickets, cache, replay window); `ApplyCtl`,
`ApplyCrl`, `SetVerificationPolicy`, `Provision`, `Erase`, `Restart`, `PowerFails`
(the file is left with any prefix of the bundle) and `Tick`. Signatures of
certificates verify; that of a message unless it was damaged. A validity period is a
start and a duration in some unit, as in the certificate, and its end is computed as
the code computes it, in two ways: `Expiry` is what `valid_at_timepoint()` enforces,
exact and with years of 31556952 s; `end_validity` is what `check_time_consistency()`
compares between subject and issuer, from `get_start_and_end_validity()`: whole
seconds, years of 365 days, modulo 2^32. `Second`, `Year`, `CalendarYear` and `Time32`
are the numbers of this arithmetic.

**Selection**: the elements of a list at given positions, the loops that drop expired
packets, take out those to send, discard requests and pick the records of one type.
`*Proofs` modules hold the theorems of the module they are named after.

**MC\*** modules give model values, inputs and symmetry sets. MCVerifyService holds
VerifyService and ChainRules side by side: an initial state begins one or the other.

## 3. Runs

| Run | Checks | Bounds |
|---|---|---|
| identity_service | two-phase commit with answers in hooks, late, twice, or never; refinement of IdChange; locks, a changing pool, liveness | 2 subscribers, or 1 and 2 locks; 2 rounds, 2 tickets, of which one comes and goes |
| identity_lost_trigger | finding | |
| identity_answer_twice | finding | 1 subscriber, 1 round |
| cbf_timing | timing with fading counters | 3 packets |
| cbf_capacity | consistency, head drop, ADVANCED, rounding, liveness | 3 packets of 1 or 3 bytes, buffer of 2 |
| router_forwarding | store, flush, duplicates, beacons, identifier change | 2 peers, 2 addresses, 2 positions, 7 inputs, buffer of 2, duplicate list of 1 |
| router_lifetime | finding | |
| dcc_queues | queues, order, expiry, liveness | 4 requests, 2 profiles, 2 intervals |
| dcc_rate | finding | |
| distribution_peers | header policy, requests, liveness | 2 stations, 3 tickets, 3 authorities, trackers of 2, cache of 1, 1 learned authority, 2 disruptions |
| distribution_refused | finding | 1 disruption |
| verify_receiver | verification, caches, replay, provisioning; permission and region rules | 4 authorities on 2 levels, 6 tickets, 15 messages, caches and window of 1, 3 accepted, 3 events, 3 instants; chains of 4, about 40 permissions and 40 regions |

Why the bounds are enough: two subscribers let one answer while the other is
being called or silent; two rounds let an answer of the first arrive in the
second, and a responder of PREPARE be used again in COMMIT; two locks let the later
one expire first. Subscribers meet each other without locks, and one of them meets
both locks (`MaxHandles`): what a lock does to a round does not depend on how many are
asked. Three packets let head drop
remove the first while a third waits behind the second. Two peers are a source
and a forwarder of the same packet, so copies arrive by two ways; a duplicate
list of one element and a location table lifetime of one tick make both ways of
forgetting a packet happen; a buffer of two makes head drop and re-storing
happen in the same flush. Two intervals and one burst of two reach every branch
of the budgets. One station of the two knows all authorities and the other one only,
so a ticket and then its issuer have to be asked for; the two tickets of the first have
different issuers, and the second has room for one certificate in its cache and for one
learned authority, so a change of ticket empties the cache and evicts what was learned
before; two
disruptions let an answer be lost after a restart, or a ticket change follow a refusal.
Caches and a window of one element overflow with the second; a path with two
authorities lets one be learned through the other and evict it. A second has two ticks,
a year is twice as long to one reckoning as to the other, and Time32 has eight values,
so that within three instants an authority expires while tickets below it are valid:
one whose end wraps, one that lasts a year, one whose end is visibly later; another is
never valid. Three events let a list be replaced, a policy changed and changed back, or
a power failure follow a provisioning and be followed by a trust list. Four certificates are the longest chains that
have a middle on both sides. Counters and ages stop where the code stops telling them apart
(`Aged`, `MaxExcess`, `MaxQuiet`); `MaxRounds`, `MaxLocks`,
`MaxSubscriptions`, `MaxHandles`, `MaxRequests`, `MaxJump`, `MaxDisruptions`, `MaxEvents`,
`MaxAccepted`, `MaxTime`, `MaxChain` bound the rest.

What they show:

- *Identifier change.* `ChangesAreAtomic`: whatever hooks, answers, timers and
  locks do, station and subscribers move together or not at all.
  `CommitNeedsAllYes`: COMMIT only
  after every subscriber said yes, the first time, to this round's PREPARE, late and
  repeated answers notwithstanding. (In COMMIT repeated answers do count: section 5.)
  `OpenRoundIsTimed`, `RoundEnds`: no round stays open.
  `PendingFlagsMatch`, `SubscribersAgree`: nobody is left refusing requests or
  with another identifier. `RoundsAccountedFor`, `NoTimerAfterDestroy`,
  `LockTimerCoversLocks`, `LockKeepsIdentifier`, `QueuedTriggerRuns`.
- *Contention.* `Consistent`, `FlushIsComing`, `NothingOverdue`,
  `RepeatsAreApart`, `RoundingIsBounded`, `ContentionEnds`.
- *Router.* `ForwardedOnce`: without contention a packet is sent on at most once
  unless the duplicate list lost it. `OwnFramesAreCurrent`: no frame of the
  station's own under an old identifier or during a change, also for packets
  stored before it. `FlushLeavesOnlyGreedy`, `TypeOK`: a flush that is
  re-entered keeps nothing it could send and keeps its limit. `BeaconsAreSpaced`, `SilenceIsBounded`:
  SHB packets stand in for beacons and silence is bounded.
- *DCC.* `TriggerIsComing`, `NothingStaleIsSent`, `SentInOrder`,
  `QueuesAreBounded`, `QueuedPacketLeaves`.

- *Certificate distribution.* `DigestIsExplained`: a ticket is named by digest only
  when a message of the last second carried it, or would have carried it and was
  refused. `SignersGetResolved`: stations that hear each other come to hold each
  other's ticket and chain again and again, though caches are emptied and learned
  authorities evicted. `TypeOK` includes that a tracker's
  queue and index agree and that caches keep their limits.
- *Verification.* `AcceptedIsAuthorised`: at the moment a message is accepted its
  ticket is in its validity period, its chain is known, anchored, not on the revocation
  lists as they stand, consistent in permissions and regions, whatever was cached
  before, and no issuer has expired for longer than the `Shortfall` of the ticket, the
  difference of the two reckonings of its end (0 for periods in seconds to sixty hours
  that end within Time32; the run reaches issuers that have expired, section 5). `ReplaysAreApart`: the same
  message is accepted again only after a window full of others or a restart.
  `TicketsComeWithChain`: however provisioning is interrupted, tickets come with their
  chain (some tickets of a bundle may be missing).
- *Chain rules.* `PermissionsNest`, `RegionsNest`: rules that compare neighbours
  bound the whole chain, with the exceptions they name.

Fairness. In CertificateDistribution stations keep sending CAMs that are heard
(weak fairness when the CAM carries the certificate, strong for one by digest:
they send faster than 1 Hz, so again and again within a second of a full one);
losses, restarts, changes and refusals are finitely many (`MaxDisruptions`),
as for any liveness over a lossy channel. Elsewhere the application drives `Stack::advance()`; that is all that is assumed:
the clock advances, due callbacks run, a hook that was called returns (weak
fairness of `Tick` and of the callbacks). In FlowControl, fairness of `Tick` is
strong, because a request or a reschedule at the same instant may make another
trigger due and delay it; real time passes nonetheless. Nobody is obliged to
answer, to unlock or to request. The router runs are about safety only.

Deadlock is checked in the CBF and router runs. The other models may stop: the
manager is destroyed, a bound on rounds, requests, events or accepted messages is
used up, or a chain has reached a root nothing issues.

## 4. Proofs

Every theorem holds for all values of the constants that their named assumptions
allow: any number of tickets, subscribers, packets, stations, any limits, timeouts
and inputs. The assumptions give types and, where the code has them, that a
capacity is not 0; TLC evaluates them in the runs. "Assumes" lists what a theorem
needs beyond that.

**Identifier change** (`IdentityManagerProofs`)

| Theorem | Statement | Assumes |
|---|---|---|
| TypeCorrect | `Spec => []TypeOK` | |
| RoundsAreCounted | `Spec => []RoundsAccountedFor` | |
| LocksKeepIdentifier | `Spec => LockKeepsIdentifier` | |
| LockTimerCovers | `Spec => []LockTimerCoversLocks` | |
| RoundsAreTimed | `Spec => []OpenRoundIsTimed` | `Documented`: hooks do not call trigger, lock or unlock |
| NoDanglingTimer | `Spec => []NoTimerAfterDestroy` | `Documented` |
| FlagsMatchRound | `Spec => []PendingFlagsMatch` | `Documented` |
| CommitsAreUnanimous | `Spec => []CommitNeedsAllYes` | `Documented` |
| IdentifiersAgree | `Spec => []SubscribersAgree` | `Documented`, `NoPruneInRound`: no pruning in a round |
| ServiceIsAtomic | `Spec => ChangesAreAtomic` | `Documented`, `NoPruneInRound` |

`TypeInv` adds to the types that a trigger is queued only while a round is left.
`RoundInv` is the strengthening for rounds: `OpenRoundIsTimed` speaks of states with
no `notify()` running, so the invariant says which call owns the open round: an open
round belongs to at most one frame, the only one, that delivers its phase; the timer
runs only outside; a frame that expects answers has a round. `AgreeInv` adds who may
deviate: a subscriber whose identifier is not the current one is still on the list
of the COMMIT being delivered. `FlagInv` says the same of `change_pending`: a flag
outside an open PREPARE belongs to somebody a `notify()` has still to call.
`VoteInv` relates the responders in somebody's hands, used or not, to the open round
(`Unasked`, `Asked`, `AllYes`), which needs that rounds and handles are never
reused (`Known`); an answer that arrives late names a round that is no longer open, and
a second one in PREPARE a handle that is no longer outstanding.
`LockRounds` says that a lock held while a round is open was taken in it.
`RoundStep` classifies what a step does to a round (kept, begun, decided,
cleared), proved once for each action and used for the counters, the locks and the
refinement: every step of the service maps to a step of IdChange or to none. Each
action has its lemma; the helpers of the code (`TryStart`, `Advance`, `Finish`,
`Abort`) have theirs. Both assumptions are necessary: section 5 says what
happens without them.

**Contention** (`CbfPacketBufferProofs`)

| Theorem | Statement | Assumes |
|---|---|---|
| BufferTyped | `Spec => []TypeOK` | |
| BufferConsistent | `Spec => []Consistent` | |
| FlushAwaited | `Spec => []FlushIsComing` | |
| NothingLeftOverdue | `Spec /\ [][~ErasesFirst]_vars => []NothingOverdue` | `NoRestarts`: no ADVANCED forwarding inside the area |
| RoundingBounded | `Spec => []RoundingIsBounded` | contending counters |
| RepeatedApart | `Spec /\ [][~ErasesFirst]_vars => RepeatsAreApart` | `FadingCbf`: fading counters with the default limit 1, CBF, inside the area, timeouts within `MaxTime` |
| ReducedWithinHalfStep | `ReducedLifetime` is within `Quantum / 2` of `Remaining` | |

`Core` is the invariant of the buffer: list and timers have the same packets, each
once (`Matched`), the byte count is the sum over the list and within the capacity or
that of a single packet (`Listed`, `Fits`), counters are between 1 and their limit, and
the runtime has a timer while a packet is buffered (`Awaited`). Every operation comes
down to drawing some places of the list (`Drawn`): head drop keeps an end of it
(`EndDrawn`), removal all but one (`DroppedDrawn`), flush the packets that are not ripe;
`DrawnMatched` and the lemmas on sums (`PartBytes`, `ConcatBytes`, `SelectedBytes`) do
the rest.

`Gains` relates a lifetime to its counter: each unit above the first stands for half a
step that the lifetime may have gained. It needs contending counters, the default
(`vanetzaFadingCbfCounter` is false): a fading one may expire while its packet is
buffered, `counter()` is 0 again, and updates go on without the limit.

`OnTime` says that the runtime's timer is not later than any packet's. Both ways to
break it are in the code, and are the hypotheses of NothingLeftOverdue: `update()`, and
head drop of the first timer in `add()` (`ErasesFirst`: the comparison is undefined
there, and the new packet may be left without a timer of its own). `ErasesFirst` is a
statement about steps, so it restricts the behaviours and not the constants.

`Apart` follows a packet from its broadcast to the next: while it is buffered its counter
is at most as old as its timer (`Aged`), after it has left at most `Longest`, the longest
time in the buffer, older than its last broadcast; so a counter that is gone, and lets
the station contend again, tells that a counter lifetime has passed. `OnTime` is needed
for `Longest`.

**Chain rules** (`ChainRulesProofs`)

| Theorem | Statement | Assumes |
|---|---|---|
| PermissionsAlwaysNest | `ChainSpec => []PermissionsNest` | bitmaps are sequences of octets |
| RegionsAlwaysNest | `ChainSpec => []RegionsNest` | |

Both are inductive along the chain: the certificate just added contains the one
below it (`IssuesNest`, from `RangesNest` and `BitmapsNest`; `RegionWithin`, from
`EntriesNest` and `RegionInEntry`), which contains all below that. For regions the
invariant has to speak of every stretch of the chain, not only of its ends, so
that a stretch that begins above a certificate without a region is covered.

**Flow control** (`FlowControlProofs`)

| Theorem | Statement |
|---|---|
| FlowTypes | `Spec => []TypeOK` |
| QueuedPacketsAreTriggered | `Spec => []TriggerIsComing` |
| SentInTime | `Spec => []NothingStaleIsSent` |
| PacketsKeepOrder | `Spec => SentInOrder` |
| QueuesKeepLimit | `Spec => QueuesAreBounded` |

One invariant, `FlowInv`: the packets of a queue are numbered in increasing order,
above the last one sent and not above the last one requested (`Ordered`), which
dropping expired packets keeps; a bag of triggers holds one whenever a queue holds a
packet.

**Router** (`RouterProofs`)

| Theorem | Statement |
|---|---|
| RouterTypes | `Spec => []TypeOK` |
| SilenceBounded | `Spec => []SilenceIsBounded` |
| BeaconsSpaced | `Spec => BeaconsAreSpaced` |
| OwnFramesCurrent | `Spec => OwnFramesAreCurrent` |
| FlushLeavesGreedy | `Spec => []FlushLeavesOnlyGreedy` |
| ForwardsOnce | `Spec => []ForwardedOnce` |

`BeaconInv`: the time since the last announcement and the time left on the timer
add up to a delay that was chosen when the timer was set. `NoOwnContention`: own
packets never contend, so a contention timer sends nothing of the station's.
`OnlyGreedy`: while the flush is under way, what was put back has no next hop.
`CopyInv` carries the argument of duplicate detection: at most one copy of a packet
is in the buffer or being flushed, none after it was forwarded, none when the
duplicate list does not know it; and the entry of a source is not expired when the
packet that waits for the flush is looked up (`FreshTable`), since cleaning up comes
first in `indicate_common()`.

**Verification** (`VerifyServiceProofs`)

| Theorem | Statement | Assumes |
|---|---|---|
| VerifyTypes | `Spec => []TypeOK` | |
| AcceptedAreAuthorised | `Spec => []AcceptedIsAuthorised` | |
| ReplaysStayApart | `Spec => []ReplaysAreApart` | |
| TicketsKeepChain | `Spec => []TicketsComeWithChain` | `BundlesHaveChains`: a bundle holds the chains of its own tickets |

`TypeInv` bounds caches and says what a readable file decodes to. `WindowInv`: the
replay window is the end of the log of accepted messages. `SoundInv`: for every
remembered ticket the permissions and regions along its path were consistent under
the policy that was in force; the rest of the judgement is made anew for every
message (`AnchoredChainIsPath`: the chain the validator climbs is the ticket's path,
whatever was learned or evicted). Of the validity of issuers it knows only
`end_validity` along the path, which is not `Expiry`; `Reckoning` (`end_validity` in
ticks is at most `Expiry`, from `Parts` and `Multiples`) turns it into the bound by the
ticket's `Shortfall`. `ChainInv`: what the station holds has its chains,
and so has what the file decodes to, torn or not (`WrittenIsComplete`: a prefix of
the records loses tickets before it loses issuers). Without `BundlesHaveChains` the
statement is false at once: a bundle may bring a ticket alone.

**Certificate distribution** (`CertificateDistributionProofs`)

| Theorem | Statement |
|---|---|
| DistributionTypes | `Spec => []TypeOK` |
| DigestsAreExplained | `Spec => []DigestIsExplained` |

`TypeInv` says that trackers hold no request twice (`AppendOnce`, `DiscardKeeps`,
`RestKeeps`: adding, discarding and taking out keep it) and that caches keep their
limits at the end of `verify()` (`HalfEntity`: not in between). `TimerInv` is the
strengthening for digests: every inclusion timer below one second belongs to the
present signer, of which a message in full was sent or refused no longer ago than
the timer tells (`TimersExplained`). It is needed because `DigestIsExplained` speaks
of the next message only; the timers of all profiles share one signer. The proof
shows that reception never touches timers or signer (`SameTimers`) and that
`prepare_header()` either resets, keeps or restarts them (`Prepared`). Generic
ITS-AIDs are assumed to be none of those with a profile of their own.

**Lists** (`SelectionProofs`). A lemma for the others, `SelectedPlaces`, says what walking through a list and
keeping some of its elements computes: those elements, all of them, in order. The
walk is written as a recursive function and not with `SelectSeq`, and induction over
its length is done by taking the least place where a statement fails
(`LeastNumber`), since the library's induction theorems cannot be applied to a
predicate. Adding up the bytes of a queue (`SumExists`, `Determined`), climbing a chain, applying a bundle and adding the requests of a CAM are
treated in the same way.

Only model-checked: liveness (`RoundEnds`, `QueuedTriggerRuns`, `ContentionEnds`,
`QueuedPacketLeaves`, `SignersGetResolved`), which is out of the prover's reach. Every
invariant and every action property of a passing run is stated by a theorem.

## 5. Findings

With a run:

- *Lost trigger* (`identity_manager.cpp:135`): `abort()` does not take up a
  trigger queued during the round.
- *Second answer* (`identity_manager.cpp:106`): a PREPARE responder that is used again
  in COMMIT counts as the answer to COMMIT, against `id_change.hpp:40` ("Responding
  twice [...] is ignored").
- *First message* (`v3/sign_service.cpp:29`): a refused signature has restarted the
  inclusion timer (the ticket is checked at `:31`), so the first message signed with a
  new ticket names it by the digest, against `sign_header_policy.cpp:132` and
  `security.hpp:224`. That is the second alternative of `DigestIsExplained`.
- *Rate* (`flow_control.cpp:41`): `trigger()` sends without asking the budget.
- *Lifetime* (`pending_packet.hpp:79`, `router.cpp:795`): frequent flushes round
  the reduction of a stored packet's lifetime away; it never expires.

Seen in the code, or by a change of a run's constants, and without a run of their
own:

- Re-entrant hooks (`identity_manager.cpp:85`): a hook that triggers a change
  during ABORT leaves a round that nothing ends. `Allowed = {"reentrant"}` in
  `IdentityManager_service.cfg` violates `OpenRoundIsTimed` and `NoTimerAfterDestroy`.
- Late CBF timer (`cbf_packet_buffer.cpp:134`): `update()` leaves the runtime's timer
  behind; `NothingOverdue` does not hold with ADVANCED (`CbfPacketBuffer_capacity.cfg`),
  which is why NothingLeftOverdue assumes `NoRestarts`.
- Old packets (`router.cpp:795`): the flush on PREPARE puts greedy packets back,
  against `router.hpp:241`. They are sent with the new identifier later.
- Expired issuers (`certificate.cpp:299`): `get_start_and_end_validity()` takes a year
  for 365 days, where `valid_at_timepoint()` follows its comment ("one year is considered
  31556952 seconds according to IEEE 1609.2", `certificate.cpp:143`), 5.8 hours more, and
  its sums are of 32 bits. A ticket of one year below an authority of 8760 hours
  with the same start passes `check_time_consistency()`, and its messages are
  accepted for 5.8 hours after the authority has expired: nothing but this comparison
  looks at an issuer's period. With `now < Expiry(path[k])` in place of the bound,
  `AcceptedIsAuthorised` is violated in verify_receiver. `prune()` uses the same end, so it
  may drop a ticket that is still valid (`"ending"` in IdentityManager).
- A permissive policy made strict leaves tickets accepted that were verified before
  (`security.cpp:913` does not clear `verified_`; the history `lax`).
- `range_within` accepts a mask longer than the issuer's, and `nests` an "all" below
  an issuer that lists narrower ranges besides its "all" (`security.cpp:381`):
  `Comparable`. Tickets are not affected, since `chain_consistent` compares them with
  every ancestor.
- An authority without a region between a restricted root and a ticket with a
  region: the ticket's is compared with nothing (`security.cpp:524`). The comment of
  `region_within` (`security.hpp:161`, "issuer region but none on the subject: false")
  is not what the code does.
- `apply()` of a CRL ignores its age, and CRLs are lost by a restart; that of a CTL
  ignores deletions. `apply()` of a bundle stops at the first authority that is known
  already, so a second provisioning adds no tickets (`credentials.cpp:97`).
- A file torn at the border of two records decodes as a smaller bundle, against
  `credentials.hpp:23` ("Decoding fails closed on any deviation").
- Announced signers (`m_digests`) are not bounded by `certificate_cache_limit`.
- A ticket pruned between PREPARE and COMMIT is announced by COMMIT although
  `select()` fails (`identity_manager.cpp:119`). `Allowed = {"prune"}` in
  `IdentityManager_service.cfg` violates `SubscribersAgree`.
- A lock granted while a round is open does not keep the identifier
  (`LockKeepsIdentifier` says exactly which locks do).
- Head drop in the CBF buffer compares an erased iterator
  (`cbf_packet_buffer.cpp:120`), so a packet may leave late (`ErasesFirst` in the
  theorems); a packet larger than the buffer is stored when the
  buffer is empty.
- The drop hook of a full DCC queue reports the new packet (`flow_control.cpp:66`).
- A burst is cleared one tick after its end, together with messages just sent
  (`burst_budget.cpp:37`).
- `Limeric::schedule()` has no scope (`limeric.cpp:89`); `LimericBudget` starts
  from `time_point::min()` (`limeric_budget.cpp:57`).
- One refused signature stops beaconing until the next SHB packet
  (`router.cpp:726`). The flush on PREPARE loses the station's own stored packets,
  because signing is refused already.

## 6. What is not modelled

Within the router: packet repetition, duplicate address detection (Auto mode),
`Stack::set_address` (Managed mode), the GBC memory (of 128 packets in the port; it
decides what is passed up, not what is forwarded), data rates
and area sizes (a packet may be stopped for any reason), failing decapsulation
(the packet does not arrive), unsecured mode, bytes (the forwarding buffer counts
packets), the unicast buffer (nothing fills it), ADVANCED (it is in
CbfPacketBuffer). DEREG is treated like ABORT. Within a destination area distances
are not told apart. Lifetime is one range of the field.

Within security: limits, windows and tolerances that `set_verification_policy()`
changes at run time (`security.cpp:910`; they are constants here: after lowering one, a
cache stays above it until the next insertion), a replay window of 0 (the check is off), collisions of truncated
digests, report codes, events and statistics, a country database, a station that
moves, encryption, the NVS store, and in `check_profile()` all but the rule that a
DENM carries its certificate.

Not at all: generated ASN.1 code (about 400,000 of the 450,000 lines), crypto back
ends, geometry and other floating point code (areas, path history, LIMERIC), codecs
(headers, BTP, PKI messages, HIL frames), drivers, tools; see "components" in
`PROJECT.json`. They are functions of their input without state that several
activities share.

## 7. Plan

Done: all modules, their runs, and the proofs of section 4, which cover every safety
property of the runs. Not begun: the burst boundary (`burst_budget.cpp:37`) over a
window of the clock; repetition and the GBC memory; lifetimes that cross from one range
of the field to the next; sequence numbers after a restart (`router.cpp:149`: the peers'
duplicate lists still hold the old numbers).
