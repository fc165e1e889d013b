# FreeSBC: TLA+ models, model checking and proofs

FreeSBC is a session border controller written in Go. It sits between public
SIP clients or carriers (the public plane) and a set of FreeSWITCH or Asterisk
nodes (the private plane), forwards the signalling of every call as a stateful
proxy that hides each side from the other, and relays the media through ports
of its own. This directory holds TLA+ models of its call core and of the services
around it, the TLC configurations that check them, and TLAPS proofs about them. `PROJECT.json`
lists the components, the runs, the mutants that show each property can fail,
the lines every definition models, the findings, the hazards and the theorems.

## 1. Inventory

Everything below `internal/`; `sipgo` (transactions and transports) and `pion`
(ICE, DTLS, SRTP) are libraries and outside.

| component | state | operations | properties that make it correct |
|---|---|---|---|
| call setup (`edge/invite.go`, `invite_leg.go`, parts of `dialog.go`) | the dialog record while early, the attempts of a failover series, the forks that answered, the hook that catches late 2xx | handle INVITE, try the next switch node, pump responses, refuse a fork, CANCEL (matched or orphaned), give up, drain | one final to the caller, CANCEL paired with INVITE, every 2xx settled, nobody left ringing, no call kept up that its caller gave up |
| call teardown and ACK watch (`ack.go`, `offerless.go`, `indialog.go`, `dialog.go`) | the confirmed record, the ACK owed, the answer owed, two timers, the media session | ACK, PRACK, BYE, expiry of either timer, a re-INVITE, media silence, shutdown, `endBy` | ended and reported once, both ends told, a lost ACK ends the call, a retransmitted ACK restates the answer |
| dialog table (`dialog.go`, `invite.go`, `edge.go`) | records by key, the slot counter, `closed` | begin, open, attach, confirm, end, close, closeAll, `Run` | the cap is exact, no merged request is served twice, shutdown leaves no record and no socket |
| RTP ports (`media/portpool.go`, `session.go`) | per plane a cursor and the ports in use; sockets | reserve, bind, allocate across both planes, start, close, release | a pair has one owner, ports stay in range, failures leak nothing, exhaustion is truthful |
| latching and relay (`media/session.go`, `relay.go`, `edge/media.go`) | per side and stream: expected host, named address, destination, latched source and its rank | seed, clear, relatch, accept a packet, point the media | the private leg is strict, SDP cannot steer the socket, the endpoint takes its stream back, media reaches the named address |
| in-dialog requests (`indialog.go`, `prack.go`, `message.go`) | none of their own; they read the dialog table | look up (confirmed, then early), gate, route, answer a BYE | nothing reaches a switch past admission, a dialog sticks to its node |
| mid-call offer/answer (`indialog.go`, `update.go`, `offerless.go`) | offer slots, owed answer, keys, applied media | re-INVITE, UPDATE, delayed offer, abandon, apply | one exchange at a time, slots freed, a refused offer leaves the media unmoved |
| registration (`register.go`, `location.go`, `registerproof.go`, `regguard.go`, `cooldown.go`) | bindings indexed by AoR, token and source; challenged nonces; the registrar breaker | proxy REGISTER, put, remove, prune, strike, probe | a token keeps naming one phone, indexes agree, caps hold, only credentials the edge challenged are counted, one probe at a time |
| subscriptions (`subscribe.go`) | table by Call-ID and by token | begin, confirm, lookup, refresh, end, drop with the binding | none outlives its registration, NOTIFY matched before the 2xx |
| shield (`shield/`) and admission (`admission.go`, `arrival.go`, `drain.go`) | bans, strikes per source and per AoR, buckets, summaries | strike, ban, clear, prune, allow, admit | tables bounded, a ban ends, evictions prefer the unlocked |
| streams and carrier connections (`stream.go`, `carrierconn.go`) | connection slots, deadlines, pooled dials | accept, prepare, read, close, ensure | counters exact, one dial per destination |
| carriers (`carrier.go`, `carrierdns.go`, `carrierreg.go`) | the resolved directory, registration tokens | refresh, apply, put, remove, classify | last good set kept, tokens name one node |
| WebRTC leg, SDES (`media/webrtc*.go`, `srtp.go`, `sdes.go`) | leg state, handles, keys | establish, keep, verify, close | no handle outlives the leg, no media before verification |
| HEP mirror (`hep/`, `hepmirror.go`) | bounded queue, connection, counters | send, drain, close | every packet is sent or counted |
| configuration (`config/`) | the current snapshot, the boot snapshot | load, reload, expand, validate | readers see one snapshot |
| admin server (`admin/`) | login sessions, failure windows per source | login, logout, basic authentication, render | guesses are charged exactly, lockouts last, sessions bounded and expire |
| SDP and SIP text (`sip/`, `sip/sdp/`, `hide.go`, `forward.go`, `topology.go`, `codecs.go`, …) | none | parse, build, rewrite one message | functions of one message |
| process (`edge.go` `Run`, `app/`, `cmd/`) | listeners, serving and housekeeping goroutines | bind, serve, wait, shut down | ready is honest, Run returns and leaves nothing |

How they meet. `sipgo` calls a handler on a goroutine of its own for every
request; a handler for an INVITE lives as long as the call is being placed.
Handlers, timers, the hooks of client transactions and the media watchdog meet
in the dialog record, under the one mutex of the dialog table, and give that
mutex up for everything that can block: writing to the network, binding
sockets, closing them, waiting for a response. A record owns a media session;
the session owns ports of the two pools; the relay's goroutines see the
session's latches under each latch's mutex. Shutdown closes the table, stops
the listeners and then sweeps the table. A REGISTER handler reads and writes the
location table around the registrar's answer; the table's hook tells the
subscriptions of bindings that went, after its lock is released. The shield, the
stream table, the carrier tables, the HEP sender and the admin limiter each have
a lock of their own and call no other under it.

What is hard. Nothing is persisted; the one thing that outlives a restart is what
others remember, the Contacts a carrier holds. The difficulty lies in what happens between two critical sections: a CANCEL while
the INVITE is being written, a 2xx while another is negotiated, a timer while
its ACK is handled, shutdown between an allocation and its attachment, a packet
between the two halves of a re-arming. `PROJECT.json` lists each such place as
a hazard with the properties that would notice it going wrong.

## 2. Modules

| module | models | proofs | runs |
|---|---|---|---|
| `CallSetup` | one INVITE being placed | `CallSetupProofs` | `setup_*` |
| `CallTeardown` | a confirmed call and everything that ends it | `CallTeardownProofs` | `teardown_*` |
| `DialogTable` | all calls, the cap, merged requests, shutdown | `DialogTableProofs` | `dialogs` |
| `InDialog` | where BYE, INFO, NOTIFY, REFER, MESSAGE, PRACK and UPDATE go | `ComponentProofs` | `dialogs` |
| `MediaPorts` | the port pools and the sessions that draw on them | `MediaPortsProofs` | `media` |
| `OfferAnswer` | re-INVITEs, UPDATEs and delayed answers on one dialog | `OfferAnswerProofs`, `ComponentProofs` | `media`, `offers_crossed` |
| `WebRtcLeg` | a browser's media leg and its session | `ComponentProofs` | `media` |
| `MediaLatch` | where one side's media goes | `MediaLatchProofs` | `latch_moves` |
| `Registrar` | location table, REGISTER handlers, subscriptions | `RegistrarProofs` | `registrar` |
| `AdmissionPool` | abstract: what a bounded table promises | `RegistrarProofs`, `ComponentProofs` (that it is implemented) | `registrar`, `dialogs` |
| `RegisterBreaker` | REGISTER series, cooldown and circuit breaker | `ComponentProofs` | `registrar` |
| `ConfigReload` | loading, watching and publishing the configuration | – | `media` |
| `EdgeRun` | `Server.Run` from its first bind to its return | `ComponentProofs` | `media` |
| `RateLimit`, `AorLocks`, `FrontDoor` | the shield's buckets and AoR table; what a public message meets | `ComponentProofs` | `services` |
| `Recency` | the order of a `container/list` that two of them evict by | `ComponentProofs` | `services` |
| `StreamConns` | stream connections, their slots and deadlines | `ComponentProofs` | `dialogs` |
| `StreamFramers` | the two framers | – | `services` |
| `CarrierConns`, `CarrierDirectory`, `CarrierRegs` | dials to, addresses of and registrations at carriers | `ComponentProofs` | `services` |
| `ProvReplay` | provisionals sipgo delivers out of order | `ComponentProofs` | `services` |
| `HepSender`, `AdminAuth` | the mirror's sender; the admin login | `ComponentProofs` | `services` |

All use the same conventions: every critical section of a mutex is one step,
every goroutine has a program point, work outside a lock is a step of its own,
and a variable marked *history* is read by properties only. An operator named
after a fault (`AttachAnyway` before `Attach`, `FirstWins` before `Better`, …)
is a mutant listed in `PROJECT.json`: nothing in the specification uses it, and
put in place of the operator after it, it makes TLC report the property it is
listed with.

An `MC…` module gives a model its instance. `MCDialogs`, `MCMedia`,
`MCRegistrar` and `MCServices` hold several models that share no state: a
variable `part`, chosen in the first state and never changed, says which one
moves. Nothing is composed by this; each part is checked as if alone, with its
own fairness.

A `…Parts` module (`DialogParts`, `MediaParts`, `RegisterParts`, `ServiceParts`)
instantiates the models that such a run checks and that are proved about, and
names what each promises, once: the `MC…` module and `ComponentProofs` both
extend it, so that TLC and the prover speak of the same formula. The
constants stay parameters there; the `.cfg` gives them values.

What is composed is composed inside a module: `Registrar` has the location
table, the REGISTER handlers, the connections that close under them and the
subscription table with its hook; `FrontDoor` the read filter, the shield's
verdicts, admission and the credential guard; `RegisterBreaker` the handlers'
series and the cooldown table; `OfferAnswer` three handlers, the ACK handler and
the owed timer; `EdgeRun` the listeners, `Run` and INVITE handlers in flight.

**CallSetup.** `h` is the handler's program point with the attempt and the
response in hand, `d` the dialog record, `hook` the late-2xx hook, `a` the
attempts' `sent`/`cancelled` flags, `ctx` the series context, `tasks` the
goroutines the handler and the hooks start (sending a CANCEL, ACK and BYE of a
refused 2xx, lingering for a final, closing the session). `caller`, `tx` and
`chan` stand for sipgo's transactions (external), `leg` for what each callee
fork believes. SDP is reduced to "can be anchored or not"; `Offerless` and
`BadEarly` choose the shape of the call, `Mishaps` names the rare events, of
which at most one befalls a call.

**ProvReplay** is the part of the pump that `CallSetup` leaves out: sipgo starts
a goroutine per response, so the transaction may see them in any order and
drops a provisional that comes after the final. Responses are their positions
on the wire, which is also the order of the record; what the final overtook is
replayed one response at a time, and the attempt may be cancelled in between.

**CallTeardown** begins where `CallSetup` has confirmed the record and is about
to relay the 2xx. `pc` gives the program point of every actor: the INVITE
handler's tail, one handler per ACK, a PRACK, both BYEs, both timers, the
media watcher, a re-INVITE, shutdown. All leave through `endBy` (points `end`,
`release`, `report`, `tell`). The re-INVITE carries its offer (one without is
`OfferAnswer`'s): it is refused 491 while an answer is owed, and otherwise drops
the answer kept for retransmitted ACKs (`beginReInviteOffer`, `dialog.go:807`),
which is why `AnswerRestated` lets an ACK go bare when `lastAck` is `"dropped"`. An
UPDATE's offer does the same (`dialog.go:788`) and is not an actor of its own.
`Endings` are the sets of optional actors a run puts together.

**DialogTable** keeps of a call only its record's state and its session, and
adds what calls share: the counter, the cap read from a configuration snapshot
that may be stale by the time it is used, the key of merged requests, and
`Run`'s return.

**InDialog** takes a request through `onInDialog` or `onPrackUpdate` one lookup
at a time, since each takes the table's lock anew, while records begin, fork,
are confirmed and end. A PRACK or UPDATE remembers the record that admitted it
(the `d` of `onPrackUpdate`) until its second lookup has been read. What may pass
is stated a second time without the handlers' order of checks; `past` and
`astray` are the methods that broke it. For PRACK and UPDATE two windows are
named, because the code leaves them open: `Gone` (the admitting dialog ended, or
another fork was confirmed, between the lookups) and `Crossed` (its own fork was
confirmed between the confirmed and the early half of the second).

**OfferAnswer.** `slots`, `owed` and `up` are the dialog's counters and owed
answer, `media`, `view` and `keys` say per side which exchange the anchor, the
endpoint and the cipher follow. Endpoints (external) obey RFC 3261 section 14
and RFC 3264: they send no offer beside an unfinished one and answer 491 to one
that crosses theirs. `OneApplier` is what `MediaLatch` assumes: `pointMedia` is
never run twice at once.

**MediaPorts** models `sweep` candidate by candidate, because all allocations
of a pool share its cursor: reservation is under the lock, binding is not, and
another process may have the port. A session has two closers, its owner and
the silence watchdog. The WebRTC leg draws on the public pool by the same
sweep and adds no new step.

**WebRtcLeg** follows `establish` handle by handle; `keep` stores a handle only
while the leg is open, and `Close` takes what is stored. `open` holds the
resources that exist, `ports` how often each port was given back.

**MediaLatch** models the two latches of one side and the handler that points
them, one `latch` method per step, with packets arriving in between. Hosts and
ports are small sets that tell apart what the code tells apart: the signalled
host, the SDP host, strangers, private and loopback addresses, the last port.

**Registrar.** A device stands for one (AoR, Call-ID) pair, a token for the
REGISTER that drew it. `loc`, `byToken`, `bySource` and `byIP` are the table
and its indexes; `store` is what the registrar (external) holds. A handler's
token is chosen before the registrar answers and used after; a binding may
expire, be refreshed or removed, or lose its connection in between. `removed`
and `dropping` are the tokens on their way from the hook to the subscriptions.

**AdmissionPool** is the abstract specification of a bounded table: an entry is
admitted once, and only while there is room both in the table and in the share of
the group it is charged to; it leaves and never comes back. `Registrar` implements
it with its subscription records (`SubsArePooled`; a group is a binding, the shares
are `MaxSubs` and `MaxPerBinding`) and `StreamConns` with its public connections
(`ConnsArePooled`; a group is an address); the refinement mappings are the
`INSTANCE`s `SubPool` and `PublicPool`.

**RateLimit** keeps the tokens a bucket has stored and how long ago that was, as
the code does, and computes the refill when it is used. A token is `Interval`
units, so that a tick refills `Rate` whole units whatever the two are. Three
histories are kept beside the table: `exact` is a limiter that drops no bucket,
`ahead` how many more requests were let through than it lets through for a key
that a full table pushed out, `own` a bucket of all that one vouched socket sends.

**AorLocks** keeps the strikes themselves beside the counters, so that a lock can
be compared with what it was opened for. The list order of both tables is the
relation of `Recency`: which of two entries was used last.

**FrontDoor** lets any host send a datagram in another's name; a stream's source
is its sender's. The network may deliver a credential twice, which is also how a
client that misses its answer retransmits. What the credential guard remembers of
a source ends: the whole record is evicted (`Evict`), a challenge is not found
when it is looked up (`RegisterStrike`'s first disjunct), the ring of struck
attempts has `Slots` places; so do bans, windows (`Expire`) and bindings
(`Unbind`). `blamed` and `forgotten` are histories: for what an honest host was
struck by address, and which attempts the guard no longer knows it has struck.

**StreamConns** has the listener's two ends apart, the accept loop and the drain
of the hand-over channel, and keeps `lastMsg` as the code does: unset until the
first read, which a WebSocket's pending upgrade request makes at once. `silent` is
the history it is compared with, the time since the last message. **StreamFramers** runs each framer beside a byte-by-byte
reader of the RFC, so that the property is an equality. **CarrierRegs** may
restart FreeSBC, which empties its table while the carrier keeps its Contacts.
**ConfigReload** has an operator who edits the file in place, half at a time, or
swaps a link on the way to it, and a kernel that reports only on directories
that are watched.

## 3. Runs

A call finishes and then nothing need happen, so deadlock is not checked; that
a process does not wait for ever is what the liveness properties say.

| run | instance | shows |
|---|---|---|
| `setup_failover` | 2 nodes, 1 fork each, INVITE without SDP, one mishap of three | `NothingLeftBehind` (CANCELs paired, nobody left ringing, no socket without a record), `OneFinal`, `NothingAfterAnswer`, `CallerAnswered` |
| `setup_forks` | 1 node, 2 forks | `AnswerSettled`, `GivenUpCallEnds` |
| `teardown_races` | delayed offer, answer in PRACK or ACK, both BYEs, a re-INVITE, shutdown | `EndedForOneReason` |
| `teardown_offerless` | delayed offer, an ACK and its retransmission, beside a BYE and media silence or beside a re-INVITE | `AnswerRestated`, `LostAckEnds`, `EndpointsTold`, `MediaAndCallEndTogether` |
| `dialogs` | 3 INVITEs, two merged, room for 2 calls, `max_sessions` 0, 1 or 5; one request against two calls of one Call-ID, one forked; three stream connections, a carrier's one of them, of two addresses | `AdmissionExact`, `ShutdownEndsAll`, `SocketsOwned`, `RequestsRouted`, `StreamsExact`, `ConnsArePooled` |
| `media` | 2 sessions on the range 5..10 (two pairs, odd and even ends); a re-INVITE, an offerless one and an UPDATE that cross; a leg with two closers; two edits or swaps of the configuration; 2 UDP sockets and a stream listener | `PortsSafe`, `ExhaustionTruthful`, `OffersApplied`, `LegReleases`, `ResourcesReturned` (the ports of a closed session, the offer slots of a dialog), `FileFollowed`, `NothingLeft`, `RunReturns` |
| `latch_moves` | 5 hosts, ports 1..3, two moves, one stream heard at a time | `SignalledOnly`, `TakenBack`, `MediaGoesHome`, `LearnedInTheEnd` |
| `registrar` | a phone with two addresses and a browser with two connections of one AoR, 3 REGISTERs, 2 SUBSCRIBEs with room for 2 and 1 per binding; 3 phones of one node, threshold 2 | `TablesAgree`, `BindingsHonest`, `BindingsReclaimed`, `SubsArePooled`, `OneProbe`, `NodesComeBack` |
| `services` | see `MCServices` | `ThrottledFairly`, `KeptUntilDue`, `CarriersReached`, `NothingLostOnTheWay`, `FramesSeen` |
| `setup_undrained`, `teardown_prack`, `offers_crossed` | the smallest that shows it | the findings of section 4 |

Several properties are conjunctions of named parts, each with its own comment
in the module that defines it; `TypeOK` is one of the parts.

Bounds. Failover needs a first and a next node, forks need two answers, a
merged request needs two INVITEs beside an unrelated one, contention for ports
needs a pool that two sessions exhaust, a move of the media needs an old and a
new address. Two records of one Call-ID, with a tag in common, are what a lookup
by one tag would confuse. A binding is put back or overtaken by a second
REGISTER of the same device; a third, of another device, moves the shared
counters. A table that evicts needs one entry more than it holds: three AoRs or
sources for two places. A breaker needs an attempt that made it open, a probe,
and one that comes late. Five responses with the final fourth leave room for a
provisional on either side of it. A rate below the interval refills half a token a
tick, so that buckets stand between two whole ones. Framers see every stream over their alphabet,
however long, cut into reads of 1 or 2; messages are capped at 8 bytes, frames at
2 and the upgrade at 6, so that both sides of each cap are met. The alphabet has the
16-bit length (126) and masked short frames, not the 64-bit length (127) nor
masked extended ones. Two SUBSCRIBEs meet the cap of a binding,
whose record may end and be replaced; the total cap of 2 does not bind there, and the
theorem covers every value of both. Two public connections of different addresses
and a carrier's meet the total, the carrier and the per-address cap, each 1. Three
messages at the front door are a challenge and two more of anybody's, each datagram
twice if it carries a credential: enough for two strikes, which ban where one is
forgiven, for a victim's and a forger's messages to mix, and for a ring of one struck
attempt to forget. `Flight` lets two of them be in the server's hands at once. Larger instances repeat these
pairings; where section 5 has a theorem for the property, it covers every size. The two latches of a side share no state but the handler's,
so hearing one stream at a time loses no behaviour that a property of one latch
can see. Every bound is a constant of its module, given in the `.cfg` or in the
`INSTANCE`.

Fairness. The Go scheduler runs every runnable goroutine and armed timers fire,
hence weak fairness of each goroutine's step and of each timer; a fork
retransmits its 2xx until it is ACKed (RFC 3261 13.3.1.4), hence weak fairness
of its delivery; time passes, hence weak fairness of `Age` and `Tick`. Phones
keep registering, which is why a breaker can close at all: `RegisterBreaker` has
weak fairness of a user's next REGISTER and strong fairness of the send that a
cooldown may switch off and on again. In `Registrar` lifetimes end and the
pruning goroutine runs. Nothing is assumed of a caller, a callee's decision, an
endpoint's packets, an operator's edits, a reload or shutdown. The parts of
`dialogs` and `services` state safety only and have no fairness.

## 4. What the checks found

Three places where the code does not do what its comments say, each shown by a
run that TLC refutes:

- `setup_undrained`: when a CANCEL races an unusable provisional, `pumpInvite`
  takes the return meant for a refused 2xx and does not drain; a 2xx that
  crosses the CANCEL is neither ACKed nor BYEd (`invite_leg.go:272`).
- `teardown_prack`: `armAckTimer` leaves the teardown to the owed answer's
  timer; an answer in a PRACK stops that timer, and a lost ACK has no backstop
  (`ack.go:60`).
- `offers_crossed`: a dialog remembers one owed answer. When both ends send a
  re-INVITE without an offer, the second takes the place of the first
  (`offerless.go:80`), whose exchange then never gives its offer slot back,
  although "Every true is paired with endReInviteOffer" (`dialog.go:799`). The
  attempt to prove `SlotsExact` found it: the invariant is inductive only
  when the delayed offers of a dialog all come from one end.

`AnswerSettled` and `LostAckEnds` also appear in passing runs, and `SlotsExact` is a
part of `OffersApplied`: they hold where the provisional is usable, where no
PRACK answers, and where only one end asks for offers.

Statements of comments and documents that TLC refutes as well, when the property
named is put in the place of a run's (the property it weakens passes in the run):

- `LiveCalleeKept` (`CallSetup`): `confirm` comes before `setRelayed2xx`. A
  retransmission of the confirmed dialog's own 2xx handled in between is
  refused, and the callee of a call that is up is sent a BYE
  (`invite_leg.go:105`).
- `FeedbackGoesHome` (`MediaLatch`): the RTCP latch is seeded with RTP+1 before
  the `a=rtcp` port and not re-armed when only that port differs; a packet from
  RTP+1 makes it final and the signalled RTCP address is refused
  (`media.go:656`).
- `OldSourceForgotten` (`MediaLatch`): after a completed move on the public leg a
  late packet of the old source latches again, and the media follows it until
  the new endpoint is heard (`session.go:178`).
- `KeysFollowExchange` (`OfferAnswer`): codecs and SRTP keys of an exchange are
  taken over before it is known to succeed (`media.go:960`), while
  `docs/edge.md:284` has them "take effect only when the exchange does".
- `StreamTokensResolve` (`Registrar`): a phone that reconnects and registers while
  the handler of its lost connection still waits can leave the registrar with a
  Contact that names no binding (`location.go:134`).
- `SourcesKept` (`CarrierDirectory`): when one of a carrier's targets cannot be
  looked up and another can, the addresses of the first are dropped although DNS
  still lists them (`carrierdns.go:353`; the comment at 33-36 says otherwise).
- `ReadyAfterRelease` (`WebRtcLeg`): who wakes on `Ready` after a failure may find
  the port not yet given back (`webrtcleg.go:411`).
- `LinksFollowed` (`ConfigReload`): a link in a directory between the path and the
  file is swapped unseen (`reload.go:19`).
- `FailedStartLeavesNothing` (`EdgeRun`): a startup that gives up waiting for its
  sockets does not close the table before it sweeps it; an INVITE in flight
  can open a call afterwards (`edge.go:742`).
- `PrackUpdateInDialog` (`InDialog`): `onPrackUpdate` finds the dialog and
  `onInDialog` looks it up again. When the call ends or another fork is confirmed
  in between (`Gone`), the request is hashed to a switch although "there is no
  fallback by hashing" (`prack.go:17`), and so is one whose own fork is confirmed
  within the second lookup (`Crossed`); with SDP it meets a nil dialog and is
  answered 500 by the guard that recovers. `RequestsRouted` says that these are the
  only ways: it is false without either exception.
- "No honest host is banned by address" (`FrontDoor`, `NoBlame` with `{"unbound"}`
  for `{"stale", "unbound"}`): a credential the registrar answers `stale=true` is no
  strike (`regguard.go:316`; "unless the new challenge says stale=true", lines
  28-32), but its branch is recorded as challenged. When that datagram comes again,
  which is what a client does that missed the answer, the read filter takes it for
  a replayed guess and strikes (`edge.go:1127`): enough of them ban a phone with the
  right password on every transport.
- "A refused credential is one strike" (`CountedOnce` without `forgotten`): the
  guard remembers 16 struck attempts of a source; one that comes again after so
  many others, or after its source's record was evicted, can be counted again.

Observations no property carries:

- A refused 2xx whose ACK could not be written is never BYEd
  (`invite_leg.go:453`; the comment at 128-130 promises both).
- `ackExpired` checks the record and acts on it in two critical sections
  (`ack.go:73`): an ACK that lands in between is forwarded, and the call is ended
  for the want of it all the same. No property of `CallTeardown` speaks of that.
- A handler between `open` and `attach` can still hold sockets when `Run`
  returns (`edge.go:845`); `SocketsOwned` shows that it closes them. The
  goroutines that close the listeners are not waited for either.
- A re-INVITE abandoned while its 2xx is on the way leaves the ends with different
  views (`indialog.go:264`); `SplitOnlyByCrossing` says that nothing else does.
- A stream that latched before any address was named is not ranked again when
  its source turns out to be the named one, so a packet from the signalling
  host can briefly take it. `MediaGoesHome` excepts exactly this case.
- `registerTimeout` (32 s) is longer than the breaker's first window (30 s):
  a probe within its transaction but past its budget may overlap the next one.
- A connection prepared while the listener shuts may be handed over after the
  hand-over channel was drained (`stream.go:312`) and the accept loop has ended:
  sipgo never sees it and nothing closes it before the process ends. In
  `StreamConns` it stays `ready` and holds its slot, which `CountsExact` counts.
- A TCP or TLS connection that sends only keep-alives may stay for three idle
  intervals, not two: `lastMsg` is zero until the first read, and that read starts
  it although no message began (`stream.go:514`). `NoSquatting` states three there
  (`Patience`).
- `observe` looks at the idle bound only when a read ends between two units. A
  WebSocket whose reads keep ending within a control or continuation frame has
  started no message and is not closed, although "a connection that started no
  message within idle and carries nothing is closed" (`stream.go:527`).
  `NoSquatting` bounds such a connection by each frame's own deadline only.
- A HEP `Send` that passed the check of `closed` may queue a packet after
  `Close` looked for the last time; `PacketsCounted` excepts it (`stray`).
- A configuration edit between the load and the start of the watch is not seen,
  and a link swapped there and back while a reload reads through it leaves the
  process with the file in between; `FileFollowed` excepts both.

## 5. Proofs

Most theorems have the form `Spec => []P`. The proof establishes `Init => I`,
`I /\ [Next]_vars => I'` and `I => P` for an inductive invariant `I`, one case
per action. `FailoverAndAnswerExclude` and `FoundOutIsKept` are action properties, and
`SubscriptionsArePooled` and `PublicConnsArePooled` are refinements: every step,
given the same `I`, is a step of `AdmissionPool` under the mapping or leaves it
unchanged. The assumptions on constants are the named `ASSUME`s of the modules,
which TLC evaluates on the runs' values:

- finite sets of INVITEs, devices, requests, connections, sockets and packets; a positive number
  of pairs and nodes; a non-empty set of caps; ports, caps and times that are
  natural numbers; names of ACK handlers distinct from the other actors';
- `InDialog`: two calls of one Call-ID have different caller tags, and neither is
  the other's mirror image (From tags are the callers' own choice of a random
  value; merged requests are `DialogTable`'s);
- `OfferAnswer`: `OneOfferlessEnd`, without which `SlotsExact` is false
  (`offers_crossed`);
- `StreamConns`: the message timeout is at most the idle timeout (15 and 60
  seconds), the per-address cap is a natural number; `CarrierDirectory`: the retry after a failed lookup comes no later
  than an entry's refresh (10 and 300 seconds);
- `RateLimit`: rate, interval and cap are positive (`take` lets everything through
  otherwise); `AorLocks`: likewise the cap, the scan, the threshold and the window,
  and the clock starts at 1, since time zero in `locked` stands for "not locked";
- `ProvReplay`: a transaction has no more responses than `provCap` (32). Beyond it
  `observe` drops the oldest response, and a final may overtake that one.

`CallSetupProofs`, for any number of switch nodes, with and without SDP in the
INVITE, and every mishap:

- `CallerToldOnce` from `FinalInv`: the handler that has tried its final is on its
  way out or has noted it.
- `CleanDeparture` (`NothingLeftBehind`) from `CancelInv` (an attempt sent and taken
  has had its CANCEL or has one goroutine about to send it), `RingInv` (an INVITE
  without a final is in the handler's hands or was taken for its CANCEL) and
  `MediaInv` (open sockets belong to the record, or to the handler between
  allocation and attach), with `RespInv` and `StateInv` for what the program point
  says of the response and the record.
- `FailoverAndAnswerExclude` (`NothingAfterAnswer`) from `SpeakInv` (between two
  attempts every earlier node is silent for good) and `ConfirmInv` (a caller that
  has its final behind the handler's back has marked the record or ended it).

`CallTeardownProofs`, for any number of ACK handlers and any set of actors:

- `TypeCorrect`.
- `EndedExactlyOnce` from `ElectInv`: while the call is up nobody is past
  `endBy`'s transition, afterwards at most one actor is, and what it has still
  to do has not been done. `EndedOnce` alone does not exclude a second actor
  about to report.
- `MissedAckCountedOnce` from `MissInv`: the count is 1 exactly when the
  record's flag is set.
- `AnswerTakenOrTimedOut` from `OwedInv`: the answer's timer owns the answer
  before it ends the call.
- `RetransmittedAckKeepsAnswer` from `RestateInv`: `ackMu` serialises the
  handlers, and between taking the answer and keeping its rebuilt form no other
  ACK is forwarded. A re-INVITE among the actors may drop the kept answer once it
  was taken, never before: while it is owed the re-INVITE is refused 491.
- `EndedOnceForOneReason` puts the first four together: `EndedForOneReason`, the
  property `teardown_races` checks.

`DialogTableProofs`, for any INVITEs, keys, capacity and caps:

- `TypeCorrect`; `SlotsNeverLeak` and `CapNeverExceeded` from `SlotInv`, which
  adds that a handler that has not begun has no record; the cardinality
  arguments use the finite-set theorems.
- `MergedRequestsRefused`: `OneEarlyPerKey` is inductive by itself.
- `ShutdownLeavesNoCall` from `ShutdownInv`: `close` bars new records before
  `closeAll` takes its snapshot, so the snapshot covers all that is live.
- `SocketsNeverOrphaned` from `OwnedInv`: sockets not owned by a record belong to
  a handler that is about to attach them.
- `AdmissionIsExact` puts the first four together: `AdmissionExact`, checked by
  `dialogs`.

`MediaPortsProofs`, for any range and any sessions:

- `TypeCorrect` with the cursors on even ports.
- `PairNeverShared`, `SocketsClosedFirst`, `AlwaysInsideRange` and
  `FailedAllocationLeaksNothing` from `PoolInv`: an allocation's point says which
  pairs it has (`HeldInv`), a pair at a point without sockets is not bound
  (`BoundInv`), and every pair held is one of the range (`RealPorts`).
- `ExhaustionIsTruthful` from `SweepInv`: after k candidates a sweep has seen
  every port at most 2k behind the shared cursor, whoever moved it.
- `PortsAreSafe` puts all but the last together: `PortsSafe`, checked by `media`.

`MediaLatchProofs`, for any hosts, addresses and number of moves:

- `TypeCorrect`, and `LatchInvariant` for `IInv`, from which follow
  `PrivateLegStrict`, `SdpNeverSteers`, `EndpointTakesBack` and
  `NamedAddressHasMedia`. `ArmInv` says what a latch expects while a re-arming
  has or has not reached it, `TrustInv` relates the rank to the hosts vouched
  for, `HomeInv` says that RTP is exact just when it is latched to the named
  address. None of the four properties is inductive without them: each depends
  on what an earlier critical section of the same move left behind.
  `OnlySignalledHosts` puts the first two and the types together
  (`SignalledOnly`, checked by `latch_moves`).

`RegistrarProofs`, for any devices, AoRs, requests, subscriptions and caps:

- `TablesTellOneStory` (`TablesAgree`) from `TableInv` (each index is a function of
  the bindings), `RequestInv` (the token an open REGISTER carries is its own
  device's, since a token names the REGISTER that drew it), `SubInv` and
  `NoOrphanSubscriptions`, which counts the tokens that are on their way from the
  hook to the subscription table.
- `BindingsResolveAndAreEarned` (`BindingsHonest`) from `EarnedInv`, which includes
  the binding about to be put, and `ResolveInv`: a phone off a stream has one
  REGISTER open, the token it carries is the live binding's, and the registrar
  holds that one or, while the binding is being put, none.
- `SubscriptionsArePooled`, with the total cap and the cap of the binding: the
  records that `begin` counts for each are those the mapping holds.

`OfferAnswerProofs`, for any requests that cross:

- `OneExchangePointsTheMedia` from `CoreInv`, whatever the ends send: what `MediaLatch`
  assumes of `pointMedia`.
- `CrossingOffersAreApplied` under `OneOfferlessEnd`. `ViewInv` and `MediaInv`
  relate what each end has read to what the anchor follows at each program
  point; `UpInv` says that while the call is up the slots are those of the
  exchanges at work, an answer not given yet is still owed, and ends that differ
  have a step pending that settles them. The property speaks of quiet calls
  only, so none of this follows from it.

`ComponentProofs` takes the components the `…Parts` modules instantiate:

- `RunLeavesNothing` (`RunInv`): the table is closed before the context is
  cancelled, so a handler in flight is refused after the sweep.
- `ClosedLegHoldsNothing` (`LegInv`), for any number of closers: one goroutine
  claims the leg, its snapshot is every handle there will ever be, and another
  closes the session's pair; past the handshake the peer is the signalled one.
- `HalfOpenAdmitsOne` (`BreakerInv`), for any nodes, users, threshold, windows and
  budget: a counted probe is within the time the table grants it, it is the only one
  with budget left (`ProbeAlone`), and a stale one that was not sent yet takes
  the slot from nobody when it is released (`StaleProbeHarmless`).
- `RequestsReachTheirDialog` (`RoutingInv`): a confirmed call was answered by one of
  its forks, and only those ring, hence both lookups together find at most one
  dialog for a request (`OneFound`), and it is the one the tags name. The record
  that admitted a PRACK or UPDATE names it for as long as it is early (`Followed`;
  `Onward`: calls go one way), so a request nothing entitles any more had its dialog
  end or change forks (`FollowedOrGone`).
- `ComposedOffersAreApplied`: `CrossingOffersAreApplied` for the instance of `media`.
- `SlotsCountedExactly` (`ConnInv`), for any connections, caps and timeouts: a closed
  connection is gone, so its slot is given back once; what waits in the hand-over
  channel holds its slot; the three counters are the cardinalities of one set.
  `ReaderInv` relates the ages to what the armed deadline allows (`ReadingOf`): a
  SIP stream's silence is at most the age of `lastMsg` and one interval more, the
  one its first read may have taken.
- `PublicConnsArePooled`, from the same invariant.
- `CarriersStayReachable`, for any requests, lines, restarts, carriers and
  addresses: one `ensure` is past the destination's lock and dials only when nothing
  is pooled (`DialInv`); every process derives the same token for a line, so the
  carrier holds no other (`LinesInv`); what the entries hold is published but for
  the sweep in progress (`DirInv`).
- `ThrottlingIsFair` (`ThrottledFairly`), for any sockets, AoRs, hosts, messages and
  logins, any rate and interval, caps, thresholds and times, from four invariants:
  - `RatesInv`. A key that was not pushed out has what the exact limiter has, and
    one that was is at most its surplus of requests above it: level + interval ×
    `ahead` ≥ the exact level (`Balanced`). `ahead` ≥ 0 alone is not inductive: a
    fresh bucket is ahead of the exact one and falls behind it one request at a time.
    A socket's floor holds at least a bucket for all that the socket sends, plus
    the token of a request about to try it (`FloorHolds`).
  - `AorInv`. A window still open has counted no more strikes than there were since
    it began (`Backed`), and strikes of one tick can be told apart (`Numbered`);
    `earned` only remembers that the locks opened so far were right.
  - `DoorInv`. A challenge is known to the source its message named and to no other,
    and its message has been through (`Received`, `Through`): whoever answers one has
    received at the address it uses, and an honest host's branch is challenged only
    by a message of its own, so a strike by address that names it is for its own
    retransmission or its own call (`FairlyBlamed`), and a ban by address, pending
    (`Carried`) or in force (`BansBlamed`), had such a strike. A strike is counted
    with its attempt put in the ring in the same step, where it stays until it is
    forgotten (`CountedOf`). `NoBlame` and `CountedOnce` hold for every size of the
    ring and every bound on what is in flight. Assumed: nonces are fresh per
    challenge, and the registrar answers a right credential with a 2xx, a stale
    challenge or not at all.
  - `AdmSafe`. A window has spent its wrong guesses and what is in bcrypt (`Charged`),
    that never exceeds the limit (`Affordable`), and a slot is of one window of one
    source even when that was evicted and began another (`WindowsNamed`).
- `FoundOutIsKept` (`KeptUntilDue`), an action property in three parts: from `AorInv`
  the entry `evictable` picks is locked only when all that it looked at are; from
  `AdmSafe` `evictLocked` takes a locked-out source only when all are; from `DirInv`
  and `StillKnown` a carrier with published addresses has some in its entry.
- `NothingLost` (`NothingLostOnTheWay`): `ReplayInv` has each response in one place,
  with its goroutine, in the channel or read (`OnePlace`), the record complete but
  for the one response whose `observe` is due (`Observed`), and every provisional
  ahead of the final relayed or about to be (`Replaying`). `HepInv` has the sum of
  what became of the packets equal to those given (`HepCounted`), the writer
  holding a packet exactly while it writes, and `Close` looking at the queue only
  after the writer is gone (`HepClosing`).

Only model-checked: every liveness property (`CallerAnswered`, `AnswerSettled`,
`GivenUpCallEnds`, `LostAckEnds`, `EndpointsTold`, `MediaAndCallEndTogether`,
`ResourcesReturned`, `LearnedInTheEnd`, `BindingsReclaimed`,
`NodesComeBack`, `FileFollowed`, `RunReturns`), since the prover has no rules for
fairness and `ENABLED`; `FramesSeen`, whose framers recurse over the bytes they are
fed, so that what they return for every input takes induction over data; and the
weakened statements of section 4. Every other property of a passing run is a
theorem: each safety invariant, action property and refinement but `FramesSeen`.

The attempt to prove `ThrottledFairly` corrected two statements about `RateLimit`.
Both held on the earlier instance only because rate and interval were equal there, so
that every amount was a whole number of tokens:

- "A bucket that a full table pushed out never holds less than the exact one" is
  false with half tokens: a fresh bucket is charged where the exact one, half a token
  short, refuses and keeps its half. What the code promises is that such a key has
  been let through at least as often (`ahead`), and `Balanced` says by how much it can
  hold less.
- "A vouched socket that keeps to the rate is never refused" compared its floor with
  a bucket that is not charged for what it refuses. The floor is charged for some of
  those requests and may hold half a token less. A socket keeps to the rate while
  all that it sends fits; `Spent` empties the reference bucket otherwise.

## 6. What is not modelled

- Text: parsing, building and rewriting one message (`sip/`, `sip/sdp/`,
  `hide.go`, `forward.go`, `extensions.go`, `sdes.go`) are pure functions and carry
  no protocol state. `StreamFramers` is the exception, because its input comes in
  pieces.
- Cryptography, ICE, DTLS and RTP payloads. On an SDES side only packets that
  authenticate reach `acceptFrom`, so the latch model covers them.
- `setExpected` and `setMode` of a latch, which have no caller outside tests.
- UPDATEs of an early dialog, whose exchange belongs to one fork: they would need
  `CallSetup` and `OfferAnswer` in one state space.
- Drain mode: one flag, read when a new INVITE or an OPTIONS arrives.
- Durations, except where two of them are compared (`RegisterBreaker`,
  `StreamConns`, `CarrierDirectory`, `AorLocks`, `RateLimit`, `AdminAuth`, which
  count ticks): elsewhere a timer may fire at any moment after it is armed.
- The moment a carrier's addresses expire: `CarrierDirectory` computes it from the
  time the lookup began, as `refresh` does, but no property says that a slow lookup
  is applied no longer than that.
- Prompts, logging, metrics, the admin pages, validation of a configuration
  document.

## 7. Plan

1. An abstract call (offered, up, over; each end told once) that `CallSetup` and
   `CallTeardown` both implement.
2. Early UPDATEs and PRACK answers in `CallSetup`.
