# A TLA+ model of pspkit-https

pspkit-https gives an application on a PSP two things: HTTPS GET over TLS 1.3 (`src/https.c`), and the
entropy TLS needs, made by a player's hands and kept in a seed file (`src/entropy.c`). Both keep global
state that several threads reach, both talk to parts that fail at any time, and both are hard to test on
the host. The models here are about that: who owns a connection, when a request may be repeated, what an
answer is however its reads are cut, what is on the memory stick after a cut, when the gate to the random
numbers is open, and what a turn or a press of the player's hand is paid. Paths are relative to the
repository; "the header" is `include/pspkit-https/*.h`.

## The system

| Part | State | Operations | Talks to | What makes it correct |
|---|---|---|---|---|
| Request engine, `https.c` 854-1371 | `g_idle` (6 slots), the `struct connection`s, `g_abort`, `g_get_start`, `g_time_limit_s`, `g_handshake_lock`, per request: result, `stale`, `can_keep` | `https_get`, `https_abort`, `https_close_idle`, `https_set_time_limit` | sockets and wolfSSL (calls), the application's sink and progress (callbacks), roots (waits) | each connection owned once; no byte of a body given twice; an honest outcome; every wait bounded |
| Radio and roots, `https.c` 218-341, 707-852 | `g_net`, `g_manual_connect`, `g_ctx`, `g_roots_thread`, `g_wolf_ready` | `https_net_init`, `https_net_connect`, `https_net_disconnect`; the roots thread | access point and system dialog, wolfSSL, request engine | layers stacked; context neither freed in use nor leaked; nothing left after disconnect; no dialling past the dialog |
| Certificate question, `https.c` 163-211, 634-705 | `g_verify_host`, `g_doubt`, `g_doubt_host`, `g_asked_host`, `g_trusted` | verify callback, `https_doubt_take`, `https_doubt_accept` | a handshake (callback from wolfSSL), the screen's thread | an answer counts for the host that was shown, and for no other |
| Pool and gate, `entropy.c` 29-51, 574-581, 886-1114 | `pool_units`, `pool_filled`, `pool_broken`, `stash_units`, `unswept_allowed`, two mutexes | init, absorb (pay), stash, restore, forget, load, save, allow_unswept, the draw `pspkit_https_seed` | the seed file (under the file lock), wolfSSL's RNG on the network's thread | the gate is earned and stays open; a forgotten seed stays forgotten; no deadlock |
| Seed file, `entropy.c` 100-182 | three names on the stick: the seed, `.bak`, `.new` | `recover`, `seed_read`, `seed_write`, `seed_remove` | `sceIo*` | never lost to a failed write; on a path that names its device, whole or absent after any cut, and a replaced seed never comes back |
| Addresses, `https.c` 517-599 | none; texts of 128, 1600 and 1728 bytes on the stack | `url_parse`, `url_resolve` | the application's text, a server's Location | a chain of redirects ends where the references say; nothing a server wrote breaks a request line; no path past its place |
| Answers, `https.c` 461-515, 1120-1307 | the head's buffer (8 KB), the read buffer (16 KB), `want`, `body_len`, `can_keep` | the loop around `wolfSSL_read` | wolfSSL, the sink | what is made of an answer does not depend on how it was cut |
| Dates, `https.c` 601-632 | the build day | `build_day`, `pspkit_https_time` | wolfSSL's clock, the certificate rules | the clock and the floor of the rules are the same day |
| Turns, `entropy.c` 218-258, 494-720 | `struct sweep`: the run, the roll, what is owed, the latest turn | `count_sample`, `turn_to`, `settle`, `roll_begin`, `sweep_reset` | `sweep.c` (heading, new ground, wall), the pool (`pay`) | a turn is settled once and paid at most once, at a hand's pace, for ground it reached and no wall's work |
| Presses, `entropy.c` 334-345, 793-884 | `struct keys`: the last press, the budget, the gap | `count_buttons` | the pool (`pay`) | turbo, chords and pauses stay under one ceiling |
| Price and guesses, `entropy.c` 194-202, 367-557 | counts and hits of each predictor, follow tables, scores | `credit`, `predict`, `turn_to` | turns and presses | the price is what the record says, with every rounding against the count; a pattern is found out |
| Sweep screens, `sweep.c`, `sweep_ascii.c` | position and field of the source; the text screen | `sweep_step`, `sweep_ascii_run` | the counting | the percentage shown |
| Rest | phase and log strings, last-connection snapshot, pacing; demo, CA tools, simulator, tests | | | |

What is hard here: two requests in parallel since 0.2.4, while the header still asks for one worker; a
retry that is safe only before the first byte; a pool of connections whose far ends close silently; a flag
(`g_abort`) and a start time that are single and shared; a roots thread that is joined by whoever comes
first; a write of three renames on a stick that may be pulled; a gate with five ways to set and clear
the state behind it; and a turn that may be settled, held in a roll, merged, flicked away, owed or walled
off depending on what the hand does next. `PROJECT.json` lists every hazard at its line.

## Modules

| Module | Models | Composition |
|---|---|---|
| `HttpsClient` | request engine | implements `ConnPool`; `MCHttpsClient` adds the symmetry for TLC |
| `ConnPool` | abstract: what a request is promised of its connection and of the pool | refined by `HttpsClient` (`ImplementsPool`) |
| `NetLink` | radio, stack, roots context, and the part of a request that needs the context | implements `RootsCell`; a request's rest is its `Use` |
| `RootsCell` | abstract: one context, the first offered, shared by every request | refined by `NetLink` (`ImplementsRootsCell`) |
| `CertDoubt` | certificate rules and question | handshakes come from `HttpsClient`'s lock discipline, modelled again in three actions |
| `Urls` | addresses and redirects | |
| `Dates` | the build day and the clock | |
| `Heads` | an answer's head and body, read by read | its verdicts are `HttpsClient`'s choices |
| `MCTrust` | | composes the four above for TLC |
| `EntropyPool` | pool, gate, the two locks, with the seed file as one cell | the file's inside is `SeedFile` |
| `SeedFile` | the three names, call by call | implements `SeedCell` |
| `SeedCell` | abstract: one cell that holds a whole seed or none | refined by `SeedFile` (`ImplementsCell`) |
| `Turns` | runs, rolls, walls, flicks, owed turns | implements `TurnAccount` |
| `TurnAccount` | abstract: each turn told once, settled once, paid at most once | refined by `Turns` (`ImplementsAccount`) |
| `Presses` | presses, gaps, chords, the budget | |
| `Prices` | what a turn or press is worth | |
| `Guesses` | the direction predictors and their scores | |
| `MCEntropy` | | composes `Turns`, `Presses`, `Prices`, `Guesses` and `SeedFile` for TLC |
| `EntropyPool_proofs`, `SeedFile_proofs`, `HttpsClient_proofs`, `NetLink_proofs`, `Heads_proofs` | theorems | each extends its model |
| `Trust_proofs` | theorems | extends `CertDoubt`, `Dates` and `Urls`, which share nothing |
| `Sweep_proofs` | theorems | extends `Turns`, `Presses`, `Prices` and `Guesses`, which share nothing |
| `NaturalLemmas` | the least of a set of naturals, induction, definition by recursion, remainders | extended by `Heads_proofs` and the two above |

An operator marked `\* mutant` beside a definition is the same definition with a plausible bug. No
specification uses them; each shows that a property would notice.

### HttpsClient

One value of `pc` per place where `https_get`/`request_with` can wait or be overtaken: `start` (the top of
`request_with`), `dns`, `connect`, `setup` (roots, `wolfSSL_new`, pinning), `lock`, `shake`, `send`, `top`
(the checks at the head of the read loop), `read`, `out` (the label), `after` (back in `https_get`).

- `get[w]` holds `u`, `next`, `res.redirects` and the outcome; `req[w]` the locals of `request_with`.
- Stretches under `g_lock` (`TakeIdle`, `SaveIdle`, `CloseIdle`) are single steps. `Finish` is the whole
  `out` label, the closing or saving included, since nothing the other worker reads lies in between.
- Time: every budget is compared as "now - start > budget", so a wait is a stopwatch that stops one past
  its budget. `Tick` advances all at once. The 32-bit clock's wrap does not matter to differences.
- Responses: `HeadPart` (not complete yet), `HeadGrown`, a redirect, a head that begins a body with or
  without a length, a bad head, body pieces, a surplus past Content-Length, a clean close, a reset. Body
  bytes that arrive with the head are the next read, except what follows an empty body, which the loop looks
  at at once (`past`); bytes of an unsized body are counted up to `MaxBody`.
- Ghosts: `owed` (connections with more on them than was read as an answer: it is not whole yet, or bytes
  past the end it announced have been seen), `sunk` (bytes the sink took in this get), `saw` (a wait
  ended for the abort flag). They guard nothing.
- A lookup or allocation that fails goes straight to `after`. The overflow test of the body count
  (`https.c:1279`) is out of reach of a bounded count.
- `ConnPool` leaves out slots, ages, the order of the scan and the parsing, and keeps what they are for: a
  request gets a fresh connection or an idle one to its own host that owes no answer; it gives one back only
  with its last answer read to its end and nothing seen past that end; only a full pool closes another for
  that; and nobody else closes a connection in use. What a server sends later, or has sent and nobody has
  read, is outside: `take_idle` looks at the host and the age alone. Under the mapping
  `idle` is the set the slots hold and `dest` the host of each request.

### NetLink

`held` is the flags of `g_net`, numbered in the order `net_init` brings them up, each its own step that may
fail. `Connect` is the call up to its first wait, with all ways in: the dialog's link adopted or refused,
a live link reused, a lost one torn down (`Redial`), or a first connect. `Join`/`Look`/`Load`/`WolfInit`/
`Parse`/`Publish` are `roots_join`, `roots_ready`, `roots_load` and `roots_publish`; the roots thread takes
the same steps. `live` is what wolfSSL has allocated. Init, connect and disconnect are serialised with
everything, as the header asks; requests may overlap. The access point and the dialog (`LinkChanges`) are
external and free.

`RootsCell` is the context without the link, the thread and the waits: the first one offered is shared, one
that comes later is freed, every request borrows the shared one, and it is given up only when nobody uses
it and none is being prepared. Under the mapping the contexts being prepared are those allocated and not
published (`live \ {ctx}`). The cell stays one whichever of the requests and the roots thread parses, and
however often (`roots_two` shows that they may do it at once).

### CertDoubt

`trusted` and the rest carry the code's names. `doubt()` is two critical sections and therefore two steps
(`Verify`, `Doubt`); an answer may fall between them. `word` records what the person said, and
`shown` which host they saw, independently of `asked`. wolfSSL calls back for each error of a chain, so `Verify` may come several
times in a handshake; which of the five kinds of error, and whether the certificate had run out before the
build, is free. `Judge` is `verify_ignoring_dates`: a date is overlooked above the floor of the build day,
an unknown or missing issuer is a doubt, anything else refuses. `met` (ghost) remembers what was really
amiss (`Amiss`, said without the code's rules) with what passed. `Disconnect` comes with no request under way. `https_close_idle` and the
sockets play no part.

### Urls, Dates, Heads

A text in `Urls` is a sequence with one element for each kind of character the code tells apart, each one
byte long, so the four sizes bite. `Open` is `url_parse` of the application's address, `Redirect` is
`url_resolve` against the address before. `ResolvesAsReferences` compares with a reference written from
what a URI reference means (scheme, authority, path, query, in that order) and not from the code's cutting
and pasting. `TooLong` names the only other outcome, a Location that does not fit: an authority counts as it
was written there, with a port that says nothing and with leading zeros, since the code measures before it
reads.

`Dates` goes through years a day at a time with a calendar's count (`since`) beside the closed formula. TLC
has 32-bit integers, so days are compared; the code multiplies them by 86400. A year may begin on any first
of January from 1970 on, with the leap years before it counted (`LeapsBefore`).

`Heads` reads a stream of bytes `k` at a time, any `k` the buffer allows. The head grows in its own buffer of
`HEAD_MAX`; the read that completes it brings two pieces of body, the tail of that buffer and what did not
fit. What a server may send is the constant `Answers`, bytes and what the head's lines say (`said`), a record: the texts of `header` and `connection_closes` mean the
same whenever the head is whole. `Close` may come after any read. The properties use only the bytes read:
`HoweverCut` derives the verdict and what the sink must have been given from the first blank line and from
the number the length writes (`Value`, by powers of ten, against `Digits`, with its overflow test).

### Turns and TurnAccount

A sample is a heading (`Moves`), whether its field is new ground and whether a wall held the source back;
`Sample` is `count_sample` in its order: a wall touches the turn, a run goes on or begins, a finished roll
is carried, left or extended, a turn too short is flicked away, ground reached pays what is owed. `Rest` is a
sample without direction and `ResetTurns` is `sweep_reset`. `run`, `roll`, `latest` are the fields of
`struct sweep`. `TURN_SAMPLES`, `TURN_FIELDS`, `TURN_ROLL` are the code's thresholds. Whether a turn was
called by the guesses is free here (`called`), so the counting holds whatever they say. `past` is history:
samples between payments, payments backed by the ground of one run, earnings since a touch of the wall.

`TurnAccount` is what `entropy_get_last_turn` promises: a turn gets the next number and a verdict; only an
owed one may be paid later, once, and a forgotten or replaced one never.

### Presses, Prices, Guesses

`Frame` is `count_buttons` for the buttons that went down: idle, a chord, or a press with its gap and the
budget it spends. `burst` (history) is what was paid in the window that maximises payments over the rate.

`Prices` is `credit`: the share of a record as a number of 1024ths, the variance, the root worked out bit by
bit, the upper bound, the row of the table. It is nearly all arithmetic, so it is checked for every record
up to `MaxCount`. Products are exact there; the code works the share out in 64 bits, and what is left in 32, a
variance of at most 512 * 512 plus the count, fits for any count a sweep can have. `RoundsAgainst`
is what the comment above `credit` claims, that every rounding is against the count: it compares with the bound
worked out without a rounding, and is not by construction, since rounding the share up makes its variance
smaller.

`Guesses` has the follow tables, the most frequent turn, the lag and the return, their scores and the winner,
for a hand that repeats a pattern and then swaps it for another (`hand`). It shows how soon the hand is found
out.

### EntropyPool

Each thread is in at most one call. `Call`, `LockFile`, `LockPool` are steps of their own for the calls
that touch the file; a call under the pool lock alone is one step that waits for `PoolFree`. `mass` (ghost)
is what the pool has really taken in since it was last emptied, `epoch` counts forgets, and `seed` is the
epoch in which the stored seed was derived. `Pay` adds any amount of `Payments`: what a turn is worth is
the sweep's affair. Main-thread calls (`entropy_init`, absorb, restore) are the owner's. A failed hash
sets `broken`, which neither the bar nor `pool_filled` shows: the draw then refuses at `entropy.c:1095`, so
`FullBarDraws` says that a full bar means a filled pool that lets wolfSSL draw, unless a hash has failed.

### SeedFile and SeedCell

`disk` maps the three names to absent, torn, or the number of a seed, and every `sceIo` call that changes
the stick or reads the seed is a step. Renames and removals happen in the order they were asked for; bytes of
a new file are certain only after `sceIoSync`, and until then a cut may leave the file torn: `unsynced` is the
set of names that stand for such bytes, and a rename carries them along. `Device` says whether the path
names its device (`device_of`). One that does not is never synced, as in the code, and its bytes stay in doubt
until the power goes. `MayFail` names the steps whose call may fail; the look whether a name exists
(`sceIoGetstat`) is part of the step that asks and always answers. `Crash` is possible everywhere.

## Runs

| Run | Instance | Result |
|---|---|---|
| `get_one` | 1 worker, 2 hosts, 3 addresses, 2 slots, limit 0 or 1, 1 redirect, body up to 1 | passes: `RetryIsFresh`, `HonestOutcome`, `SinkNeverReplayed`, `HeadInTime`, `LimitEndsGet` |
| `get_two` | 2 workers, 2 hosts, 3 addresses, 1 slot, symmetry | passes: `OneOwner`, `IdleIsQuiet`, `OneHandshake`, `ImplementsPool` |
| `abort_one` | 1 worker | violated: `AbortIsFinal` |
| `abort_two` | 2 workers | violated: `AbortStands` |
| `link` | 2 workers and the roots thread, 3 contexts | passes: `LayersStacked`, `ContextHeld`, `ImplementsRootsCell`, `TornDown`, `ManualNeverDials`, `CallsReturn` |
| `roots_two` | as `link` | violated: `OneParser` |
| `trust` | 2 workers, 3 hosts, ring of 2; texts of 5 pieces and a Location of 3, 1 redirect; 18 years day by day; every stream of 7 bytes with 3 plain heads, and every head on one stream | passes: `RingIsWord`, `NoBlankCheque`, `UrlClean`, `ResolvesAsReferences`, `DaysExact`, `HoweverCut`, `KeptIsDrained` |
| `entropy` | 4 headings, thresholds 2, 2, 3; 3 buttons, budget 6; records up to 32; patterns up to 4 turns, 40 turns; a seed path that names its device, where every step of a read or write may fail except the rename in `recover`, and removals in `seed_remove` succeed | passes: `RollTurns`, `OwedAsTold`, `GroundBacksTwo`, `WallCostsATurn`, `HandsPace`, `ImplementsAccount`, `PressCeiling`, `PriceExact`, `RoundsAgainst`, `PatternCalled`, `SeedIsWhole`, `SeedNeverLost`, `ImplementsCell` |
| `pool` | owner and 1 network thread | passes: `FilledIsEarned`, `FullBarDraws`, `ForgottenStaysForgotten`, `OnlyForgetDries`, `EveryCallReturns` |
| `pool_bits` | as `pool`, larger payments | violated: `BitsInRange` |
| `seed_half` | the path names none; no call fails, the power may go | violated: `SeedIsWhole` |
| `seed_rename` | the path names its device; the rename in `recover` may fail too | violated: `SeedNeverLost` |

Two runs switch off the deadlock check, because what they explore ends: in `trust` an address that was
refused, a year that is over and an answer that is read have no next step, and in `entropy` a record is
full and a hand stops. In every other run some step is always open. Where several models share a run, a variable
`part` says which of them a behaviour explores; they share no state, and every property is checked in all.

Why the bounds are enough. Three addresses let two requests hold one each while a third sits in the pool;
one slot with two workers makes every save an eviction, and two slots with one worker let both hosts be
kept, expire and be matched. A budget of 0 or 1 separates "in time" from "too late", which is all a budget
does; budgets compare with themselves only. One redirect reaches both "follow" and "too many", and a body
of one byte all of before, at and past its end. A ring of two with three hosts evicts, `MaxWord = 4` twice
over. Three contexts are one published and two in hand, the most the code can have. `Full = 2` with
payments 1 and 2 reaches the mark exactly and past it; `MaxForgets = 1` gives a before and an after, and
`MaxUnits` stops an endless sweep. Seeds are numbered up to `MaxSeeds = 4`: the old one, the successor of a
load, a save's, and one more.

Headings 1, 2, 4 and 6 have neighbours, a right angle and an opposite, so a roll can go on, split and
reverse; thresholds of 2 and 3 are below, at and past every comparison within five samples. A budget of 6
with a rate of 1 is spent by two or three presses and refilled by idling. Records up to 32 turns reach every
row of the price table below the cap, both roundings and the bound's own limit. `Patience` is 14 because 13 fails: it is the longest that
habits from the old pattern hold out, for these two swaps. Five pieces make the longest text that a host, a
port, a path, a query and a fragment need, and a Location of three a relative path, a query alone, a
fragment alone or another scheme. Years include leap years, centuries and a multiple of 400. A head's buffer
of 6 with a head of 5 or 6, reads up to 7 and streams of 7 let the blank line come in any two or three reads,
at the buffer's end and past it; `SIZE_MAX` 15 lets a length of two digits fit or overflow.

Every property of a passing run has a mutant of the code's definitions that violates it.

### Fairness

- `HttpsClient`: the worker's own code and `Tick` are weakly fair. Nothing is assumed of the network:
  connecting, shaking hands, sending and reading may find nothing to do for ever, and only `GiveUp`, the
  check after each poll, is fair there. The lookup ends by itself after five tries of two seconds
  (`resolve`).
- `NetLink`: own steps of workers and roots thread, and `TooLate` (the clock). Not the access point, not
  the failure of a poll (`AwaitFails`).
- `EntropyPool`: weak fairness for a thread's own steps; strong fairness for the two locks, since a mutex
  that keeps coming free is got in the end on a console whose threads sleep between frames.

## What is proved

For every value of the constants, from the named assumptions beside them (sentinels are not members,
sizes are naturals). Each proof has one step per action.

| Module | Theorem | States | Induction on |
|---|---|---|---|
| `EntropyPool_proofs` | `TypeCorrect`, `GateIsEarned`, `FullBarOpensGate`, `OnlyForgetShuts`, `ForgottenForGood` | `TypeOK`, `FilledIsEarned`, `FullBarDraws`, `OnlyForgetDries`, `ForgottenStaysForgotten` | `CountBacked`, `LockInv`, `EpochInv` |
| `SeedFile_proofs` | `TypeCorrect` | `TypeOK` | `DiskInv` |
| | `WholeAfterCut` | `SeedIsWhole`, if the path names its device | and `SyncInv` |
| | `SeedSafeFromWrites` | `SeedNeverLost` on any path, if `recover`'s rename does not fail | `DiskInv`, `NamesInv` |
| | `CellImplemented` | `ImplementsCell`, if all of that and the removals do not fail | and `SyncInv`, `RemovalInv` |
| `HttpsClient_proofs` | `TypeCorrect` | `TypeOK` | and `BodyInBounds`, `ConnHeld` |
| | `OwnedOnce`, `HandshakeIsolated`, `IdleConnectionsQuiet` | `OneOwner`, `OneHandshake`, `IdleIsQuiet` | `OwnerInv`, `HostInv`, `RetSound` |
| | `OutcomeHonest`, `SinkSeesOnce` | `HonestOutcome`, `SinkNeverReplayed` | `Tally` |
| | `RetryFreshAlone` | `RetryIsFresh`, for one worker | `OnePerHost` and `Fresh` |
| | `PoolImplemented` | `ImplementsPool` | those of `OneOwner` and `IdleIsQuiet` |
| `NetLink_proofs` | `LinkTyped`, `SerialHolds`, `ManualNeverDialsHolds` | `TypeOK`, `ManualNeverDials` | `Serial` |
| | `LayersStackedHolds` | `LayersStacked` | and `Stacked` |
| | `ContextHeldHolds`, `TornDownHolds` | `ContextHeld`, `TornDown` | and `Joined`, `Held`, `Emptied` |
| | `RootsCellImplemented` | `ImplementsRootsCell` | `Joined`, `Held` |
| `Trust_proofs` | `DoubtTyped`, `NoBlankChequeHolds` | `TypeOK`, `NoBlankCheque` | `Guarded` |
| | `RingIsWordHolds` | `RingIsWord` | and `Kept` |
| | `DaysExactHolds` | `DaysExact` | `DateInv` |
| | `UrlCleanHolds`, `ResolvesAsReferencesHolds` | `UrlClean`, `ResolvesAsReferences` | `UrlInv` |
| `Sweep_proofs` | `TurnsTyped`, `RollTurnsHolds`, `OwedAsToldHolds`, `AccountImplemented` | `RollTurns`, `OwedAsTold`, `ImplementsAccount` | `Standing` |
| | `HandsPaceHolds`, `GroundBacksTwoHolds`, `WallCostsATurnHolds` | `HandsPace`, `GroundBacksTwo`, `WallCostsATurn` | and `Paced`, `Backed`, `Charged` |
| | `PressCeilingHolds` | `PressCeiling` | `Counts` |
| | `PriceExactHolds`, `RoundsAgainstHolds` | `PriceExact`, `RoundsAgainst` | `Recorded`; within a root, `Rooted` |
| | `PatternCalledHolds` | `PatternCalled`, for a `Patience` of 50 or more | `GuessInv` |
| `Heads_proofs` | `HoweverCutHolds`, `KeptIsDrainedHolds` | `HoweverCut`, `KeptIsDrained` | `HeadInv` |
| | `DigitsExact` | what the digit loop yields | |

Why the strengthenings are needed.

- That the gate is earned is not inductive by itself: restore raises the count to the stash. `CountBacked`
  says that neither the count nor the stash exceeds what the pool took in, unless the pool is full. That a forgotten seed stays
  forgotten needs the locks: `LockInv` says which `pc` holds which lock and `EpochInv` that a seed derived
  but not yet written is of the current epoch, because its writer still holds the file lock.
- `DiskInv` says that before the renames `.new` holds the whole seed last derived. `SyncInv` adds, for a path
  that names its device, that only `.new` is ever torn or unsynced, and that it is synced when the renames
  begin; without the syncs this is false, as `seed_half` shows. `NamesInv` says that after
  `recover` a `.bak` has a seed beside it until the seed itself is put aside, and `RemovalInv` that
  `.bak` is gone before the seed is.
- `OwnerInv` is `OneOwner` said of each connection, which the provers follow better than equalities of
  sets; it is inductive only with `ConnHeld`, which says at which `pc` a request has a connection.
  `OneHandshake` needs `HostInv` (a busy request has a host), `IdleIsQuiet` needs
  `RetSound`: a request that ends with `ret = 0` and `can_keep` has read all that was owed, and saw nothing past
  its end.
- `HonestOutcome` speaks of a get that is over; `Tally` says at every `pc` that what the sink took in is what
  the request has counted, and that a request which failed or leads on has counted nothing.
- `RetryIsFresh` is about the pool two attempts back. `OnePerHost` says that no two pooled connections go to
  one host, and `Fresh` that from the moment a connection to a host has been taken, or sought in vain, none
  to it is in the pool, until the request itself saves one. Both are false with two workers, which is why the
  theorem assumes one.
- The steps of `HttpsClient` are mapped to those of `ConnPool` one action at a time. That a connection taken
  out of the pool owes nothing is `IdleIsQuiet`; that one given back owes nothing is `RetSound`. The pool
  counts connections where the code looks for a free slot: a slot is free exactly when fewer than `Slots`
  connections are pooled, because no connection is in two slots (`OwnerInv`, `RoomIsFreeSlot`).
- Most of `NetLink` rests on `Serial`: while init, connect or disconnect runs, nobody else is in a call.
  `LayersStacked` is then inductive with where a caller stands (`Stacked`). `ContextHeld` is an equality of
  sets; `Held` adds that a context in use is the published one and that one about to be published is in one
  hand only. That disconnect finds no thread is `Joined`: whoever took the handle still waits, or the thread
  is done. `Emptied` carries the released context to the end of the call.
  The refinement of `RootsCell` needs the same: a release is a `GiveUp` because nobody else is in a call and
  the thread has been joined, and a publication is an `Offer` because its context is live and not the shared one.
- `Guarded` ties `g_verify_host` to the handshake that holds the lock, and every place of the ring to a word
  the person gave. `RingIsWord` needs the ring's arithmetic: `Kept` says that the k-th answer is at
  place (k - 1) % TRUSTED_MAX as long as it is among the last TRUSTED_MAX, and that no place holds anything
  else; the lemmas on `%` and `\div` carry it on.
- `Standing` is the typing with `RollTurns` and `OwedAsTold`, which need each other: a roll is carried or
  settled under the heading that the debt is compared with. `Paced` bounds the age of the last payment by
  the age of the roll that may pay next; `Backed` counts the payments on the ground of the run, the roll and
  the latest payment apart, since a debt can be paid by a run whose own turn is still held; `Charged` says
  where a touch of the wall is kept while it has cost no turn.
- `PressCeiling` becomes inductive as a sum: what a window has paid beyond the rate and what the budget still
  holds share `PRESS_SAVED` (`Counts`).
- `Recorded` says that no record exceeds the turns it was made over, without which a share could pass its
  1024ths. The root is an invariant of its sixteen rounds: `Rooted` says that what is `left` is `v` less the
  square of the root found so far, which is less than twice the width of the present `bit` too small. From it
  `RoundsAgainst` is arithmetic over naturals: a bound that is rounded at each step is no less than the one
  that is not.
- `PatternCalled` speaks of the winner of eleven predictors whose scores carry what came before. `GuessInv`
  follows one of them, the lag of the pattern's length: from the second round on it calls every turn, and each
  call takes an eighth, rounded up, of what its score is short of the fullest, so that 46 calls fill it
  (`Climbs`). Then the winner's score is full as well, and since a tie goes to the first the winner is a lag no
  longer than that one: with a full score it has called the whole last round (`Streaks`), and so the next turn. Nothing is assumed of the other
  predictors nor of the hand's past, so the bound is 4 + 46 turns after any history, where the run finds 14
  after its two swaps. A `Patience` below 50 is only model-checked.
- `DateInv` says what `since` is by years, leap years, the days of the months gone and the day; the months are
  cases, and that a year of 400 repeats is arithmetic on `\div`.
- `HeadInv` says of an answer half read what `HoweverCut` says at its end: no blank line among the bytes read
  while the head is open, and then as many bytes of body handed on as were read past it, or as the length
  says. The head is looked for in the whole buffer, so the first blank line of a prefix is the first of all.
  `KeptIsDrained` needs the two pieces of the read that completes the head apart.
- `UrlInv` says that an address is made of characters that are left as they are by being parsed again.
  Under `ResolvesAsReferences` stand three facts: a text comes apart in one way only at "#", "?", the first
  slash and the colon (`HierIs`, `SplitIs`); `Encoded` goes through a path piece by piece (`EncodedConcat`);
  and a port that `PortText` wrote is what `PortOf` reads (`PortWritten`).

The induction theorems of the library take an operator and cannot be used; `NaturalLemmas` has induction over a
set instead, proved from the least number that is not in it, and the existence of a recursive function from
that. Digits, encodings, ports and the rounds of a root all rest on these two.

Only model-checked: the liveness properties `HeadInTime`, `LimitEndsGet`, `CallsReturn` and `EveryCallReturns`
(the prover has no rule for fairness here), and that `Patience` can be as low as 14 in `entropy`. Some theorems
have a hypothesis because what they state is false without it, as a run or the code shows: `RetryFreshAlone`
assumes one worker, `SeedSafeFromWrites` and `CellImplemented` that the renames and removals named above
succeed, `WholeAfterCut` and `CellImplemented` a path that names its device, `PatternCalledHolds`
patterns of up to four turns and a ring that holds four. That a write on a path that names no device loses
nothing (`SeedSafeFromWrites`) is proved and not run, and so are the types of `HttpsClient`, `EntropyPool`, `SeedFile`,
`NetLink`, `CertDoubt` and `Turns`.

## Where code and documents disagree

Shown by a run that finds the violation (`PROJECT.json`, "findings", has the lines):

- An abort on a reused connection before the head counts as a stale connection; a second attempt with a
  fresh lookup and connect is made before the flag is read again (`abort_one`).
- With two requests the start of one clears the abort meant for the other (`abort_two`).
- A second request does not wait for the roots thread, and parses beside it (`roots_two`).
- When `recover`'s rename fails, the write that follows removes the only seed (`seed_rename`).
- A seed file whose path names no device is never synced (`entropy.c:163` and `171`), so a cut just after the
  renames can leave half a seed under its name, which `entropy.h:41` excludes for any path (`seed_half`). A
  path on the memory stick, "ms0:/...", is not concerned; a relative one is. A half seed of another length is
  refused and costs one sweep.
- `entropy_get_bits` can exceed `ENTROPY_BITS` (`pool_bits`).

Seen while reading, without a run: `README.md:93` says connections are reused for 30 seconds, the code and
the changelog say sixty; `README.md:96` and `https.h:12` still speak of one download at a time; the comment
at `entropy.c:40` says the pool lock is never held across a write to the stick, while `entropy_stash` and
`entropy_forget` hold it across `seed_remove`; the start time of a get is shared by two requests, so the
second moves the first one's limit (`https.c:1343`); the comment at `entropy.c:25` gives a turn 23 to 32
sixteenths, the caps add up to more; a host accepted between the two halves of `doubt()` is asked about once
more.

Seen while modelling the sweep, the answers and the demo, and stated exactly by the properties where there
is one:

- The same new ground can back two payments: a run pays the turn owed for its heading (`entropy.c:713`) and
  then the roll that led into it is settled with the same `run_fields`, while `entropy_internal.h:6-9` speaks
  of a turn paid for ground it reached. `GroundBacksTwo` shows that two is the most.
- A turn whose heading has been left already is settled and may be paid (`entropy.c:693-697`), and samples
  at rest count towards `ENTROPY_TURN_ROLL`; `entropy_internal.h:25-32` describes a heading that is held.
- A roll past half a circle splits in two or reverses its sense. `turn_to`'s early return for a turn of nothing
  is never taken (`RollTurns`). Line 692 of `entropy.c` clears no roll either, but for another reason: two
  turns of the same sense, of one to three eighths each, never add up to the whole circle.
- The first press within `ENTROPY_PRESS_GAP` frames of a reset counts as hurried.
- Patterns of more than four turns are not always found out; `PatternCalled` is about up to four.
- A better record does not always pay less: with 410 turns, 270 right pay 27 sixteenths and 269 pay 26,
  since the share is rounded up before its variance is taken. The comment above `credit` claims less, and that
  holds (`RoundsAgainst`).
- A redirect that names its host with the port 443 or with leading zeros is refused as too long a little
  sooner than the address it stands for would be (`https.c:529` measures the text).
- Bytes past Content-Length make a connection unfit to keep only if they come in the same piece as the
  body's end. One cut escapes even when they were read: a body that ends exactly with the head's buffer
  (`https.c:1283` leaves before the second piece); `KeptIsDrained` names it. Bytes that were not read are
  seen by nobody: `take_idle` (`https.c:899-916`) looks at the host and the age of a connection and not for
  bytes that wait on it, so the next request would take them for the start of its own head.
- `pace` sleeps without a look at the time limits, only at `aborted()`.
- In the demo a cancel between the check and `https_get` is lost to `abort_clear` (`main.c:90-95`), and a
  doubt left by a cancelled fetch is asked about after the next failure.

## Not modelled

- `ca_bundle.h`: 8211 generated lines of root certificates, three fifths of the lines of code in the
  repository, with no behaviour of their own.
- `tools/entropy-sim`: a host tool that measures the counting, and under `hardened/` a second copy of it.
- The demo, the text screen (`sweep_ascii.c`), tests, packaging, CA scripts: loops over the public interface.
- The position of the source in `sweep.c`: floating point. The heading, the field and the wall it hands over
  are free in `Turns`.
- The predictors of moments (`entropy.c`) and of buttons: of the same make as the direction predictors; in
  `Turns` and `Presses` being called is a choice, which covers them.
- Texts of headers, phase strings, log, last-connection snapshot; user agent, cipher list, rate: copied, shown
  or passed on whole. `pace` delays a read.
- The hash: that outputs do not reveal the pool is cryptography. The model keeps that a failed hash breaks
  the pool for good.
- Overflow of `pool_units` and the wrap of `g_trusted_next`: years of play, and harmless (2^32 is a
  multiple of 8).

## Plan

1. Done: `HttpsClient` with `ConnPool`, `EntropyPool`, `SeedFile` with `SeedCell`, `NetLink` with `RootsCell`,
   `CertDoubt`, `Urls`, `Dates`, `Heads`, `Turns` with `TurnAccount`, `Presses`, `Prices`, `Guesses`; and a
   theorem for every safety and action property of a passing run.
2. `Guesses` for moments and buttons, with the patience each needs.
3. A run for a limit shared by two requests (`https.c:1343`) once the header says what two may expect.
