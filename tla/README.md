# A verification of the BSidesSF 2020 CTF programs

The repository holds the challenges of a capture-the-flag event: some forty
small, independent programs, each in a directory of its own. There is no single
system, so the verification is organised by program. It follows the ones that
have logic of their own over several steps: sessions, protocols, concurrent
tasks, games, file formats. The largest by far is `maltty`, a copy of PuTTY with
an SSH server beside it; of its SSH-2 stack the two layers in which the order of
events decides are modelled. Where a program's purpose is to mishandle memory or
to be decoded by hand, nothing is modelled (see *What is not modelled*).

Correctness is what is stated here: that a hand is paid once, that a wait ends,
that what was saved is loaded. Paths such as `cards/challenge/src/game.go` are
relative to the repository.

## Inventory

| Program | State | Operations | Interaction | What is hard |
|---|---|---|---|---|
| `cards`, server (Go) | session: deck, two hands, stood flag, bet, balance; sealed into each answer | deal, hit, stand, double, each accepted or refused | HTTP with the page; keeps nothing itself | order of the calls, the dealer's loop, the end of the deck |
| `cards`, page (JavaScript) | session of the last answer, button flags, cards on the table, pending timers | clicks, answers, failures, timers | requests to the server, `setTimeout` callbacks | clicks, answers and timers interleave |
| `smart-locky`, client (C, FreeRTOS) | retry counter, desired flag, event group, event queue, sockets | button, unlock task, Wi-Fi event handler | three threads of control share variables without a lock; Wi-Fi driver and server outside | interleavings, late events, a wait without timeout |
| `smart-locky`, server (Python) | none between connections | compares a password | TCP | split reads |
| `rsa-debugger` (Go) | key p, q, n, e, d; held message and its target | setp, setq, sete, resetkey, holdmsg, attack, queries | one process per connection | setters that give up half-way; a sentinel value |
| `config-me` (Rust) | map of clear and encrypted values; files | name, add, remove, save, load, quit | text files | the format does not round-trip; writes that fail |
| `gman`, game (C) | level, lives, score, positions, pellets, random sequence | turn of the main loop, menu, passwords | password grid | tunnels, double death check, level/score/password agreement |
| `gman`, password (C) | 7 x 7 grid, cursor | print, edit, validate | screen and a human who copies | symmetry and checksum must catch mistakes |
| `maltty`, channels (C: `ssh2connection.c`, `portfwd.c`) | at each end: halves of a channel that are open or closed, windows both ways, buffer, winadj requests under way, the forwarded socket with its backlog | open, confirm, refuse, data, window, EOF, CLOSE; socket read, socket error, throttle | packets between the two ends, sockets below, local programs beyond them | both ends and both sockets act at once; closing waits for both EOFs, the buffer and every answer; numbers are used again |
| `maltty`, key exchange (C: `ssh2transport.c`, `ssh2bpp.c`) | at each end: where the coroutine waits, its queued callbacks, four packet queues, the key of each direction | KEXINIT to NEWKEYS, service request, re-exchange for a timer, a user, new settings, or the far end | packets between the ends; holds back the packets of the layers above | both ends may begin; keys change in the middle of a stream; a coroutine that nobody calls sleeps |
| `mentalist` (Go) | generator, score, rounds | guess | line protocol | modular arithmetic, end of the session |
| `recipes` (Go) | users, sessions, recipes in a database | signup, login, recipe handlers | HTTP, JWT | interleaved requests |
| `simple-todos` (Meteor) | shared tasks | insert, remove, check, private | publications | concurrent clients |
| `chameleon`, server (Ruby) | key table, rewritten to a file | store, fetch | HTTP | partial failure |
| `ripc4` (C) | key, state, text | command loop | stdin | order of the commands |
| `hashpop` (C) | none | decode, hash | stdin | codec boundaries |

What makes each of the modelled programs correct:

- *cards server*: the balance never goes negative; every bet is taken once and
  every hand paid once, at the rules' odds; no card is dealt twice within a
  hand; the dealer finishes.
- *cards page*: one move at a time; after a move the next one can be made; the table
  ends up showing the hands.
- *smart-locky*: the unlock task wakes up again; retries are bounded; sockets
  are given back.
- *rsa-debugger*: the five key fields belong together after every sequence of
  accepted and refused setters; a key that is used works.
- *config-me*: what save() wrote, load() brings back; sealed values stay sealed.
- *SSH channels*: the two programs see what a TCP connection would show them; the
  window is kept; no packet meets a channel that is not there; nothing that is
  owed (bytes, an EOF, a CLOSE) stays undelivered.
- *SSH key exchange*: what is decrypted was encrypted under the same key; nothing of
  the higher layers is sent during an exchange, lost or reordered by it; every
  exchange ends, and the settings come into force.
- *gman*: nobody walks into walls or through each other; score, level, lives and
  password agree; a wrong copy of a password is noticed.

Everything in this code that a test would hardly reach is listed with its line
under "hazards" in `PROJECT.json`, with the properties that guard it.

## Modules

| Module | Models | State and actions |
|---|---|---|
| `Blackjack` | `cards/challenge/src/{game,deck,api}.go` | Variables are the fields of `Session` and `Game` plus `pc`, the handler whose dealer is still drawing. One action per handler and outcome: `Deal`/`DealRefused`, `Hit`, `Stand`, `Double`/`DoubleRefused`, `NotPlaying`; `DealerTakesCard` is one round of the loop in `DealerPlay()`. The shuffle is chosen lazily, card by card. |
| `CardTable` | `cards/challenge/src/static/blackjack.js` | `session`, `allDisabled`, requests in flight, the cards in the two divs, the pending timers. `Click`, `Answered`, `Failed`, `Hangs`, `Loaded`, `LoadFailed`, `TimerFires`. `silent` is history: some request ended without a word to the player. |
| `SmartLocky` | `smart-locky/challenge/client/main/main.c`, with the server's answer as the outcome of `Send` | The globals `s_retry_num`, `s_connect_desired`, `s_wifi_event_group`, a program counter for each thread, the event queue. Every statement of `wifi_init_sta()` that touches shared state is an action; so are the test, read and write of `s_retry_num++`. The driver (`WifiConnect`, `Connects`, `Disconnects`) is external: what main.c sees of it. `early` is history: a bit was set in answer to `esp_wifi_start()` before the task cleared the bits. |
| `RsaDebugger` | `rsa-debugger/challenge/rsa.go` | `key`, `CurMsg`, `TargMsg`. Each setter in its three outcomes: accepted, refused by a test, not parsed. `math/big` is modelled by what it computes in the Go version that built the program. |
| `ConfigMe` | `config-me/challenge/src/main.rs` | The map, the files as sequences of lines, and the keys save() has yet to write. Each written line is a step, so that a failure can fall between any two or inside one. |
| `PasswordGrid` | `gman/challenge/src/password.c`: codec | No variables: bits, cells, checksum, `print_password`, `validate_password`. A grid is the set of its filled cells. |
| `GmanPassword` | `password.c`: screens | Extends `PasswordGrid` with the editor: `CopyPassword`, `MoveCursor`, `Toggle`, `Submit`, `Dismiss`, `Leave`. Its specification is `ScreensSpec`, so that it can be composed with `Gman`. |
| `Gman` | `gman/challenge/src/gman.c` | Extends `PasswordGrid` with the game. A turn is one action whose variants are its outcomes, in the order of `tick()`: `Win`, `WalkInto` (first look), `Prowl` (ghosts move, second look). `Die`, `show_password` and `reset` are the shared parts. |
| `GmanProgram` | `gman.c`, `main_menu()` and `go()` over `password.c` | The whole program: `Gman` and `GmanPassword` together. `TypePassword` is a step of the editor inside the menu, `TryAgain` the next attempt, `StartNew` and `StartRestored` the two ways into the game (the second with what the editor returned), `PlayOn` the main loop. `SetAside` forgets the editor's local variables. |
| `GmanBoards` | the table `BOARDS` of `gman.c` | The four real boards, row by row, and an assumption TLC evaluates on them: tunnels meet, everyone starts on the floor, every pellet can be reached. |
| `SshChannel` | `maltty/challenge/src/ssh2connection.c` over `portfwd.c` | `ch[e]` is `struct ssh2_channel` of end `e` with the forwarded socket below it and the packets it has under way; `prog[e]` is what the program at that end did and saw: `got` counts what it has read, not what waits in its socket (`backlog`). Packet handlers are operators from channel to channel (`GotData`, `GotClose`, ...), each with the calls the C function makes at its end; actions are the callbacks: `Accept`, `SocketData`, `SocketEof`, `SocketError`, `SocketSent`, `ThrottleAll`/`UnthrottleAll`, `Receive...`. |
| `ForwardedPipe` | what forwarding a port promises | Abstract: a pair of byte streams, each with what was written, what the other program has read, and its end. The end comes after the last byte as long as the reader's own stream is open; if both have ended, the code may throw away what is unread, and the pipe allows it. `SshChannel` implements it (`Pipe`, `IsForwardedPipe`). |
| `SshRekey` | `maltty/challenge/src/ssh2transport.c` over `ssh2bpp.c` | `t[e]` is the transport layer of end `e`: `pc` is where the coroutine waits (one value for each `crMaybeWaitUntilV`), `calls` the callbacks that are queued for it, `held`/`in_pq`/`out_pq`/`wire` its packet queues, `outkey`/`inkey` the BPP's keys. Actions: `Marshal`, `Decrypt` (the BPP), `Enter`, `Resume`, `Doze`, `Loop`, `PassUp` (the coroutine, run by a callback), `Answer` (the user), `HigherSend`, `Request`, `AuthDone` (the user is authenticated), `Reconfigure`. `stages` is history: when the settings were changed. |
| `MC...` | | Constants of the instances that are model-checked. |
| `...Proofs` | | Theorems and their proofs, one module for each program (`GmanProofs` for the game, the editor and the codec; `SshChannelProofs` and `SshRekeyProofs` for the two layers of `maltty`). |

How they compose: `CardTable` contains what the page sees of `Blackjack` (the
set `Answers(method, session)`), not the module itself; that every answer of
`Blackjack` is among those is not shown. `GmanProgram`
composes the game, its menu and the password screen: the game goes on from what the
editor returned, and the editor is given what an earlier process printed; `Gman` by itself takes
at its menu any password that some game has shown, and the program is shown to implement
it (`ProgramIsGame`). `SshChannel` composes the two ends of a connection, each
the same code in another role, and refines `ForwardedPipe`; `SshRekey` composes two
transport layers in the same way. The stack is cut between these two: to a channel, the
layers below are queues that neither lose nor reorder, and that is what
`KeysMatch` and `HigherInOrder` say of the transport layer (packets under the right
key, each once, in order).

A definition named `X_Something`, with a comment "As if ...", is a variant of
`X` with a plausible bug. No specification uses it; it is there to show that
the property listed with it in `PROJECT.json` ("mutants") fails when the code is
wrong in that way.

## Runs

| Run | Checks | Shows |
|---|---|---|
| `blackjack` | `NeverBroke NoReshuffle SettledOnce PlayedOut HandlersReturn` | Every sequence of deals (with bets below, inside and above the limits), hits, stands, doubles and refusals on a few chips. |
| `card_table` | `TypeOK OneMoveAtATime TableShowsHands PlayCanGoOn` | Clicks at any moment, answers that are refused, do not parse or never come, timers still pending. |
| `smart_locky` | `RetryBounded SocketsAccounted SomeoneWillWake WaitEndsUnlessEarly` | All interleavings of the three threads. |
| `smart_locky_erased` | `WaitEnds` is violated | The bit that says the station is up is set before the bits are cleared, and erased: the task waits for ever. |
| `rsa_debugger` | `TypeOK KeyConsistent KeyPairWorks FlagEarned` | Every sequence of accepted, refused and unparsable commands. |
| `config_me` | `RoundTrip LoadedIsStable SecretsStaySealed` | Edits, saves in every order of entries, a failed write at any line, loads, restarts. |
| `gman` | `TypeOK StaysOnFloor ScoreIsEarned PasswordReturnsHere CopyIsTaken SlipsAreCaught NoJump GoesOnAsPrinted` | The whole program: a password copied and typed with up to two wrong cells, refused, corrected, left and tried again; then whole games over two boards with two ghosts, deaths, wins, passwords. |
| `ssh_channel` | `TypeOK NoProtocolError WindowRespected NotStuckFrozen IsForwardedPipe EverythingSettles` | Two connections one after the other over a forwarded port, both ends in every interleaving: a socket that fails, one that fills up, an SSH connection that backs up, a destination that refuses. What each program reads is what the other wrote, and nothing that is owed stays owed. |
| `ssh_channel_opening` | `NothingLost` is violated | The SSH connection backs up and clears while a channel waits for its confirmation: the socket is read too early and the bytes are thrown away. |
| `ssh_channel_cut` | `NothingCut` is violated | CLOSE arrives while a program has not read all that its socket holds: the rest is thrown away, and the program is shown an ordinary end. |
| `ssh_rekey` | `TypeOK KeysMatch NoErrorUnlessEarly QuietDuringExchange HigherInOrder ExchangesSettle` | The first exchange and the later ones, asked for at either end or at both at once, while both higher layers send and the settings change, at any time. |
| `ssh_rekey_settings` | `SettingsInForce` is violated | The settings change before the user is authenticated: the request for new keys is wiped out or written over, or, in the first exchange, it ends in an error. They never come into force. |

The type invariants of `Blackjack`, `SmartLocky`, `ConfigMe` and `GmanPassword` are proved for
every value of the constants (below) and are not among the runs' properties.

The violated properties each quote what a comment or the displayed rules say;
"findings" in `PROJECT.json` gives both lines. In short:

1. `smart-locky/challenge/client/main/main.c:119`: "Clear bits first" comes after
   `esp_wifi_start()` (line 113). If the task is held up between the two for as long as a
   connection takes, `WIFI_CONNECTED_BIT` is erased and `xEventGroupWaitBits()`, which has no
   timeout, does not return.
2. `maltty/challenge/src/ssh2connection.c:1669`: when the client's SSH socket clears,
   `ssh2_throttle_all_channels()` unfreezes the sockets of half-open channels too,
   and `pfd_receive()` drops what it reads before the channel is ready
   (`portfwd.c:416`). "Freeze the socket until the SSH server confirms the
   connection" (`portfwd.c:408`).
3. `maltty/challenge/src/ssh2connection.c:1228`: CLOSE destroys the channel, its socket and
   what that has not passed on (`unix/uxnet.c:1010`). It comes when both programs have
   ended their streams, and one of them is slow to read. "It answers you exactly as if it
   were the service running on the destination machine" (`doc/using.but:452`).
4. `maltty/challenge/src/ssh2transport.c:1475`: `rekey_class` is reset on the way into the
   loop, and with it goes a change of settings made since the exchange ended ("This allows
   you to adjust most properties of your current session", `doc/using.but:287`).
   `notify_auth_done` (line 1829) writes over it likewise. A change in the first exchange
   fails otherwise: "Loop straight back round if we have a deferred rekey reason" (line 1406)
   takes the client to a KEXINIT that the server, at the end of the first exchange, does not
   expect ("Received unexpected packet when expecting SERVICE_REQUEST", line 1449).

In the passing runs, what is left when a flaw is taken for what it is has a
property of its own, conditional on the history that tells the flaw happened:
`PlayCanGoOn` (unless `silent`), `WaitEndsUnlessEarly` and `SomeoneWillWake` (unless `early`),
`NoErrorUnlessEarly` and `ExchangesSettle` (by `stages`), and the end of a stream in
`ForwardedPipe` (while the reader's own stream is open). No behaviour is left out for it.

Other places where the code and its words disagree, met while modelling. No run is
spent on them. The first three are stated as properties, which the models violate when TLC
is asked (`EveryHandSettled` of `Blackjack`, `ButtonsReturn` of `CardTable`, `HeldPacketsGoOut`
of `SshRekey`):

- `game.go:292`: `Double()` ends with `Stand()` and without `Score()`, so that a doubled hand
  that wins or ties is never paid; the comments of `Score()` give every hand won
  "Original bet + win" (`game.go:336`).
- `blackjack.js:49`: `$.ajax` is given no timeout, so that the branch `'Network timeout, please
  try again.'` (line 44) is never taken: a request that hangs, and an answer that does not
  parse, leave `allDisabled` set.
- `ssh2transport.c:1477`: a packet that the layer above queues while the coroutine waits for
  the far end's NEWKEYS has spent its callback on that wait. When NEWKEYS arrives the loop is
  entered by `crReturnV`, before it looks at `pq_out_higher`: the packet stays until the next
  callback. "Now our end of the key exchange is complete, we can send all our queued
  higher-layer packets" (lines 1340-1342).
- `game.go:157`: `soft17()` is also true of a hard 17 that holds an ace; the page says
  (`index.html:33`) that the dealer hits soft 17.
- `main.c:61` of the lock: `WIFI_FAIL_BIT` is also set for the disconnection of an
  earlier session, where its comment (`main.c:30`) says it means that all retries failed.
- `gman.c:493`: "If it can't turn, just keep going" leaves a ghost in a dead end of the
  fourth board, where going on is not possible (the comment at `gman.c:484` has it
  choose among the ways it can go).

### Bounds

- `blackjack`: the deck is the real one, but only shuffles that bring up aces,
  sixes and tens are explored (`Explored`): these reach every outcome, blackjack
  on both sides, soft and hard 17, and long hands. `MinBet = 2`, `MaxBet = 3` and bets from -1 to
  4 cover both sides of both limits and an odd stake; five chips are enough to
  be unable to bet and `BalanceCap` stops new hands above the goal's
  neighbourhood. The theorems do without all of these bounds.
- `card_table`: hands of four cards (a deal, two hits and a dealer's draw) and no
  click while three timers are pending: old and new timers of both divs overlap
  in every order. Hands are numbered modulo 2: the page compares a card with
  the one before only. 57 000 distinct states.
- `smart_locky`: two retries (none, some and all of them spent), two sockets (so
  that the second one can be the last), one pending click, and no new click or
  lost link while two events are queued. A click during an unlock is pending
  until the next `ulTaskNotifyTake`, which takes all of them at once, so that one
  stands for several. 94 000 distinct states.
- `rsa_debugger`: typed numbers from -1 (the sentinel) to 11, with five primes,
  even numbers, 0 and 1; every key with p, q <= 11.
- `config_me`: two plain keys, one with a colon that collides with one of them, an
  ordinary text, one that looks encrypted and is valid hex, one that is not, one
  secret; one file. A second file adds no interaction: the file that is loaded
  and the one that is saved are told apart by nothing in the code.
- `gman`: boards of 4 x 3 with a tunnel each way, two ghosts, two boards in a
  row, one life more than zero, and lives bytes on both sides of the sign. The
  passwords that are typed are those of two levels and two lives bytes, which give four
  different grids, with at most two wrong cells at once, anywhere; attempts are not
  bounded. The end of the last board is shown but not left (the code would use a board that
  is not there, `gman.c:441`). 792 000 distinct states.
- `ssh_channel`: a window of one byte that grows once (`WinSize = 1`, `GrowBelow = 2`),
  packets of one byte, reads of one or two: with two bytes to send the client's buffer
  outlasts its window, data waits behind data, and EOF behind both. The second
  connection uses the channel number of the first while packets of that one may be on
  their way. One socket failure and one back-up are placed anywhere.
  `BackupAnytime = FALSE` keeps the back-up out of the time a channel is half-open, which
  is what `ssh_channel_opening` (`TRUE`, one connection of a byte each way) is about. A
  socket passes on all it holds or nothing. 281 000 distinct states.
  `ssh_channel_cut` needs one connection of a byte each way, and neither failure nor back-up.
- `ssh_rekey`: two packets from the client's higher layer and one from the server's, a
  request for new keys at each end and one change of settings: up to four exchanges, two
  of them begun at both ends at once. The change comes at any
  time, from before the first exchange on; `stages` remembers whether it came in the
  first exchange, between exchanges before the user was authenticated, or otherwise, since what
  the code makes of it differs. 742 000 distinct states. `ssh_rekey_settings` needs
  one packet from each end.

`CHECK_DEADLOCK FALSE` is set where the program really stops: the page when it has
no session or no buttons (`CardTable`), the lock when its task waits for ever, the debugger after
`exit` or `attack`, the game after its end and when no boards are left, and the two SSH
models, which come to rest when the bounded number of things that programs and users do is
used up.

### Fairness

- `Blackjack`: weak fairness of `DealerTakesCard`: a handler that was entered runs
  to its end. Nothing is assumed of the player.
- `CardTable`: weak fairness of what becomes of a request (it is answered, fails,
  or hangs for ever: `$.ajax` sets no timeout) and of `TimerFires`. Nothing is assumed
  of clicks, nor that any request succeeds.
- `SmartLocky`: weak fairness of the unlock task's own steps and of the event
  handler's (FreeRTOS schedules both; nothing of higher priority runs for ever),
  and of an association attempt, which ends one way or the other. How long the task is
  held up between two statements is left open. Nothing is assumed of the player, of the
  server, or of an access point that is lost.
- `SshChannel`: weak fairness of `Proceed`, what goes on by itself: packets arrive (TCP
  carries them), programs read what is in their sockets, a backed-up SSH socket drains.
  Nothing is assumed of the programs' writing or ending, nor of sockets failing.
- `SshRekey`: weak fairness of `Proceed` (queued callbacks run, packets arrive, the user
  answers a question) and of `Authenticate`: the client's user authentication sends its
  first request unasked. That one is needed: an exchange the server asks for right
  behind its SERVICE_ACCEPT finds the client's coroutine at the head of its loop with the
  KEXINIT queued and no callback, and it is this packet that calls it.
- The other modules state safety only.

## Proofs

TLC checks instances; the theorems hold for every value of the constants that
satisfies the named assumptions of the module. Each proof is an inductive
invariant, one lemma for each action (or group of actions), and a temporal step.

- **`BlackjackProofs`** (`BlackjackAssumption`: a minimal bet of at least one chip,
  any bets, limits and shuffles). Invariant: the five checked invariants and
  `Weights`: every card weighs at least one, so a hand has at most as many cards
  as points. Without it `NoReshuffle` is not inductive: it is the points that bound
  the cards, and 52 of them that bound the deck. Proved: `TypeCorrect` (`TypeOK`),
  `BalanceNeverNegative`, `DeckOutlastsHand`, `HandsSettledOnce`, `HandsPlayedOut`.
- **`SmartLockyProofs`**. `RetryStaysBounded` needs what the handler knows in the
  middle of `s_retry_num++`: between its test and its write the counter is below
  the maximum, because everything the other thread does to it is set it to zero.
  `OnlyConnectLeaks` counts sockets along the task's control points.
  `NobodySleepsAlone` proves `SomeoneWillWake` from `WakeInv`, which follows the events
  through the driver's queue from `esp_wifi_start()` on, without an assumption on how long
  the task takes to its next statement. While the unlock has no outcome yet (`Pending`: the task
  is about to clear the bits, or waits without one, and no bit came early), a station that
  is up has its GOT_IP last in the queue, and there is an event, a handler in the middle of
  one, or a connecting station. A bit that is set while the START is still queued is of an
  earlier session, and the START outlives it; one set later is `early`. `TypesKept` proves `TypeOK`.
- **`RsaDebuggerProofs`** (any set of typed numbers, of messages and of targets).
  `KeyConsistent` is not inductive: a prime could be -1 as far as it knows. The invariant
  `IInv` adds that p and q are unset or greater than one; from it, `KeyStaysConsistent`.
  `KeyPairWorks` needs number theory, which is proved from the axioms of arithmetic up.
  Induction and recursion over the naturals come first (`Induction`, `Recursion`), stated
  for sets and functions, since the provers cannot instantiate the library's theorems about
  operators: a set that holds 0 and all successors leaves out no least number. On these stand
  divisibility and congruences, powers (`ExpIsPow`: `Exp` computes the remainder of the
  power), the least positive combination of two numbers (`LeastCombination`, and from
  it that a prime which divides a product divides a factor), the binomial coefficients and
  Fermat's theorem (`Fermat`), and RSA itself (`RsaInverts`). `InverseExists` is what
  `set_e()` relies on when it ignores the result of `ModInverse`: coprime to p - 1 and to
  q - 1, e is invertible modulo their product. The invariant `Paired` says that p and q are
  different primes and that d is the inverse of e. `Targeted` says that a target belongs to
  the message that is held and is prime; that `next_prime` finds one is Euclid's theorem
  (`NextPrimeIsPrime`), and the reason for the bound n! + 1 of its search. Proved: `TypesKept`,
  `KeyStaysConsistent`, `KeyPairsWork`, `FlagIsEarned`.
- **`ConfigMeProofs`**. Invariant: types, every secret in memory is sealed, and
  `SaveSoFar`, which says that the file being written holds exactly the entries
  already taken out of `todo`, one line each. Proved: `SaveLoadRoundTrip`,
  `LoadedStaysStable`, `SecretsAreSealed`, `TypesKept`.
- **`GmanProofs`**, in four parts. The codec: `PasswordRoundTrip` (the three bytes come
  back, through masks, bits and cells) and `ValidGridsFarApart` (two valid grids differ in
  three cells or more). The second: a cell of the visited half drags its mirror image
  along, and if it is the only one the count changes by one, so the parity, so the
  centre. The editor: `ScreensTypeCorrect`, `CopyAlwaysTaken`, `SlipsAlwaysCaught`, from
  those two and an invariant that ties the result to the grid that was accepted. The
  game (`BoardsAssumption`: boards of any size whose tunnels meet, at
  most 255 levels; any number of ghosts): `OnFloor` is about the states before a
  turn only: while a password is shown, the level is already the next one and the
  positions are still the old ones; `reset` brings them together. `ShowsState` keeps
  the seed that ties the password to the random sequence. `Counted` keeps the number
  of cells left behind and eaten. Proved: `GameTypeCorrect`, `EveryoneOnFloor`,
  `NobodyJumps`, `ScoreAlwaysEarned`, `PasswordAlwaysReturns`.
  That the real boards satisfy the assumption is evaluated by TLC (`GmanBoards`).
  The program: its invariant joins the editor's with `Typed`, that the copy being typed, and
  the one that was taken, has no more wrong cells than `MaxSlips`. If those are two at most,
  what the editor returns is what was printed (`TakenIsPrinted`), so that `GmanProgram`
  implements `Gman` (`ProgramIsGame`) and the theorems about the game hold of it, as those
  about the editor do (`ProgramScreens`); and a game goes on as its password was printed
  (`GoesOnRight`).
- **`CardTableProofs`** (`CardTableAssumption`: hands and numbers of timers of any size).
  `TableShowsHands` says something of the moments when everything is at rest; what holds in
  between is `Drawing`: at most one timer for each div, whose animations are exactly the cards that the
  div lacks (`OnWay`), and a div without a timer is complete. It is kept because a timer
  holds cards to append and nothing else (a replace is the first of its queue and done at
  once), because an answer finds no timer running unless somebody rushed, and because the
  answer to anything but a deal adds to the hands and turns over their first card at most
  (`Follows`, `Ready`). `OneOut` says of the request under way that it is the only one, which
  session it carries and that the buttons wait for it; from it, `OneMoveAtATime`.
  `Waits`: without a request out and unless one ended without a word, the buttons are not
  disabled; that some button is then enabled in every state a session can be in gives
  `PlayCanGoOn`. Proved: `TypesKept`, `MovesInTurn`, `TableIsRight`, `GameGoesOn`.
- **`SshRekeyProofs`** (`RekeyAssumption`: any number of packets, requests and changes). A
  step of one end is seen as two halves, what it sends (`Sends`) and what it takes from the
  packets that arrived (`Takes`), and each operator of the coroutine is shown to be such a
  pair (`Turn`). The invariant `IInv` has one conjunct per question: `Phase`: how far
  KEXINITs and keys have come is a function of where the coroutine waits; without it,
  nothing says that the two ends count the same exchanges. `Chain`: along the wire the key
  changes after each NEWKEYS and only there, and `OldestKey = NextInKey`: the oldest packet
  under way is under the key that the receiver has, or will have when its coroutine has
  taken the NEWKEYS at which the BPP stopped (`Stopped`). From these, `KeysMatch`.
  `Numbered`: KEXINITs and higher-layer packets are numbered without gap from what the
  receiver took to what the sender sent; with `HeldInOrder` for the queue of those held
  back, `HigherInOrder`. `Silent`: between a KEXINIT in the stream and a higher-layer packet
  there is a NEWKEYS, and an end that has sent its own NEWKEYS has closed its last KEXINIT,
  which is what lets it send again. From it, `QuietDuringExchange`. `Orderly`, for
  `NoErrorUnlessEarly`: the stage at which an end reads, and the one at which it writes, are
  functions of the place its coroutine waits at (`Reads`, `Writes`), and the packets under
  way lead from the stage at which one end reads to the one at which the other writes
  (`Leads`), along the transport's only order: KEXINIT, exchange, NEWKEYS, the service
  packets, and so on. `Fit` says what an end can have in each place; one of its parts, that
  nothing is deferred before the higher layer runs, is what a change in the first exchange
  breaks, so that `Orderly` is invariant as long as `stages` has no "first". Changes at
  login and after it, put off or not, are covered. Proved: `TypesKept`, `KeysAlwaysMatch`,
  `AlwaysQuiet`, `AlwaysInOrder`, `NoErrors`, none with a condition on the constants.
- **`SshChannelProofs`** (`SshAssumption`: any windows, packets and programs, any number of
  connections, failures and back-ups). What the two ends know of each other is in
  the queues between them, so the invariant adds up what a queue carries. Instead of a sum
  by recursion, `Adds(q, k, v)` says that there is a function that counts the queue down to
  nothing and begins with `v`, and lemmas say what sending and taking a packet does to it.
  For each direction:
  `Window` (what may be sent yet, the data under way and the window on its way back
  fit into the receiver's window), `Answered` (requests, answers and those waited for) and
  `Stream` (no data behind an EOF, nothing behind a CLOSE). A channel that is gone at one end
  is treated as if it were there, had sent all it had to and kept silent (`Left`), so that
  what is proved of two live ends serves for the packets of an old connection too. Five
  situations of the pair (and one of asking for a channel) cover its life.
  On top of it stands the refinement, `PipeKept`: `SshChannel` implements `ForwardedPipe`, step
  by step. Its invariant is `Agree`: a live end keeps account of its program
  (`Own`: what was written is what was sent and what is in the buffer), what an end has sent
  is what the far program has read, what its socket keeps and the data under way (`Given`); once
  an end has heard the EOF, what its program has not read of the stream is in its socket
  (`Heard`), so that the end shown when the socket is empty comes after the last byte; and when
  one of the two is gone, both programs are through with the connection (`Over`), and each
  has been shown so (`Shut`), so that the next one may take its place. A step is seen by the
  programs in one of five ways (`Writes`, `Finishes`, `Breaks`, `Hears`, `HearsEnd`), or as
  a new connection, or not at all, and each is an action of the pipe (`SeenSteps`,
  `SeenRenews`, `SeenStays`). `PipeKept` and `NoneIsLost` assume `BackupAnytime = FALSE`,
  that the connection does not back up or clear while a channel waits for its confirmation:
  otherwise bytes are thrown away, as `ssh_channel_opening` shows. Proved: `TypesKept`,
  `NoErrors`, `WindowKept`, `NeverStuck` for every value of the constants; `PipeKept` and
  `NoneIsLost` for `BackupAnytime = FALSE`.

Only model-checked:

- liveness (`HandlersReturn`, `WaitEndsUnlessEarly`, `EverythingSettles`,
  `ExchangesSettle`): fairness and ENABLED are out of the proof system's reach.

Everything else that a passing run checks is proved.

## What is not modelled

Within the modelled programs: texts, colours, delays and logging; the ciphers
(a sealed value is represented by what it decrypts to); `smart-locky`'s screen
buffer and display toggle, its decryption of stored secrets, and its stack and heap;
`gman`'s drawing, its high-score file, and its levels past the last board; the
bet slider of the card page. Of the SSH channels: sessions, X11, agents, connection
sharing, remote forwarding and SOCKS, several channels at once (they share only the
connection's throttle), and the server's own output limit. Of the key exchange: the methods
themselves (one packet each way stands for each), negotiation, GSS, delayed compression (but
for the choice it makes of a change of settings: noted, or put off while an answer of the
user authentication is awaited) and rekeying after an amount of data (one more reason to
ask). `PROJECT.json` lists under "components" every other
program with the reason it is left out. The reasons are of these kinds:

- it could be modelled next (below);
- it makes one pass over one input and keeps no state (`ruler`, `hurdles`,
  `decrypto-*`, `eavesdropper`, ...);
- mishandling memory is its purpose, so that it has no intended behaviour to state
  (`adding-machine`, `kvaas`, `webbleed`);
- it is vendored or third-party (the rest of `maltty`, most of `bulls23`, the JWT package of
  `recipes`): PuTTY alone is nine tenths of the repository, and its terminal, its windows
  for three systems, SSH-1, SFTP and the ciphers draw, parse or compute;
- it needs what neither tool can evaluate (elliptic curves, signatures over random
  bytes);
- it has no code.

### Seen and not covered

Places that the models leave out, or where no property of the code's own says what
should happen:

- `ssh2connection.c:1185`: `throttled_by_backlog` is read and never set.
- `portfwd.c:120`: after a socket error the zombie channel still grants window and asks
  for answers to it, each of which puts off the CLOSE for as long as the far end has data to send.
- `ssh2connection.c:942`: an adjustment that is "pretended" acknowledged is counted again when an
  earlier winadj answer arrives; the window may grow later than it should.
- `portfwd.c:669`: a channel confirmed while the connection is backed up is unfrozen.
- `sshserver.c:159-176` and `382-387`: the server's throttling is compiled out, and so is the
  callback that resumes its output after a backlog.
- `ssh2transport.c:1086`: `client_kexinit` is reset where `outgoing_kexinit` is meant: a server's
  second KEXINIT has its first one in front, and it is that one the client reads.
  Both ends still hash the same bytes, so that the model's keys match.
- `ssh2bpp.c:865`: with delayed compression pending, packets other than user authentication
  wait for the end of it.
- `blackjack.js:7`: a lost first request leaves the page without a session; the first click
  then disables its buttons. `blackjack.js:128`: nothing cancels the timers of the last hand
  when a new one is dealt. `main.c:208`: `recv()` without a timeout. `main.c:217`: any answer
  shows as unlocked. `main.c:150`: clicks during an unlock are taken as one.
  `main.c:248`: two tasks print at start. `main.rs:162`: the file is truncated before it is
  written. `gman.c:441`: the level goes past the last board.

## What could be modelled next

Programs with a state of their own that are left, the most stateful first; each is small, and
none interacts with the ones above:

1. `recipes`: users, sessions and recipes as the steps of interleaved requests, against a store
   of recipes per user.
2. `chameleon`, server: the table in memory and the file rewritten on every store, with a crash
   between the two, against a map that only grows.
3. `mentalist`: rounds, score and goal over the generator as a recurrence modulo m.
4. `simple-todos`: methods and publication over shared tasks.
5. `ripc4`: the commands that are legal in each state of the cipher.
6. `hashpop`: base64 and URL decoding against a reference definition over bounded inputs.
7. An abstract blackjack table that `Blackjack` implements for hands that are not doubled, and
   the page over the server.
8. `maltty`: several channels over one throttle, and remote forwarding, as an extension of
   `SshChannel`; user authentication above `SshRekey`.
