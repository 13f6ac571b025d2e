# Verification of the Oblivia protocol

TLA+ models of Oblivia: anonymous signatures on contracts and M-of-N agreements,
verified on Solana by a Groth16 proof and sponsored by a relay. The modules are
model-checked with TLC on small instances. Proved with TLAPS, for all instances:
every safety property the passing runs check, among them that the on-chain
program, and the relay and the SDK with it, implement an abstract agreement.
Liveness is model-checked only.
Paths below are relative to the repository.

## 1. The system

| Component | Code | State | Operations |
|---|---|---|---|
| On-chain program | `oblivia-contracts/programs/oblivia-contracts/src/` | PDA accounts: registry, contracts, receipts (`ObliviaSignature`), signer records, agreements (`MultiSigContract`), members | `initialize`, `register_contract`, `create_multisig`, `verify_groth16_v2`, `record_verified_multisig`, `finalize_multisig`, `verify_signature`; two retired instructions that always refuse |
| Circuit and prover | `zk_groth16/oblivia.circom`, `sdk/lib/groth16_intent.js` | none | prove: the holder of a key signs a contract hash at a time |
| Relay endpoints | `relay/server.js`, `sdk/lib/account_state.js`, `sdk/lib/multisig_config.js` | only what each async handler holds between awaits | `POST /sign`, `/multisig/create`, `/multisig/sign`; `GET /multisig/status` |
| Sponsor budget | `relay/sponsor_budget.js`, `relay/server.js:75-95` | promise queue, day, baseline, last balance, reservations | `acquire`, its release, queued observations |
| Rate limit | `relay/server.js:64-73` | `relayWindows` | `limitSponsoredRequest` |
| SDK | `sdk/index.js`, `sdk/lib/anchor_integration.js` | what each async call holds between awaits | `signContract`, `createMultiSigContract`, `signMultiSig`, `finalizeMultiSigContract`, `initializeRegistry` |
| Passkeys and keys | `sdk/lib/passkey.js`, `signer_key.js`, `passkey_domain.js`, `browser-client/src/passkey_config.js` | the platform keychain | check the domain, create, unlock, derive |
| Signing page | `browser-client/src/main.js` | unlocked passkey, session receipts, button, result box | unlock, edit, sign |
| Multisig page | `browser-client/src/multisig.js` | sign mode: status revision, known finalization, secret, button, progress line; create mode: form, creation under way, share link | look up status, unlock and sign; create and share |
| Trusted setup and release | `zk_groth16/ceremony/ceremony.sh`, `build.rs`, `docs/DEPLOYMENT.md` | zkeys of the coordinator and the contributors, installed and deployed keys | `init`, `contribute`, `beacon`, `export`; embed, release, deploy |
| Docs, test and build tools | `tools/`, `zk_groth16/*.js`, `webpack.config.js` | none | generate, drive tests, bundle |

How they interact. A page (or an SDK client) unlocks a passkey, derives one key
per secret and contract, proves, and posts the proof to the relay. A request
passes the rate limit, then the budget check (which waits in one queue and awaits
a balance reading), then its handler, which reads accounts and sends one or two
transactions with the relay's fee payer. The program re-checks everything; the
relay is trusted with nothing but its money. Anyone can also use the program
directly, with the same accounts, and can replay a proof that was ever submitted.

What is hard, per component:

* Program: proofs, public inputs, commitments and accounts are chosen separately
  by callers in any order; several agreements count signers of one contract;
  accounts of earlier releases (signer records written without a proof) are
  still there; a receipt's address depends on the signing time.
* Relay handlers: another request or client initializes the same account between
  a read and a transaction; a confirmation is lost and its transaction lands
  later; two identical transactions are one; half of a request succeeds.
* Budget: a balance is read before an await and used after it; releases come
  early (disconnect, lost confirmation), twice (`finish` and `close`) or never.
* Pages: status answers, prompts, proofs, submissions and other signers'
  progress arrive in any order; the page is reloaded, perhaps at another host;
  the text is edited, the form changes while an agreement is created.
* Trusted setup: files go around by hand and arrive in part; a command is
  interrupted; the next contribution and the export go by file names only; one
  release deploys three parts from four files.

`PROJECT.json` lists the hazards line by line with the properties aimed at them.

## 2. Modules

```
ThresholdAgreement          what an M-of-N agreement promises
   ^ implements                                        ^ implements
ObliviaProgram  --extends-->  ObliviaLedger  <--extends--  Relay
   ^                             ^
ObliviaProgramProofs --> ObliviaLedgerProofs
                                 ^
                    Relay <-- RelayProofs
SponsorBudget    RateLimit    Ceremony
SignPage --extends--> Passkeys        MultisigPage --extends--> CreateMode
XProofs          theorems about X
MC*              instances for TLC
```

**ObliviaLedger** is the program as pure operators on a record of accounts:
`XAccepts(l, ...)` is the Anchor account constraints and `require!`s of
instruction X, `XWrites(l, ...)` the ledger it leaves. PDAs are function domains
or sets, so `init` is "not yet in the domain". A digest is a pair of 16-byte
halves, because the circuit and the program handle the two limbs separately. A
proof is the statement it proves; `PairingHolds` accepts it for exactly those
public inputs. `CircuitSatisfied` is what the circuit enforces, and
`ProofAccepted` what the program compares. `InitialLedger` is a fresh deployment
or one that finds contracts, counters and unproved signer records of earlier
releases. The predicates every reachable ledger must satisfy are stated here
once and used by both state machines and the proofs.

**ObliviaProgram** is the state machine: one action per instruction, any caller,
any accounts and arguments, any proof made so far; `VerifyAndRecord` is the
two-instruction transaction all clients send. A refused transaction changes
nothing (`NoEffect`).

**ThresholdAgreement** is the promise without accounts and proofs: signers
consent, an agreement counts each consenting signer once, and becomes final in
the step that reaches the threshold. Signers may have consented before anything
else happens. `Agreement` of `ObliviaProgram` and of `Relay` is the mapping:
proofs are consents, existing agreement accounts are open, member accounts are
the signers, finalized accounts are final. In `ObliviaProgram` proofs are made as
it runs; in `Relay` the proofs are those of the request bodies, made beforehand.

**Relay** is every client of the program that reads accounts and sends
transactions: the four routes of the relay and the five calls of the SDK.
`Steps` gives each its awaits in the order of the code, `todo[r]` is what
request `r` has left. A read that finds an account drops the step that creates
it (`ReadContract`, `ReadMultisig`); a transaction is confirmed or refused
(`Land`) or its confirmation is lost (`Lose`); `OnFailure` is
`initializeOrReadExisting`, which reads the account again where a creation
failed (`Reread`). Settings are validated on arrival. A request in `Flaky` can
have failing reads and lost confirmations, whose transaction may land later
(`LateLand`) and may be confirmed as the same transaction to another handler
(`SameTx`). `Outsider` is a client that uses the program directly. The effect of
a transaction is the one `ObliviaLedger` gives its instructions. `landed`,
`wasFinal` and `early` (requests that arrived before `initialize`) are history.

**SponsorBudget** models the promise queue literally: a sequence of check and
observe tasks, the reading of the head task as a separate step (`Read`), the rest
of `check` after the await (`CheckBudget`). `Admit` is where the middleware
subscribes to `finish` and `close`; `Reply` and `Disconnect` call `Release`, or
do not if the event came too early. `Send` and `Settle` are the handler's
transactions and what they cost on chain. `overtaken` and `paid` are history
variables, used by properties only.

**RateLimit** is `limitSponsoredRequest` with time as ticks; `passed` is history.

**MultisigPage** is the multisig page; `Load` opens it, in one of its modes, at
any time. In sign mode `pc` is what the click handler awaits (creating,
unlocking, proving, posting); a status lookup is under way independently of it,
tagged with its `statusRevision`. `Count` is any other signer, or a transaction
of an attempt the page has given up on. **CreateMode**, which it extends, is
create mode: `creating` is what `createMultisig` captured before its `await`,
`form` what the inputs hold now, `link` what the share box shows.

**SignPage** is the signing page: edits, passkey changes, proofs and submissions,
with `confirmedReceipts` (by text and key) and `confirmedSignerReceipt`.
`Overwrite` is a change of the editor that the input handler ignores while
signing, which the code has a verdict for (`TEXT CHANGED`). `told` is history:
what the relay has confirmed to this page load. **Passkeys**, which it
extends, has the keychain and the domain rules: `DomainAllowed` is
`checkPasskeyDomain`, `RelyingParty` what the page passes to WebAuthn (or the
host, if it passes nothing), `Temporary` the local and test pages whose signers
are known to be temporary, `Offered` the passkeys an unlock can choose from.
A reload may be at another host, with that host's build.

**Ceremony** is the trusted setup up to the deployed keys. `out` and `desk` are
the `ceremony/out` directories of the coordinator and of the contributor whose
turn it is, by the number in the file name. `Initialize`, `Contribute`,
`Beacon`, `Export` with `Install` (one file each) are the script's commands;
each can leave a partial file (`Written`, `Interrupted`). `Send`, `Return`,
`GiveUp`, `Remove`, `MakeFixture`, `Release` and `Deploy` are what people do, from
`docs/CEREMONY.md`, `docs/CEREMONY_CONTRIBUTOR.md` and `docs/DEPLOYMENT.md`.
`KeyOf` says which installed file each deployed part uses; for the program that is
`build.rs`. A zkey is the list of its contributors.

Operators named `X_Something` are broken variants of `X` (a dropped guard, a
missing reset). They are used by no specification; substituted for `X` they show
that a property can fail.

## 3. What is checked

| Run | Instance | Shows |
|---|---|---|
| `program` | 3 digests (zero; two that share a limb), 2 keys, 1 time, settings up to 2, one legacy contract with an unproved record | types and u8 tallies, every receipt proved, members verified, tally = members, final exactly at the threshold, counters, receipts verifiable, refinement of `ThresholdAgreement` |
| `program_fresh` | 1 usable digest, 2 keys, 2 times, settings up to 3, empty ledger | one receipt per key whatever the time, finality needs a quorum of proofs, `finalize_multisig` is never needed, finality is terminal |
| `relay` | an empty ledger; a flaky relay request (7 bodies), an SDK call (5), a third request or call (4), 2 outside transactions; 220,474 states | answers are true of the chain, a verified co-signer is counted, a contract nobody uses was left by a request under way or failed with valid settings, a request the node answers fails only for what must be refused, refinement of `ThresholdAgreement`, every request is answered |
| `relay_wrong_proof` | one body with a proof for another contract | **violated**: a failed `/sign` has registered its contract |
| `sponsor` | 2 concurrent requests, 2 days, 1 restart, disconnects, failing readings, early answers; 4.9 million states | the floor holds unless a reading was overtaken; its overshoot is bounded |
| `sponsor_live` | 2 requests, 2 days, a top-up, failing readings, no disconnects or restarts; 473,410 states | nothing reserved when idle, every request decided; a day's spending is bounded, and a top-up hides no more spending than its own amount |
| `sponsor_burst` | 2 requests, no disconnects, failures or early answers | **violated**: the floor, by a release between a reading and its use |
| `sponsor_leak` | 2 requests, disconnects | **violated**: a reservation is left behind until the relay restarts |
| `rate_limit` | 2 addresses, limit 2, window 2, time to 7, restarts | at most twice the limit per window length; refusals are justified |
| `multisig_page` | 3 keys, threshold 2, 2 agreements to create, 4 page loads; 26,423 states | claims are true, a shared link leads to an agreement with its settings, finality and receipts stay, no second submission, secrets wiped and the button right, attempts end |
| `sign_page` | 2 texts and the empty one, 2 passkeys, 6 hosts, 1 reload; 202,640 states | results are on chain and match the text and the passkey, permanent passkeys survive moves, what the relay confirmed is neither submitted nor doubted again, attempts end |
| `ceremony` | 2 contributors, file numbers up to 3; 567,134 states | no received contribution is missing from a finished key; a completed release has one key in all three parts |

### Bounds

*Program.* Two keys and settings up to 2 (3 in the fresh run) are the least with
a count below the threshold, one at it, room above it (`maxSigners > threshold`)
and several agreements on one contract. The two non-zero digests differ in one
limb only, so a forgotten limb is visible. The proofs remove these bounds.

*Relay.* One flaky request, one sound call, a third handler (with the same body
as the first, it is its retry) and outsiders are enough for every race between
a read and a transaction: the code reads one or two accounts and retries once.
Bodies include the zero hash, invalid settings, a proof for another contract and
two keys in one agreement of two, so the agreement can become final during a
request. The program starts uninitialized, and an SDK call or an outsider
initializes it before, between or after the requests; legacy accounts are the
`program` run's, and the proofs cover them here too.

*SponsorBudget.* `Reserve = 2*TxCost` is the assumption behind
`reserveLamports` (a request sends at most two transactions). Two slots make one
overtaking request; the stated bounds are in the number of slots. The queue
holds two tasks before arrivals wait (releases can make it longer). The burst
and leak runs switch off everything the counterexample does not need.

*RateLimit.* Limit and window are scaled down from 10 and one hour; the code
compares sums of both only. Time 7 spans more than two windows.

*SponsorBudget, top-up.* The top-up is as large as one reserve and the day
changes once, so it can fall together with the spending of an admitted request
before, on and after the change.

*Pages.* Threshold 2 of 3 keys lets the page's own signature and others' each be
the finalizing one. One page per user is modelled; what other tabs do is
`Count` and `Record`. Two texts and two passkeys are enough to return to an
earlier pair after another, which is what the receipt map is for. The six hosts
are two of the permanent domain, a test build inside it, localhost, the
production build at a host outside of the domain, and one with a production
build nobody configured a domain for. Four loads let the multisig
page create, be left with a creation under way, and sign.

*Ceremony.* Two contributors and four file numbers are enough for a contributor
who starts over, one who contributes twice, one who drops out and a file removed
by hand; exports and releases can be repeated without bound.

### Fairness

*Relay*: each handler keeps stepping (web3.js answers every call or throws; the
confirmation of a transaction times out at its last valid block height).
*SponsorBudget*: `getBalance` returns or throws, and a settled promise's
continuation runs. No fairness is assumed of clients, arrivals or transactions.
*Pages*: WebAuthn prompts time out, the prover ends, `fetch` returns or throws;
nothing is assumed of the user or of other signers. *Ceremony* has no fairness: people may stop anywhere. `multisig_page`,
`ceremony` and the relay runs do not check deadlock: a finished instance (final
agreement, no loads left; all requests answered; no file numbers left) really has
nothing left to do.

### Disagreements between code and documents

* `docs/reference/relay-api.md:34`: "a burst cannot overshoot either limit".
  `check` awaits `getBalance` and then uses the number of reservations of the
  later moment. A request that pays and releases in between is in neither the
  balance nor the count, and the next one is admitted below the floor
  (`sponsor_burst`). What does hold is `FloorKeptUnlessOvertaken`, and
  `FloorOvershootBounded`: less than one reserve per concurrent request.
* `relay/sponsor_budget.js:11`: "Each request in flight also reserves". A client
  that leaves while its request waits for the check makes `close` fire before
  anybody listens; the reservation made afterwards is released only by a restart
  (`sponsor_leak`). It assumes that Node emits no `finish` or `close` for an
  answer written to a closed connection.
* `docs/reference/relay-api.md:64`: a refused proof "records nothing". `/sign`
  registers an unknown contract in its own transaction first
  (`relay_wrong_proof`). What does hold is `LeftoversAreExplained`: a request that
  succeeded, or was refused for its settings, leaves no contract that nobody uses.

More limits of what the code promises, without a run of their own:

* The rate limit's fixed windows let twice the limit through within one hour that
  spans two of them (`TwiceTheLimit` is tight).
* A restart gives the whole daily budget again, which is why
  `DailyOvershootBounded` excludes it; a top-up that is observed together with
  spending hides it, up to its own amount.
* `sdk/README.md:86` says `finalizeMultiSigContract` "returns a `null`
  transaction if already finalized". If the agreement becomes final between the
  call's read and its transaction, the call fails (`FailuresAreJustified` has to
  allow it: `Unacceptable` looks at `wasFinal`).
* No test compares the keys in `zk_groth16/` with those in `sdk/lib/proving/`.
  Were the tests alone to decide about a release (`ReadyToRelease_ChecksOnly`), an
  export interrupted between the two could be released, and the SDK's proofs would
  be refused by the program. `ClientsMoveTogether` rests on the runbook's demand
  that the export has completed.
* `docs/DEPLOYMENT.md:33` expects all tests to pass with the export's output, but
  the tests of the program include the committed `zk_groth16/proof.json`
  (`tests/proof_verification.rs:14`), which an export does not renew: with a new
  verifying key they fail until somebody makes one (`MakeFixture`).
* `ceremony.sh beacon` finishes a ceremony without any contribution if it is run
  too early; the target of five contributors is up to people.

## 4. What is proved

### Program

`ObliviaLedgerProofs` and `ObliviaProgramProofs`, for every set of digests, keys
and times, every `MaxU8`, and every legacy state. The only assumption is
`LedgerAssumption` of `ObliviaLedger`: digests are pairs of halves, legacy
contracts are finitely many valid digests, legacy records belong to them, and an
uninitialized program has no signatures.

The inductive invariant is `IInv`: `LedgerInv(ledger, proofs)`, and every proof
in circulation satisfies the circuit. None of the properties is inductive alone:

* `FinalizedExactlyAtThreshold` stops the tally at the threshold because a
  finalized agreement refuses, and this also keeps the u8 from overflowing;
* `TallyIsMembership` needs members to exist only with their agreement, or a
  new agreement would not start from zero;
* `MembersVerified` and `ReceiptsProved` need receipts never to vanish and proofs
  to satisfy the circuit (a forged pair of limb and commitment would bind the
  receipt to another contract);
* `OneReceiptPerKey` needs each receipt's signer record (`AccountsLinked`);
* the counters need finite sets of accounts, and that nothing exists before
  `initialize`;
* `FinalizedByQuorum` follows from all of them: the tally counts members, each
  member has a receipt, each receipt its own proof.

`ObliviaLedgerProofs` has one lemma per instruction, `XPreserves`: if the ledger
satisfies `LedgerInv` and X accepts, the ledger X writes satisfies it. They do
not mention `ObliviaProgram`, so other machines on the same ledger can use them.
`ObliviaProgramProofs` lifts them to `Invariance`, derives the theorems listed
in `PROJECT.json`, proves `FinalityHolds` step by step, and `Refinement`: a
`Prove` is a `Consent`, a creation an `Open`, a recording a `Count` (that also
finalizes), everything else is invisible.

### Relay and SDK

`RelayProofs`, for any number of requests, calls, outsiders and flaky requests.
`RequestsWellFormed` is assumed of the constants: bodies have passed the parsers
and carry proofs some prover made; the bodies of the `relay` run are such.

The inductive invariant `Inv` (`RelayInvariance`) says what a handler knows by
the steps it has left:

* `RInv`: the ledger's own invariant, by the `XPreserves` lemmas; handlers only
  send what was asked for.
* `HandlersOnCourse`: a handler that has failed is done; any other has one of its
  route's suffixes left (or the read that replaces a lost creation), and what the
  dropped steps were for is on chain. It survives the steps of others because
  no transaction takes an account or a finality away (`DoneStays`,
  `LedgerGrows`).
* `LandedIsDone`: a landed transaction still has its effect, so a handler that is
  told of another one's confirmation (`SameTx`) learns something true.
* `AgreementsRegistered`, `HistorySound`, `LateVerifications`: agreements belong
  to registered contracts; `early` and `wasFinal` are what they are said to be;
  a late single verification was asked for by somebody.

From it: `AnswersAreTrue` (an answered handler has no steps left, so its effects
are on chain), `VerifiedIsCounted`, and `FailuresAreJust`: a step after which a
request has failed is a refused transaction or a failed re-read, and by the
handler's course the program could only have refused for what `Unacceptable`
lists. `early` is there because the proof would not go through without it: on a
program nobody has initialized, registering fails whatever the request.

`LeftoversExplained` rests on a second invariant, `AskedInv`: every contract on
chain, and every registration that may land yet, belongs to a request to sign
alone or to create whose settings had passed (or to another client). Such a
request that was answered and did not fail has its receipt or its agreement, by
its course, so the contract is in use.

`RelayImplementsAgreement`: a creation that lands is an `Open`, a co-signature a
`Count`, anything else, lost answers included, is invisible. With
`SameTx` and `LateLand` in the model this is what "a retry never counts twice"
means.

### Sponsor budget

`SponsorBudgetProofs` proves both floor properties, for any number of concurrent
requests. They hold because of what a balance reading is worth when it is used
(`FloorInv`): the queue has one check per waiting request (`QueueInv`), so while
a reading is under way nobody else is admitted, and when it was made only the
*other* requests could still spend (`Others`). So the wallet, less all it still
has to pay, is at most `Others` below the reading. Unless a release was
premature, the reservations counted when it is applied cover the difference,
because each request that may spend still has one (`ReservationInv`).

`DailyOvershootIsBounded` (for N concurrent requests): the daily check compares a
baseline with the reading, so `DailyInv` relates both to the money. On the
relay's current day, `paid + balance - topped` is at most the baseline plus N
reserves: when the baseline is drawn from a reading, N admitted requests may
already have spent on that day, and only a rise, which is a top-up, raises it
later. A reading still to be used is at least the balance without the top-ups
(`balance - topped <= reading`). On a day on which the relay has not yet drawn
a baseline only admitted requests pay. An admission then adds one reserve to at
most `Daily` and the N-1 others' reserves, which makes 2N-1 reserves in all. The
run that checks it has no disconnects; the theorem includes them.

`ReservationsAreReturned` proves that reservations are lost to disconnects only:
it assumes `MayDisconnect = FALSE`, and `sponsor_leak` shows that it has to.

### Rate limit

`AtMostTwiceTheLimit` and `RefusalsAreJustified` (`RateLimitProofs`) rest on
`Around`: of the requests let through to an address the last `m` are in the
current window, the `Limit` before them are older, and all before those precede
the window's start by more than a window length, because a window starts only
when its predecessor has ended.

### Pages

`MultisigPageProofs`: `SignInv` adds to the properties that status answers only
lag behind the chain (`AnswersAreOld`), that a receipt makes lookups under way
stale (`ReceiptVoidsLookup`), that an attempt runs with the button off and before
a receipt (`AttemptIsFirst`), and that known finalization stays on the page
(`FinalIsShown`). The three action properties follow step by step. `CreateInv`
adds to `SharedLinkWorks` that a confirmed creation has made the agreement of the
settings captured before it, which are the ones the link will carry.

`SignPageProofs`: `PageInv` says that a job is the unlocked passkey's and its
submission is awaited by it. `ConfirmedOnce` needs `ToldInv`: what the relay has
confirmed (`told`) is among the receipts the page keeps, but for the answer it
has not processed yet; that answer makes it a receipt whether or not the text is
still the one in the editor. `SignersAreNotLost` assumes `OneDomain`, that all
permanent builds are configured with one domain; the code cannot see that. It
needs `checkPasskeyDomain` at the start of the unlock (`PasskeysOfDomain` keeps it
while the prompt is open): without it a build nobody configured would make
signers for its own host that nothing marks as temporary.

### Trusted setup and release

`ContributionsAreKept` (`CeremonyProofs`): `SetupInv` says that the newest whole
file of the coordinator holds everyone whose contribution was received, that no
file holds anyone else, and that the files of the contributor whose turn it is
start from the coordinator's newest and grow by that contributor. Only the
newest is ever complete, which is why `latest` has to pick it (`LatestIsLast`);
its order by number is well-founded because numbers are bounded.

`ProgramAndClientsAgree` (`CeremonyProofs`): `ReleaseInv` follows the export and
the deployment through their steps; what is installed or deployed so far is the
one key of this export or release.

### Model-checked only

All liveness (`RequestsDecided`, `RequestsAnswered`, `AttemptsEnd`,
`SigningEnds`), since TLAPS does not handle fairness and ENABLED. The violation
runs are TLC counterexamples.

## 5. What is assumed or left out

* Poseidon is injective and hiding, Groth16 is sound: a proof that verifies was
  made by a holder of the key for exactly its public inputs. The byte layout of
  proofs, limbs and addresses is not modelled, nor is rent, bumps or timestamps.
* Agreements of earlier releases live at addresses the current program does not
  derive, so they are not part of the ledger.
* In `Relay` an account read sees the current ledger; in `MultisigPage` a status
  may lag behind it. Request bodies are well-formed: byte arrays and hexadecimal
  are values here. `/`, `/health` and the static files change nothing.
* A failure of `getKeypair` lets a request pass the budget check unreserved; its
  handler cannot send a transaction then either.
* Account readers also refuse accounts of a foreign owner or with damaged data;
  the program never makes one at these addresses.
* The key derived from a secret and a contract is a pair of the two: the
  truncated SHA-256 is taken as injective. Passkey providers without PRF, input
  validation of secrets and hashes, and the zero key are left out. A keychain
  loses nothing and syncs at once.
* The multisig page's domain check is one of the ways a passkey prompt fails;
  the rules themselves are checked with the signing page.
* In `Ceremony`, snarkjs reads only whole files, a full disk or a lost network is
  an interruption, and hashes and logs the script writes are left out. `verify`
  writes a report only. People follow the documents: a new round does not start
  from an old `ceremony/out`, files keep their names, and a release is made from
  one commit.
* Not modelled: the conversion of the verifying key in `build.rs` and of proofs in
  `groth16_intent.js`, `anchor_proof_format.js` and the pages; the generated
  `witness_calculator.js`; `webpack.config.js` but for its two passkey settings;
  the documentation generator, release checks, end-to-end scripts and CI, which
  keep no state of the protocol.

## 6. Plan

1. Done: ledger, program, agreement, relay and SDK, budget, rate limit, both
   pages with create mode and passkeys, trusted setup and release; the theorems
   of section 4, one for each safety property of the passing runs.
2. Next, proofs: that the bounds of the sponsor budget and of the rate limit
   follow from abstract specifications of what each promises.
3. Next, modelling: the pages composed with `Relay` (a retry after an unconfirmed
   submission ends in a receipt or a refusal, never in a second count); the limb
   and field encodings against a reference.
