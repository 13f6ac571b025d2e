------------------------------ MODULE Passkeys ------------------------------
(* Passkeys as the pages use them (sdk/lib/passkey.js), where they may be   *)
(* used (sdk/lib/passkey_domain.js, browser-client/src/passkey_config.js)   *)
(* and the keys derived from them (sdk/lib/signer_key.js).  The keychain    *)
(* that holds them is the platform's and is shared by the user's devices.   *)
CONSTANTS
    Signer,     \* passkeys of this user, by their PRF secret
    NoSigner,
    Text,       \* contract texts
    Host,       \* where a page may be served from
    LocalHost,  \* localhost and its addresses
    Domain,     \* relying-party domains
    NoDomain,
    Within,     \* the hosts of each domain: itself and its subdomains
    Build       \* the build served at each host, [rpId, testMode]

ASSUME PasskeyAssumption ==
    /\ NoSigner \notin Signer /\ NoDomain \notin Domain
    /\ LocalHost \subseteq Host
    /\ Within \in [Domain -> SUBSET Host]
    /\ Build \in [Host -> [rpId : Domain \cup {NoDomain}, testMode : BOOLEAN]]

VARIABLES
    host,       \* where the page is served from
    passkeys    \* the passkeys made, [signer, rp, temporary]

keychain == <<host, passkeys>>

Permanent(h) == Build[h].rpId # NoDomain

\* Mutant: the passkey calls are not given the configured domain.
RelyingParty_Host(h) == h

\* The relying party of a passkey made or used at host h; without an rpId the
\* browser takes the host.
RelyingParty(h) == IF Permanent(h) THEN Build[h].rpId ELSE h

\* Passkeys made here are known to be temporary: a developer's own computer, or
\* a test build, whose users are told.
Temporary(h) == ~Permanent(h) /\ (h \in LocalHost \/ Build[h].testMode)

\* Mutant: a build without a passkey domain works anywhere.
DomainAllowed_Unconfigured(h) == Permanent(h) => h \in Within[Build[h].rpId]

\* checkPasskeyDomain, before any passkey is touched.
DomainAllowed(h) == IF Permanent(h) THEN h \in Within[Build[h].rpId] ELSE Temporary(h)

\* createSignerPasskey: a new passkey every time.  One whose provider has no
\* PRF cannot be used and is not counted here.
MakePasskey(k) ==
    /\ k \notin {p.signer : p \in passkeys}
    /\ passkeys' = passkeys \cup
          {[signer |-> k, rp |-> RelyingParty(host), temporary |-> Temporary(host)]}

\* getPasskeySecret: the passkeys the browser offers at host h.
Offered(h) == {p.signer : p \in {q \in passkeys : q.rp = RelyingParty(h)}}

\* deriveSignerKey: one key per secret and contract, the same wherever and
\* whenever it is derived.
SignerKey(k, t) == [text |-> t, signer |-> k]

-----------------------------------------------------------------------------

\* No signer is lost to a move: a passkey that is not known to be temporary
\* is offered on every page that the permanent domain serves, also after pages
\* of test builds and of misplaced or unconfigured builds have been used in
\* between ("The app can then move between subdomains ... without losing signers").
SignersSurviveMoves ==
    \A p \in passkeys : ~p.temporary =>
        \A h \in Host : Permanent(h) /\ DomainAllowed(h) => p.signer \in Offered(h)
=============================================================================
