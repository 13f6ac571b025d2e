------------------------------ MODULE Ceremony ------------------------------
(* The trusted setup and the release of its keys:                           *)
(* zk_groth16/ceremony/ceremony.sh as docs/CEREMONY.md has it used, the     *)
(* verifying key that build.rs embeds in the program, and the deployment of *)
(* program, relay and SDK.  A command that is interrupted leaves a partial  *)
(* file behind.                                                             *)
EXTENDS Integers, Sequences, FiniteSetsExt

CONSTANTS
    Contributor, NoOne,
    MaxNumber       \* bound of the instance; the script's file names go to 9999

ASSUME CeremonyAssumption == NoOne \notin Contributor /\ MaxNumber \in 0..9999

VARIABLES
    out,        \* the coordinator's ceremony/out: zkeys by the number in their name
    final,      \* oblivia_final.zkey
    turn,       \* the contributor whose turn it is
    desk,       \* that contributor's ceremony/out
    returned,   \* history: contributors whose zkey the coordinator has received
    installed,  \* the keys in the repository, see Place
    left,       \* what a running export has yet to install
    exported,   \* the last export that was begun has come to its end
    fixture,    \* the key that zk_groth16/proof.json was made with
    tagged,     \* the keys of the commit being released
    deploying,  \* what of it has yet to be deployed, in this order
    live        \* the keys of what is deployed: program, relay and SDK

setup == <<out, final, turn, desk, returned>>
repository == <<installed, left, exported, fixture>>
release == <<tagged, deploying, live>>
vars == <<setup, repository, release>>

\* A zkey, and the verifying key exported from it, by who contributed.
Zkey(stage, chain) == [stage |-> stage, chain |-> chain]
Development == Zkey("development", <<>>)
Partial == Zkey("partial", <<>>)
Absent == Zkey("absent", <<>>)

\* snarkjs reads only whole files.
Whole(z) == z.stage \in {"open", "final"}
Contributors(z) == {z.chain[i] : i \in DOMAIN z.chain}

\* What a command that writes z leaves: an interrupted one, a partial file.
Written(z) == {z, Partial}

NoFiles == [n \in {} |-> Absent]
With(dir, n, z) == [m \in DOMAIN dir \cup {n} |-> IF m = n THEN z ELSE dir[m]]

\* Where export puts the keys: zk_groth16/ (circuit) and sdk/lib/proving/ (sdk).
Place == {"circuitVk", "circuitKey", "sdkKey", "sdkVk"}
Part == {"program", "relay", "sdk"}

Init ==
    /\ out = NoFiles /\ final = Absent /\ turn = NoOne /\ desk = NoFiles /\ returned = {}
    /\ installed = [f \in Place |-> Development] /\ left = <<>> /\ exported = FALSE
    /\ fixture = Development
    /\ tagged = installed /\ deploying = <<>> /\ live = [x \in Part |-> Development]

-----------------------------------------------------------------------------
(* ceremony.sh before the export *)

\* Mutant: the file of the lowest number is the latest.
Latest_First(dir) == Min(DOMAIN dir)

\* latest: file names have four digits, so the last in order is the newest.
Latest(dir) == Max(DOMAIN dir)

Initialize ==
    /\ out = NoFiles
    /\ \E z \in Written(Zkey("open", <<>>)) : out' = With(out, 0, z)
    /\ UNCHANGED <<final, turn, desk, returned, repository, release>>

\* The coordinator sends the latest file, to the same contributor again if he
\* starts over; it is then the only one in his ceremony/out.
Send(p) ==
    /\ out # NoFiles /\ turn \in {NoOne, p} /\ p \notin returned
    /\ turn' = p
    /\ desk' = With(NoFiles, Latest(out), out[Latest(out)])
    /\ UNCHANGED <<out, final, returned, repository, release>>

\* next_name
Next_name(dir) == Latest(dir) + 1

\* contribute, on the contributor's computer; a second one adds to the first.
Contribute ==
    /\ desk # NoFiles /\ Whole(desk[Latest(desk)]) /\ Next_name(desk) <= MaxNumber
    /\ \E z \in Written(Zkey("open", Append(desk[Latest(desk)].chain, turn))) :
           desk' = With(desk, Next_name(desk), z)
    /\ UNCHANGED <<out, final, turn, returned, repository, release>>

\* The contributor sends a new file back; one that arrives in part is sent again.
Return ==
    /\ \E n \in DOMAIN desk :
        /\ turn \in Contributors(desk[n])
        /\ \/ /\ out' = With(out, n, desk[n])
              /\ returned' = returned \cup {turn}
              /\ turn' = NoOne /\ desk' = NoFiles
           \/ /\ out' = With(out, n, Partial)
              /\ UNCHANGED <<turn, desk, returned>>
    /\ UNCHANGED <<final, repository, release>>

\* The coordinator waits no longer for a contributor, whose file will not be
\* taken any more.
GiveUp ==
    /\ turn # NoOne
    /\ turn' = NoOne /\ desk' = NoFiles
    /\ UNCHANGED <<out, final, returned, repository, release>>

\* By hand: init, contribute and beacon get no further with a partial file.
Remove ==
    /\ out # NoFiles /\ ~Whole(out[Latest(out)])
    /\ out' = [n \in DOMAIN out \ {Latest(out)} |-> out[n]]
    /\ UNCHANGED <<final, turn, desk, returned, repository, release>>

\* beacon, at any time and again.
Beacon ==
    /\ left = <<>>
    /\ out # NoFiles /\ Whole(out[Latest(out)])
    /\ \E z \in Written(Zkey("final", out[Latest(out)].chain)) : final' = z
    /\ UNCHANGED <<out, turn, desk, returned, repository, release>>

-----------------------------------------------------------------------------
(* ceremony.sh export *)

\* The script verifies the final zkey and stops at anything but "ZKey Ok!".
FinalVerified == Whole(final)

Export ==
    /\ left = <<>> /\ FinalVerified
    /\ left' = <<"circuitVk", "circuitKey", "sdkKey", "sdkVk">>
    /\ exported' = FALSE
    /\ UNCHANGED <<setup, installed, fixture, release>>

\* Mutant: export copies nothing to the SDK.
Source_CircuitOnly(place) == IF place \in {"sdkKey", "sdkVk"} THEN installed[place] ELSE final

\* The file each step installs.
Source(place) == IF place = "sdkVk" THEN installed["circuitVk"] ELSE final

Install ==
    /\ left # <<>>
    /\ installed' = [installed EXCEPT ![Head(left)] = Source(Head(left))]
    /\ left' = Tail(left)
    /\ exported' = (Tail(left) = <<>>)
    /\ UNCHANGED <<setup, fixture, release>>

\* A step fails, or the export is interrupted, before or while it writes.
Interrupted ==
    /\ left # <<>>
    /\ installed' \in {installed, [installed EXCEPT ![Head(left)] = Partial]}
    /\ left' = <<>>
    /\ UNCHANGED <<setup, exported, fixture, release>>

-----------------------------------------------------------------------------
(* The release *)

\* Not part of export: a new zk_groth16/proof.json for the tests of the program.
MakeFixture ==
    /\ left = <<>> /\ installed["circuitKey"].stage # "partial"
    /\ fixture' = installed["circuitKey"]
    /\ UNCHANGED <<setup, installed, left, exported, release>>

\* npm test, the SDK's tests and the program's: proofs made with the circuit's
\* key, with the SDK's and the committed one satisfy the verifying key beside
\* them.  No test compares the circuit's keys with the SDK's.
ChecksPass ==
    /\ installed["circuitVk"].stage # "partial" /\ installed["sdkVk"].stage # "partial"
    /\ installed["circuitKey"] = installed["circuitVk"]
    /\ installed["sdkKey"] = installed["sdkVk"]
    /\ fixture = installed["circuitVk"]

\* Mutant: the tests alone decide.
ReadyToRelease_ChecksOnly == ChecksPass

\* "If the ceremony ran, zk_groth16/verification_key.json and sdk/lib/proving/
\* must contain its output": export has come to its end.
ReadyToRelease == ChecksPass /\ exported

Release ==
    /\ deploying = <<>> /\ left = <<>> /\ ReadyToRelease
    /\ tagged' = installed
    /\ deploying' = <<"program", "relay", "sdk">>
    /\ UNCHANGED <<setup, repository, live>>

\* build.rs embeds the circuit's verifying key; the relay serves the circuit's
\* proving key to the browser; the SDK package carries its own.
KeyOf(part) == CASE part = "program" -> tagged["circuitVk"]
                 [] part = "relay" -> tagged["circuitKey"]
                 [] part = "sdk" -> tagged["sdkKey"]

Deploy ==
    /\ deploying # <<>>
    /\ live' = [live EXCEPT ![Head(deploying)] = KeyOf(Head(deploying))]
    /\ deploying' = Tail(deploying)
    /\ UNCHANGED <<setup, repository, tagged>>

Next ==
    \/ Initialize \/ Contribute \/ Return \/ GiveUp \/ Remove \/ Beacon
    \/ \E p \in Contributor : Send(p)
    \/ Export \/ Install \/ Interrupted
    \/ MakeFixture \/ Release \/ Deploy

Spec == Init /\ [][Next]_vars

-----------------------------------------------------------------------------
(* Properties *)

\* A finished zkey contains everyone whose contribution the coordinator has
\* received by then, although files arrive in part, contributors start over or
\* drop out, and files are removed by hand ("That lets anyone confirm your
\* contribution is in the final key", docs/CEREMONY_CONTRIBUTOR.md).
NoContributionDropped ==
    [][final' # final /\ Whole(final') => returned \subseteq Contributors(final')]_vars

\* Once a release is complete the program accepts the proofs of the relay's
\* pages and of the SDK, whatever exports were interrupted before and whatever
\* happened since ("the program and clients move together"), and its key is the
\* one replaced or a finished one of a ceremony.
ClientsMoveTogether ==
    deploying = <<>> =>
        /\ live["relay"] = live["program"] /\ live["sdk"] = live["program"]
        /\ live["program"].stage \in {"development", "final"}
=============================================================================
