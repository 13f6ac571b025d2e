--------------------------- MODULE CeremonyProofs ---------------------------
(* No contribution is dropped from the finished key, and the program, the   *)
(* relay and the SDK are never left with different keys, for any            *)
(* contributors and however many transfers and exports are interrupted.     *)
EXTENDS Ceremony, WellFoundedInduction, TLAPS

Export4 == <<"circuitVk", "circuitKey", "sdkKey", "sdkVk">>
Export3 == <<"circuitKey", "sdkKey", "sdkVk">>
Export2 == <<"sdkKey", "sdkVk">>
Export1 == <<"sdkVk">>

Deploy3 == <<"program", "relay", "sdk">>
Deploy2 == <<"relay", "sdk">>
Deploy1 == <<"sdk">>

\* What export has installed so far is the finished zkey.
ExportInv ==
    /\ final.stage \in {"final", "partial", "absent"}
    /\ DOMAIN installed = Place
    /\ left \in {Export4, Export3, Export2, Export1, <<>>}
    /\ left # <<>> => final.stage = "final" /\ ~exported
    /\ left \in {Export3, Export2, Export1} => installed["circuitVk"] = final
    /\ left \in {Export2, Export1} => installed["circuitKey"] = final
    /\ left = Export1 => installed["sdkKey"] = final

OneKey(keys) ==
    /\ keys["circuitKey"] = keys["circuitVk"] /\ keys["sdkKey"] = keys["circuitVk"]
    /\ keys["sdkVk"] = keys["circuitVk"]

\* An export that has come to its end has left one finished key everywhere.
ExportedInv == exported => OneKey(installed) /\ installed["circuitVk"].stage = "final"

\* What is deployed so far is the one key of the release.
DeployInv ==
    /\ OneKey(tagged) /\ tagged["circuitVk"].stage \in {"development", "final"}
    /\ DOMAIN live = Part
    /\ deploying \in {Deploy3, Deploy2, Deploy1, <<>>}
    /\ deploying \in {Deploy2, Deploy1, <<>>} => live["program"] = tagged["circuitVk"]
    /\ deploying \in {Deploy1, <<>>} => live["relay"] = tagged["circuitVk"]
    /\ deploying = <<>> => live["sdk"] = tagged["circuitVk"]

ReleaseInv == ExportInv /\ ExportedInv /\ DeployInv

\* The export goes through its steps in order, and so does the deployment.
LEMMA Steps ==
    /\ Head(Export4) = "circuitVk" /\ Tail(Export4) = Export3
    /\ Head(Export3) = "circuitKey" /\ Tail(Export3) = Export2
    /\ Head(Export2) = "sdkKey" /\ Tail(Export2) = Export1
    /\ Head(Export1) = "sdkVk" /\ Tail(Export1) = <<>>
    /\ Head(Deploy3) = "program" /\ Tail(Deploy3) = Deploy2
    /\ Head(Deploy2) = "relay" /\ Tail(Deploy2) = Deploy1
    /\ Head(Deploy1) = "sdk" /\ Tail(Deploy1) = <<>>
  BY DEF Export4, Export3, Export2, Export1, Deploy3, Deploy2, Deploy1

\* The steps left are told apart by what comes next.
LEMMA StepsDiffer ==
    /\ Export4 # <<>> /\ Export3 # <<>> /\ Export2 # <<>> /\ Export1 # <<>>
    /\ Export4 # Export3 /\ Export4 # Export2 /\ Export4 # Export1
    /\ Export3 # Export2 /\ Export3 # Export1 /\ Export2 # Export1
    /\ Deploy3 # <<>> /\ Deploy2 # <<>> /\ Deploy1 # <<>>
    /\ Deploy3 # Deploy2 /\ Deploy3 # Deploy1 /\ Deploy2 # Deploy1
  BY DEF Export4, Export3, Export2, Export1, Deploy3, Deploy2, Deploy1

\* A step of the export installs the finished zkey at the next place.
LEMMA InstallKeepsInv ==
    ASSUME ReleaseInv, Install
    PROVE  ReleaseInv'
  <1>1. /\ ExportInv /\ left # <<>>
        /\ installed' = [installed EXCEPT ![Head(left)] = Source(Head(left))]
        /\ left' = Tail(left) /\ exported' = (Tail(left) = <<>>)
        /\ UNCHANGED <<final, release>>
    BY DEF Install, ReleaseInv, setup
  <1>2. DeployInv'
    BY <1>1 DEF release, ReleaseInv, DeployInv
  <1>3. final.stage = "final" /\ DOMAIN installed = Place
    BY <1>1 DEF ExportInv
  <1>4. CASE left = Export4
    <2>1. installed' = [installed EXCEPT !["circuitVk"] = final] /\ left' = Export3 /\ ~exported'
      BY <1>1, <1>4, Steps, StepsDiffer DEF Source
    <2>2. DOMAIN installed' = Place /\ installed'["circuitVk"] = final
      BY <1>3, <2>1 DEF Place
    <2>3. QED
      BY <1>1, <1>2, <1>3, <2>1, <2>2, StepsDiffer DEF ReleaseInv, ExportInv, ExportedInv
  <1>5. CASE left = Export3
    <2>1. installed' = [installed EXCEPT !["circuitKey"] = final] /\ left' = Export2 /\ ~exported'
      BY <1>1, <1>5, Steps, StepsDiffer DEF Source
    <2>2. /\ DOMAIN installed' = Place /\ installed'["circuitKey"] = final
          /\ installed'["circuitVk"] = final
      BY <1>1, <1>3, <1>5, <2>1 DEF Place, ExportInv
    <2>3. QED
      BY <1>1, <1>2, <1>3, <2>1, <2>2, StepsDiffer DEF ReleaseInv, ExportInv, ExportedInv
  <1>6. CASE left = Export2
    <2>1. installed' = [installed EXCEPT !["sdkKey"] = final] /\ left' = Export1 /\ ~exported'
      BY <1>1, <1>6, Steps, StepsDiffer DEF Source
    <2>2. /\ DOMAIN installed' = Place /\ installed'["sdkKey"] = final
          /\ installed'["circuitVk"] = final /\ installed'["circuitKey"] = final
      BY <1>1, <1>3, <1>6, <2>1 DEF Place, ExportInv
    <2>3. QED
      BY <1>1, <1>2, <1>3, <2>1, <2>2, StepsDiffer DEF ReleaseInv, ExportInv, ExportedInv
  <1>7. CASE left = Export1
    <2>1. /\ installed["circuitVk"] = final /\ installed["circuitKey"] = final
          /\ installed["sdkKey"] = final
      BY <1>1, <1>7 DEF ExportInv
    <2>2. installed' = [installed EXCEPT !["sdkVk"] = final] /\ left' = <<>>
      BY <1>1, <1>7, <2>1, Steps DEF Source
    <2>3. DOMAIN installed' = Place /\ OneKey(installed') /\ installed'["circuitVk"] = final
      BY <1>3, <2>1, <2>2 DEF Place, OneKey
    <2>4. QED
      BY <1>1, <1>2, <1>3, <2>2, <2>3, StepsDiffer DEF ReleaseInv, ExportInv, ExportedInv
  <1>8. QED
    BY <1>1, <1>4, <1>5, <1>6, <1>7 DEF ExportInv

\* A deployment brings the next part to the release's key.
LEMMA DeployKeepsInv ==
    ASSUME DeployInv, Deploy
    PROVE  DeployInv'
  <1>1. /\ deploying # <<>> /\ UNCHANGED tagged
        /\ live' = [live EXCEPT ![Head(deploying)] = KeyOf(Head(deploying))]
        /\ deploying' = Tail(deploying)
    BY DEF Deploy
  <1>2. /\ KeyOf("program") = tagged["circuitVk"] /\ KeyOf("relay") = tagged["circuitVk"]
        /\ KeyOf("sdk") = tagged["circuitVk"]
    <2>1. KeyOf("program") = tagged["circuitVk"]
      BY Zenon DEF KeyOf
    <2>2. KeyOf("relay") = tagged["circuitKey"]
      BY Zenon DEF KeyOf
    <2>3. KeyOf("sdk") = tagged["sdkKey"]
      BY Zenon DEF KeyOf
    <2>4. QED
      BY <2>1, <2>2, <2>3 DEF DeployInv, OneKey
  <1>3. CASE deploying = Deploy3
    <2>1. live' = [live EXCEPT !["program"] = tagged["circuitVk"]] /\ deploying' = Deploy2
      BY <1>1, <1>2, <1>3, Steps
    <2>2. DOMAIN live' = Part /\ live'["program"] = tagged["circuitVk"]
      BY <2>1 DEF DeployInv, Part
    <2>3. QED
      BY <1>1, <2>1, <2>2, StepsDiffer DEF DeployInv
  <1>4. CASE deploying = Deploy2
    <2>1. live' = [live EXCEPT !["relay"] = tagged["circuitVk"]] /\ deploying' = Deploy1
      BY <1>1, <1>2, <1>4, Steps
    <2>2. /\ DOMAIN live' = Part /\ live'["relay"] = tagged["circuitVk"]
          /\ live'["program"] = tagged["circuitVk"]
      BY <1>4, <2>1 DEF DeployInv, Part
    <2>3. QED
      BY <1>1, <2>1, <2>2, StepsDiffer DEF DeployInv
  <1>5. CASE deploying = Deploy1
    <2>1. live' = [live EXCEPT !["sdk"] = tagged["circuitVk"]] /\ deploying' = <<>>
      BY <1>1, <1>2, <1>5, Steps
    <2>2. /\ DOMAIN live' = Part /\ live'["sdk"] = tagged["circuitVk"]
          /\ live'["program"] = tagged["circuitVk"] /\ live'["relay"] = tagged["circuitVk"]
      BY <1>5, <2>1 DEF DeployInv, Part
    <2>3. QED
      BY <1>1, <2>1, <2>2, StepsDiffer DEF DeployInv
  <1>6. QED
    BY <1>1, <1>3, <1>4, <1>5 DEF DeployInv

\* The invariant holds at first, and every step preserves it.
LEMMA ReleaseInit == Init => ReleaseInv
  <1> SUFFICES ASSUME Init
               PROVE  ReleaseInv
    OBVIOUS
  <1>1. /\ installed = [f \in Place |-> Development] /\ tagged = installed
        /\ live = [x \in Part |-> Development] /\ left = <<>> /\ ~exported /\ deploying = <<>>
        /\ final = Absent
    BY DEF Init
  <1>2. Development.stage = "development" /\ final.stage = "absent"
    BY <1>1 DEF Development, Absent, Zkey
  <1>3. OneKey(tagged) /\ tagged["circuitVk"] = Development
    BY <1>1 DEF OneKey, Place
  <1>4. live["program"] = Development /\ live["relay"] = Development /\ live["sdk"] = Development
    BY <1>1 DEF Part
  <1>5. QED
    BY <1>1, <1>2, <1>3, <1>4, StepsDiffer DEF ReleaseInv, ExportInv, ExportedInv, DeployInv

\* Every step keeps the invariant.
LEMMA ReleaseStep == ReleaseInv /\ [Next]_vars => ReleaseInv'
  <1> SUFFICES ASSUME ReleaseInv, [Next]_vars
               PROVE  ReleaseInv'
    OBVIOUS
  <1>1. CASE UNCHANGED <<final, repository, release>>
    BY <1>1 DEF repository, release, ReleaseInv, ExportInv, ExportedInv, DeployInv
  <1>2. CASE Beacon
    <2>1. /\ left = <<>> /\ UNCHANGED <<repository, release>>
          /\ \E chain : final' \in Written(Zkey("final", chain))
      BY <1>2 DEF Beacon
    <2>2. final'.stage \in {"final", "partial"}
      BY <2>1 DEF Written, Zkey, Partial
    <2>3. QED
      BY <2>1, <2>2, StepsDiffer DEF repository, release, ReleaseInv, ExportInv, ExportedInv, DeployInv
  <1>3. CASE Export
    <2>1. /\ left' = Export4 /\ ~exported' /\ final.stage \in {"open", "final"}
          /\ UNCHANGED <<final, installed, release>>
      BY <1>3 DEF Export, Export4, FinalVerified, Whole, setup
    <2>2. QED
      BY <2>1, StepsDiffer DEF release, ReleaseInv, ExportInv, ExportedInv, DeployInv
  <1>4. CASE Install
    BY <1>4, InstallKeepsInv
  <1>5. CASE Interrupted
    <2>1. /\ left # <<>> /\ left' = <<>> /\ UNCHANGED <<final, exported, release>>
          /\ installed' = installed \/ installed' = [installed EXCEPT ![Head(left)] = Partial]
      BY <1>5 DEF Interrupted, setup
    <2>2. DOMAIN installed' = DOMAIN installed /\ ~exported
      BY <2>1 DEF ReleaseInv, ExportInv
    <2>3. QED
      BY <2>1, <2>2, StepsDiffer DEF release, ReleaseInv, ExportInv, ExportedInv, DeployInv
  <1>6. CASE MakeFixture
    BY <1>6 DEF MakeFixture, setup, release, ReleaseInv, ExportInv, ExportedInv, DeployInv
  <1>7. CASE Release
    <2>1. /\ exported /\ tagged' = installed /\ deploying' = Deploy3
          /\ UNCHANGED <<setup, repository, live>>
      BY <1>7 DEF Release, ReadyToRelease, Deploy3
    <2>2. QED
      BY <2>1, StepsDiffer DEF setup, repository, ReleaseInv, ExportInv, ExportedInv, DeployInv
  <1>8. CASE Deploy
    <2>1. UNCHANGED <<setup, repository>>
      BY <1>8 DEF Deploy
    <2>2. QED
      BY <1>8, <2>1, DeployKeepsInv DEF setup, repository, ReleaseInv, ExportInv, ExportedInv
  <1>9. CASE Initialize \/ Contribute \/ Return \/ GiveUp \/ Remove \/ \E p \in Contributor : Send(p)
    BY <1>1, <1>9 DEF Initialize, Contribute, Return, GiveUp, Remove, Send
  <1>10. CASE UNCHANGED vars
    BY <1>1, <1>10 DEF vars, setup
  <1>11. QED
    BY <1>2, <1>3, <1>4, <1>5, <1>6, <1>7, <1>8, <1>9, <1>10 DEF Next

\* The program and its clients move together, whatever export was interrupted.
THEOREM ProgramAndClientsAgree == Spec => []ClientsMoveTogether
  <1>1. ReleaseInv => ClientsMoveTogether
    BY DEF ReleaseInv, DeployInv, ClientsMoveTogether
  <1>2. QED
    BY <1>1, ReleaseInit, ReleaseStep, PTL DEF Spec
-----------------------------------------------------------------------------
(* The contributions *)

Zkeys == [stage : {"open", "partial"}, chain : Seq(Contributor)]

\* The file a beacon would finish, once partial ones after it are removed.
Newest(n) == n \in DOMAIN out /\ Whole(out[n]) /\ \A m \in DOMAIN out : m > n => ~Whole(out[m])

\* The contributor was sent file k; what he has made from it is partial, or adds
\* his contribution to it.
DeskFrom(k) ==
    /\ k \in DOMAIN desk /\ turn \in Contributor \ returned
    /\ Contributors(desk[k]) \subseteq returned
    /\ Whole(desk[k]) => Newest(k) /\ out[k] = desk[k]
    /\ \A n \in DOMAIN desk \ {k} :
           /\ n > k /\ Whole(desk[k])
           /\ \/ desk[n] = Partial
              \/ Whole(desk[n]) /\ Contributors(desk[n]) = Contributors(desk[k]) \cup {turn}

FilesOK(dir) == DOMAIN dir \subseteq 0..MaxNumber /\ dir \in [DOMAIN dir -> Zkeys]

\* The newest whole file holds everyone whose contribution was received.
SetupInv ==
    /\ FilesOK(out) /\ FilesOK(desk)
    /\ \A n \in DOMAIN out : Contributors(out[n]) \subseteq returned
    /\ \A n \in DOMAIN out : Newest(n) => returned \subseteq Contributors(out[n])
    /\ (\A n \in DOMAIN out : ~Whole(out[n])) => returned = {}
    /\ desk # NoFiles => \E k \in DOMAIN desk : DeskFrom(k)

\* The last in order of files that are there is one of them, and none comes
\* after it.
LEMMA LatestIsLast ==
    ASSUME NEW dir, FilesOK(dir), dir # NoFiles
    PROVE  /\ Latest(dir) \in DOMAIN dir /\ Latest(dir) \in 0..MaxNumber
           /\ \A n \in DOMAIN dir : n <= Latest(dir)
  <1> DEFINE S == DOMAIN dir
             T == {MaxNumber - n : n \in S}
             R == OpToRel(<, Nat)
  <1>1. MaxNumber \in Nat /\ S \subseteq 0..MaxNumber
    <2>1. MaxNumber \in Nat
      BY CeremonyAssumption
    <2>2. QED
      BY <2>1 DEF FilesOK
  <1>2. S # {}
    <2>1. dir = [n \in S |-> dir[n]]
      BY DEF FilesOK
    <2>2. QED
      BY <2>1 DEF NoFiles
  <1>3. T \subseteq Nat /\ T # {}
    BY <1>1, <1>2
  <1>4. \E t \in T : \A u \in T : <<u, t>> \notin R
    <2>1. IsWellFoundedOn(R, Nat)
      BY NatLessThanWellFounded
    <2> HIDE DEF T, R
    <2>2. QED
      BY <1>3, <2>1, WFMin
  <1>5. \A t, u \in T : <<u, t>> \notin R => ~(u < t)
    BY <1>3 DEF OpToRel
  <1>6. \E n \in S : \A m \in S : ~(MaxNumber - m < MaxNumber - n)
    BY <1>4, <1>5
  <1>7. \E n \in S : \A m \in S : n >= m
    BY <1>1, <1>6
  <1>8. Max(S) \in S /\ \A m \in S : Max(S) >= m
    BY <1>7 DEF Max
  <1>9. QED
    BY <1>1, <1>8 DEF Latest

\* A file written beside others.
LEMMA WithFacts ==
    ASSUME NEW dir, FilesOK(dir), NEW n \in 0..MaxNumber, NEW z \in Zkeys
    PROVE  /\ FilesOK(With(dir, n, z)) /\ DOMAIN With(dir, n, z) = DOMAIN dir \cup {n}
           /\ With(dir, n, z)[n] = z
           /\ \A m \in DOMAIN dir : m # n => With(dir, n, z)[m] = dir[m]
  <1>1. \A m \in DOMAIN dir : dir[m] \in Zkeys
    BY DEF FilesOK
  <1>2. QED
    BY <1>1 DEF FilesOK, With

\* No files, and what an interrupted command leaves.
LEMMA EmptyAndPartial ==
    /\ FilesOK(NoFiles) /\ DOMAIN NoFiles = {}
    /\ Partial \in Zkeys /\ ~Whole(Partial) /\ Contributors(Partial) = {}
    /\ Zkey("open", <<>>) \in Zkeys /\ Contributors(Zkey("open", <<>>)) = {}
  <1>1. FilesOK(NoFiles) /\ DOMAIN NoFiles = {}
    BY DEF FilesOK, NoFiles
  <1>2. <<>> \in Seq(Contributor) /\ DOMAIN <<>> = {}
    OBVIOUS
  <1>3. QED
    BY <1>1, <1>2 DEF Partial, Zkey, Zkeys, Whole, Contributors

\* A file alone.
LEMMA OnlyFile ==
    ASSUME NEW n \in 0..MaxNumber, NEW z \in Zkeys
    PROVE  /\ FilesOK(With(NoFiles, n, z)) /\ DOMAIN With(NoFiles, n, z) = {n}
           /\ With(NoFiles, n, z)[n] = z
  <1>1. FilesOK(NoFiles) /\ DOMAIN NoFiles = {}
    BY EmptyAndPartial
  <1>2. /\ FilesOK(With(NoFiles, n, z)) /\ With(NoFiles, n, z)[n] = z
        /\ DOMAIN With(NoFiles, n, z) = DOMAIN NoFiles \cup {n}
    <2>1. \A dir : FilesOK(dir) =>
              /\ FilesOK(With(dir, n, z)) /\ With(dir, n, z)[n] = z
              /\ DOMAIN With(dir, n, z) = DOMAIN dir \cup {n}
      BY WithFacts
    <2>2. QED
      BY <1>1, <2>1
  <1>3. QED
    BY <1>1, <1>2

\* A contribution adds its contributor to those before.
LEMMA ContributionAdds ==
    ASSUME NEW z \in Zkeys, NEW p \in Contributor
    PROVE  LET new == Zkey("open", Append(z.chain, p)) IN
           new \in Zkeys /\ Whole(new) /\ Contributors(new) = Contributors(z) \cup {p}
  <1> DEFINE c == Append(z.chain, p)
  <1>1. z.chain \in Seq(Contributor)
    BY DEF Zkeys
  <1>2. c \in Seq(Contributor) /\ DOMAIN c = 1..(Len(z.chain) + 1) /\ DOMAIN z.chain = 1..Len(z.chain)
    BY <1>1
  <1>3. c[Len(z.chain) + 1] = p /\ \A i \in 1..Len(z.chain) : c[i] = z.chain[i]
    BY <1>1
  <1>4. Len(z.chain) \in Nat
    BY <1>1
  <1>5. {c[i] : i \in DOMAIN c} = {z.chain[i] : i \in DOMAIN z.chain} \cup {p}
    <2> HIDE DEF c
    <2>1. \A i \in DOMAIN c : i = Len(z.chain) + 1 \/ i \in DOMAIN z.chain
      BY <1>2, <1>4
    <2>2. Len(z.chain) + 1 \in DOMAIN c /\ DOMAIN z.chain \subseteq DOMAIN c
      BY <1>2, <1>4
    <2>3. QED
      BY <1>2, <1>3, <2>1, <2>2
  <1>6. QED
    BY <1>2, <1>5 DEF Zkey, Zkeys, Whole, Contributors

\* What is on the desk stays in order as long as the newest whole file does.
LEMMA DeskStays ==
    ASSUME SetupInv, UNCHANGED <<turn, desk, returned>>,
           \A k \in DOMAIN out : Newest(k) => Newest(k)' /\ out'[k] = out[k]
    PROVE  desk' # NoFiles => \E k \in DOMAIN desk' : DeskFrom(k)'
  <1> SUFFICES ASSUME desk # NoFiles
               PROVE  \E k \in DOMAIN desk : DeskFrom(k)'
    OBVIOUS
  <1>1. PICK k \in DOMAIN desk : DeskFrom(k)
    BY DEF SetupInv
  <1>2. DeskFrom(k)'
    BY <1>1 DEF DeskFrom, Newest
  <1>3. QED
    BY <1>2

\* The first file, when there is none.
LEMMA InitializeKeepsSetup ==
    ASSUME SetupInv, Initialize
    PROVE  SetupInv'
  <1>1. PICK z \in Written(Zkey("open", <<>>)) : out = NoFiles /\ out' = With(out, 0, z)
    BY DEF Initialize
  <1>2. z \in Zkeys /\ Contributors(z) = {}
    BY EmptyAndPartial DEF Written
  <1>3. 0 \in 0..MaxNumber
    BY CeremonyAssumption
  <1>4. FilesOK(out') /\ DOMAIN out' = {0} /\ out'[0] = z
    BY <1>1, <1>2, <1>3, OnlyFile
  <1>5. returned = {} /\ returned' = {} /\ UNCHANGED <<turn, desk, returned>>
    BY <1>1, EmptyAndPartial DEF Initialize, SetupInv
  <1>6. desk' # NoFiles => \E k \in DOMAIN desk' : DeskFrom(k)'
    BY <1>1, <1>5, EmptyAndPartial, DeskStays
  <1>7. FilesOK(desk')
    BY <1>5 DEF SetupInv
  <1>8. QED
    BY <1>2, <1>4, <1>5, <1>6, <1>7 DEF SetupInv, FilesOK

\* The newest file is sent to a contributor who has returned none.
LEMMA SendKeepsSetup ==
    ASSUME SetupInv, NEW p \in Contributor, Send(p)
    PROVE  SetupInv'
  <1>0. out # NoFiles
    BY DEF Send
  <1>1. PICK k \in 0..MaxNumber : k = Latest(out) /\ k \in DOMAIN out /\ \A n \in DOMAIN out : n <= k
    BY <1>0, LatestIsLast DEF SetupInv
  <1>2. /\ p \notin returned /\ turn' = p
        /\ desk' = With(NoFiles, k, out[k]) /\ UNCHANGED <<out, returned>>
    BY <1>1 DEF Send
  <1>3. out[k] \in Zkeys /\ Contributors(out[k]) \subseteq returned
    BY <1>1 DEF SetupInv, FilesOK
  <1>4. FilesOK(desk') /\ DOMAIN desk' = {k} /\ desk'[k] = out[k]
    BY <1>2, <1>1, <1>3, OnlyFile
  <1>5. \A m \in DOMAIN out : ~(m > k)
    BY <1>1 DEF SetupInv, FilesOK
  <1>6. Whole(out[k]) => Newest(k)
    BY <1>1, <1>5 DEF Newest
  <1>7. DeskFrom(k)'
    <2>1. k \in DOMAIN desk' /\ turn' \in Contributor \ returned' /\ DOMAIN desk' \ {k} = {}
      BY <1>2, <1>4
    <2>2. Contributors(desk'[k]) \subseteq returned'
      BY <1>2, <1>3, <1>4
    <2>3. Whole(desk'[k]) => Newest(k)' /\ out'[k] = desk'[k]
      BY <1>2, <1>4, <1>6 DEF Newest
    <2>4. QED
      BY <2>1, <2>2, <2>3 DEF DeskFrom
  <1>8. k \in DOMAIN desk'
    BY <1>4
  <1>9. /\ FilesOK(out')
        /\ (\A n \in DOMAIN out' : ~Whole(out'[n])) => returned' = {}
        /\ \A n \in DOMAIN out' : /\ Contributors(out'[n]) \subseteq returned'
                                  /\ Newest(n)' => returned' \subseteq Contributors(out'[n])
    BY <1>2 DEF SetupInv, Newest
  <1>10. QED
    BY <1>4, <1>7, <1>8, <1>9 DEF SetupInv

\* A contributor adds to what he was sent, once or more.
LEMMA ContributeKeepsSetup ==
    ASSUME SetupInv, Contribute
    PROVE  SetupInv'
  <1> DEFINE last == Latest(desk)
             n == last + 1
             new == Zkey("open", Append(desk[last].chain, turn))
  <1>1. desk # NoFiles /\ Whole(desk[last]) /\ n <= MaxNumber /\ UNCHANGED <<out, turn, returned>>
    BY DEF Contribute, Next_name
  <1>2. PICK z \in Written(new) : desk' = With(desk, n, z)
    BY DEF Contribute, Next_name
  <1>3. last \in DOMAIN desk /\ last \in 0..MaxNumber /\ \A m \in DOMAIN desk : m <= last
    BY <1>1, LatestIsLast DEF SetupInv
  <1>4. PICK k \in DOMAIN desk : DeskFrom(k)
    BY <1>1 DEF SetupInv
  <1>5. k \in 0..MaxNumber /\ k <= last /\ desk[last] \in Zkeys /\ turn \in Contributor
    BY <1>3, <1>4 DEF SetupInv, FilesOK, DeskFrom
  <1>6. n \in 0..MaxNumber /\ n > k /\ \A m \in DOMAIN desk : m # n
    <2>1. MaxNumber \in Nat
      BY CeremonyAssumption
    <2>2. \A m \in DOMAIN desk : m \in 0..MaxNumber
      BY DEF SetupInv, FilesOK
    <2>3. QED
      BY <1>1, <1>3, <1>5, <2>1, <2>2
  <1>7. new \in Zkeys /\ Whole(new) /\ Contributors(new) = Contributors(desk[last]) \cup {turn}
    BY <1>5, ContributionAdds
  <1> HIDE DEF last, n, new
  <1>8. Whole(desk[k]) /\ Contributors(desk[last]) \cup {turn} = Contributors(desk[k]) \cup {turn}
    <2>1. CASE last = k
      BY <1>1, <2>1
    <2>2. CASE last # k
      BY <1>1, <1>3, <1>4, <2>2, EmptyAndPartial DEF DeskFrom
    <2>3. QED
      BY <2>1, <2>2
  <1>9. z \in Zkeys /\ (z = Partial \/ (Whole(z) /\ Contributors(z) = Contributors(desk[k]) \cup {turn}))
    BY <1>7, <1>8, EmptyAndPartial DEF Written
  <1>10. /\ FilesOK(desk') /\ DOMAIN desk' = DOMAIN desk \cup {n} /\ desk'[n] = z
         /\ \A m \in DOMAIN desk : desk'[m] = desk[m]
    BY <1>2, <1>6, <1>9, WithFacts DEF SetupInv
  <1>11. DeskFrom(k)'
    BY <1>1, <1>4, <1>6, <1>8, <1>9, <1>10 DEF DeskFrom, Newest
  <1>12. QED
    BY <1>1, <1>10, <1>11 DEF SetupInv, Newest, FilesOK

\* A file that comes back takes the place of the newest, or arrives in part.
LEMMA ReturnKeepsSetup ==
    ASSUME SetupInv, Return
    PROVE  SetupInv'
  <1>1. PICK n \in DOMAIN desk :
           /\ turn \in Contributors(desk[n])
           /\ \/ /\ out' = With(out, n, desk[n]) /\ returned' = returned \cup {turn}
                 /\ turn' = NoOne /\ desk' = NoFiles
              \/ out' = With(out, n, Partial) /\ UNCHANGED <<turn, desk, returned>>
    BY DEF Return
  <1>2. PICK k \in DOMAIN desk : DeskFrom(k)
    BY <1>1, EmptyAndPartial DEF SetupInv
  <1>3. /\ n # k /\ n > k /\ Newest(k) /\ out[k] = desk[k] /\ turn \notin returned
        /\ Whole(desk[n]) /\ Contributors(desk[n]) = Contributors(out[k]) \cup {turn}
    <2>1. n # k
      BY <1>1, <1>2 DEF DeskFrom
    <2>2. QED
      BY <1>1, <1>2, <2>1, EmptyAndPartial DEF DeskFrom
  <1>4. /\ n \in 0..MaxNumber /\ k \in 0..MaxNumber /\ DOMAIN out \subseteq 0..MaxNumber
        /\ desk[n] \in Zkeys /\ FilesOK(out) /\ MaxNumber \in Nat
    <2>1. MaxNumber \in Nat
      BY CeremonyAssumption
    <2>2. n \in 0..MaxNumber /\ k \in 0..MaxNumber /\ DOMAIN out \subseteq 0..MaxNumber
      BY DEF SetupInv, FilesOK
    <2>3. desk[n] \in Zkeys /\ FilesOK(out)
      BY DEF SetupInv, FilesOK
    <2>4. QED
      BY <2>1, <2>2, <2>3
  <1>5. Contributors(out[k]) = returned /\ k \in DOMAIN out
    BY <1>3 DEF SetupInv, Newest
  <1>6. CASE /\ out' = With(out, n, desk[n]) /\ returned' = returned \cup {turn}
             /\ turn' = NoOne /\ desk' = NoFiles
    <2>1. /\ FilesOK(out') /\ DOMAIN out' = DOMAIN out \cup {n} /\ out'[n] = desk[n]
          /\ \A m \in DOMAIN out : m # n => out'[m] = out[m]
      BY <1>4, <1>6, WithFacts
    <2>2. \A m \in DOMAIN out' : Contributors(out'[m]) \subseteq returned'
      BY <1>3, <1>5, <1>6, <2>1 DEF SetupInv
    <2>3. ASSUME NEW m \in DOMAIN out', Newest(m)'
          PROVE  returned' \subseteq Contributors(out'[m])
      <3>1. CASE m = n
        BY <1>3, <1>5, <1>6, <2>1, <3>1
      <3>2. CASE m # n
        <4>1. m \in DOMAIN out /\ Whole(out[m]) /\ ~(n > m)
          BY <1>3, <2>1, <2>3, <3>2 DEF Newest
        <4>2. m > k
          BY <1>3, <1>4, <3>2, <4>1
        <4>3. QED
          BY <1>3, <4>1, <4>2 DEF Newest
      <3>3. QED
        BY <3>1, <3>2
    <2>4. n \in DOMAIN out' /\ Whole(out'[n])
      BY <1>3, <2>1
    <2>5. QED
      BY <1>6, <2>1, <2>2, <2>3, <2>4, EmptyAndPartial DEF SetupInv
  <1>7. CASE out' = With(out, n, Partial) /\ UNCHANGED <<turn, desk, returned>>
    <2>0. Partial \in Zkeys
      BY EmptyAndPartial
    <2>1. /\ FilesOK(out') /\ DOMAIN out' = DOMAIN out \cup {n} /\ out'[n] = Partial
          /\ \A m \in DOMAIN out : m # n => out'[m] = out[m]
      <3>1. \A z \in Zkeys :
               /\ FilesOK(With(out, n, z)) /\ DOMAIN With(out, n, z) = DOMAIN out \cup {n}
               /\ With(out, n, z)[n] = z
               /\ \A m \in DOMAIN out : m # n => With(out, n, z)[m] = out[m]
        BY <1>4, WithFacts
      <3>2. QED
        BY <1>7, <2>0, <3>1
    <2>2. \A m \in DOMAIN out' : Contributors(out'[m]) \subseteq returned
      BY <2>1, EmptyAndPartial DEF SetupInv
    <2>3. Newest(k)' /\ out'[k] = out[k] /\ Whole(out'[k])
      BY <1>3, <1>5, <2>1, EmptyAndPartial DEF Newest
    <2>4. ASSUME NEW m \in DOMAIN out, Newest(m) \/ Newest(m)'
          PROVE  m = k
      <3>1. m \in 0..MaxNumber
        BY <1>4
      <3>2. (Whole(out[m]) /\ m # n) \/ Newest(m)
        BY <2>1, <2>4, EmptyAndPartial DEF Newest
      <3>3. ~(m > k)
        BY <1>3, <3>2 DEF Newest
      <3>4. ~(k > m)
        BY <1>3, <1>5, <2>1, <2>3, <2>4 DEF Newest
      <3>5. QED
        BY <1>4, <3>1, <3>3, <3>4
    <2>5. ~Newest(n)'
      BY <2>1, EmptyAndPartial DEF Newest
    <2>6. \A m \in DOMAIN out' : Newest(m)' => returned \subseteq Contributors(out'[m])
      BY <1>5, <2>1, <2>3, <2>4, <2>5
    <2>7. desk' # NoFiles => \E j \in DOMAIN desk' : DeskFrom(j)'
      BY <1>7, <2>3, <2>4, DeskStays
    <2>8. k \in DOMAIN out' /\ FilesOK(desk')
      BY <1>5, <1>7, <2>1 DEF SetupInv
    <2>9. QED
      BY <1>7, <2>1, <2>2, <2>3, <2>6, <2>7, <2>8 DEF SetupInv
  <1>8. QED
    BY <1>1, <1>6, <1>7

\* A partial file at the end is removed by hand.
LEMMA RemoveKeepsSetup ==
    ASSUME SetupInv, Remove
    PROVE  SetupInv'
  <1> DEFINE last == Latest(out)
  <1>1. /\ ~Whole(out[last]) /\ UNCHANGED <<turn, desk, returned>>
        /\ out' = [n \in DOMAIN out \ {last} |-> out[n]]
    BY DEF Remove
  <1> HIDE DEF last
  <1>2. /\ DOMAIN out' = DOMAIN out \ {last} /\ \A n \in DOMAIN out' : out'[n] = out[n]
    BY <1>1
  <1>3. FilesOK(out') /\ FilesOK(desk')
    <2>1. FilesOK(out) /\ FilesOK(desk)
      BY DEF SetupInv
    <2>2. FilesOK(desk')
      BY <1>1, <2>1
    <2>3. DOMAIN out' \subseteq 0..MaxNumber
      BY <1>2, <2>1 DEF FilesOK
    <2>4. \A n \in DOMAIN out' : out[n] \in Zkeys
      BY <1>2, <2>1 DEF FilesOK
    <2>5. out' \in [DOMAIN out' -> Zkeys]
      BY <1>1, <1>2, <2>4
    <2>6. QED
      BY <2>2, <2>3, <2>5 DEF FilesOK
  <1>4. \A n \in DOMAIN out : Newest(n) <=> (n \in DOMAIN out' /\ Newest(n)')
    BY <1>1, <1>2 DEF Newest
  <1>5. \A n \in DOMAIN out : Newest(n) => Newest(n)' /\ out'[n] = out[n]
    BY <1>2, <1>4
  <1>6. desk' # NoFiles => \E k \in DOMAIN desk' : DeskFrom(k)'
    BY <1>1, <1>5, DeskStays
  <1>7. (\A n \in DOMAIN out' : ~Whole(out'[n])) => returned' = {}
    BY <1>1, <1>2 DEF SetupInv
  <1>8. \A n \in DOMAIN out' : /\ Contributors(out'[n]) \subseteq returned'
                               /\ Newest(n)' => returned' \subseteq Contributors(out'[n])
    BY <1>1, <1>2, <1>4 DEF SetupInv
  <1>9. QED
    BY <1>3, <1>6, <1>7, <1>8 DEF SetupInv

\* The invariant of the contributions holds at first.
LEMMA SetupInit == Init => SetupInv
  <1> SUFFICES ASSUME Init PROVE SetupInv
    OBVIOUS
  <1>1. out = NoFiles /\ desk = NoFiles /\ returned = {}
    BY DEF Init
  <1>2. QED
    BY <1>1, EmptyAndPartial DEF SetupInv

\* Every step keeps the invariant of the contributions.
LEMMA SetupStep == SetupInv /\ [Next]_vars => SetupInv'
  <1> SUFFICES ASSUME SetupInv, [Next]_vars PROVE SetupInv'
    OBVIOUS
  <1>1. CASE UNCHANGED <<out, turn, desk, returned>>
    BY <1>1 DEF SetupInv, FilesOK, Newest, DeskFrom
  <1>2. CASE GiveUp
    <2>1. desk' = NoFiles /\ UNCHANGED <<out, returned>>
      BY <1>2 DEF GiveUp
    <2>2. QED
      BY <2>1, EmptyAndPartial DEF SetupInv, FilesOK, Newest
  <1>3. CASE Beacon \/ Export \/ Install \/ Interrupted \/ MakeFixture \/ Release \/ Deploy
             \/ UNCHANGED vars
    BY <1>1, <1>3 DEF Beacon, Export, Install, Interrupted, MakeFixture, Release, Deploy, setup, vars
  <1>4. QED
    BY <1>2, <1>3, InitializeKeepsSetup, SendKeepsSetup, ContributeKeepsSetup, ReturnKeepsSetup,
       RemoveKeepsSetup DEF Next

\* docs/CEREMONY_CONTRIBUTOR.md, "your contribution is in the final key": a
\* finished zkey contains everyone whose contribution was received by then,
\* however often files arrive in part, are made again or removed.
THEOREM ContributionsAreKept == Spec => NoContributionDropped
  <1>1. SetupInv /\ [Next]_vars =>
           [final' # final /\ Whole(final') => returned \subseteq Contributors(final')]_vars
    <2> SUFFICES ASSUME SetupInv, Next, final' # final, Whole(final')
                 PROVE  returned \subseteq Contributors(final')
      OBVIOUS
    <2>1. Beacon
      BY DEF Next, Initialize, Contribute, Return, GiveUp, Remove, Send, Export, Install,
         Interrupted, MakeFixture, Release, Deploy, setup
    <2> DEFINE last == Latest(out)
    <2>2. /\ out # NoFiles /\ Whole(out[last])
          /\ final' \in Written(Zkey("final", out[last].chain))
      BY <2>1 DEF Beacon
    <2>3. Contributors(final') = Contributors(out[last])
      BY <2>2, EmptyAndPartial DEF Written, Zkey, Contributors
    <2>4. last \in DOMAIN out /\ \A n \in DOMAIN out : ~(n > last)
      BY <2>2, LatestIsLast DEF SetupInv, FilesOK
    <2>5. Newest(last)
      BY <2>2, <2>4 DEF Newest
    <2>6. QED
      BY <2>3, <2>4, <2>5 DEF SetupInv
  <1>2. QED
    BY <1>1, SetupInit, SetupStep, PTL DEF Spec, NoContributionDropped
=============================================================================
