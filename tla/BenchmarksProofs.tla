--------------------------- MODULE BenchmarksProofs ---------------------------
(***************************************************************************)
(* For every set of command lines and addresses and every number of runs   *)
(* and changes.  First provisioning: a container that lets the tools in    *)
(* was built to the end, and the workstation's tools leave provisioning    *)
(* its own program, so that this holds while benchmarks are regenerated.   *)
(* Then branches: what a commit, a replayed commit and a rebase keep of    *)
(* what was written.  Then the workstation: nothing typed or committed is  *)
(* lost, origin only gains commits, and what a run says it pushed or       *)
(* committed it measured itself.                                           *)
(***************************************************************************)
EXTENDS BenchmarksProps, TotalsProofs, SequenceTheorems, TLAPS

Parts == {"repo", "oracles", "login", "mdns"}
Boxes == [exists : BOOLEAN, up : BOOLEAN, address : Addresses \cup {None}, policy : BOOLEAN,
          missing : SUBSET Parts, password : Nat, key : Nat]
OnFile == [key : Nat, address : Addresses \cup {None}, password : Nat]
Unserved == {"policy", "repo", "oracles", "ssh"}
Served == {"mdns", "clear", "key"}
Steps == {"idle", "create", "credentials"} \cup Unserved \cup Served

(* What a step of a run finds still to be done.                            *)
Remaining == [s \in Steps |->
  CASE s = "ssh" -> {"login", "mdns"}
    [] s = "oracles" -> {"oracles", "login", "mdns"}
    [] s = "mdns" -> {"mdns"}
    [] s \in {"clear", "key", "credentials"} -> {}
    [] OTHER -> Parts]

ProvisioningTypeOK ==
  box \in Boxes /\ files \in OnFile /\ step \in Steps /\ runs \in Nat

(* The key of this run is neither on file before it is written, nor in the *)
(* container before its login is set up.                                   *)
KeysAreFresh ==
  /\ files.key <= runs
  /\ step \in {"create"} \cup Unserved \cup Served => files.key < runs
  /\ step \in Unserved => box.key = None
  /\ step \in Served \cup {"credentials"} => box.key = runs
Progress ==
  /\ step \in Unserved \cup Served \cup {"credentials"} => box.missing \subseteq Wanted(args) \cap Remaining[step]
  /\ step \in {"key", "credentials"} => ~box.policy
KeyMeansWhole ==
  files.key # None /\ box.key = files.key => box.missing = {} /\ ~box.policy

IInv == ProvisioningTypeOK /\ KeysAreFresh /\ Progress /\ KeyMeansWhole

LEMMA InitEstablishes == InitProvisioning => IInv
<1> SUFFICES ASSUME InitProvisioning PROVE IInv
  OBVIOUS
<1> USE DEF InitProvisioning, NoBox, None
<1>1. ProvisioningTypeOK
  BY DEF ProvisioningTypeOK, Boxes, OnFile, Steps
<1>2. KeysAreFresh /\ Progress /\ KeyMeansWhole
  BY DEF KeysAreFresh, Progress, KeyMeansWhole, Unserved, Served
<1> QED BY <1>1, <1>2 DEF IInv

LEMMA StepPreserves == IInv /\ [NextProvisioning]_provisionVars => IInv'
<1> SUFFICES ASSUME IInv, [NextProvisioning]_provisionVars PROVE IInv'
  OBVIOUS
<1> USE DEF IInv, ProvisioningTypeOK, KeysAreFresh, Progress, KeyMeansWhole, Boxes, OnFile, None, Unserved, Served
<1>1. CASE Connect
  BY <1>1 DEF Connect, Steps
<1>2. CASE CreateContainer
  <2>1. CASE box' \in {box, [box EXCEPT !.up = FALSE]} /\ Exits("create") /\ UNCHANGED files
    BY <2>1 DEF Exits, Ahead, Steps
  <2>2. CASE box' = NoBox /\ Exits("create") /\ UNCHANGED files
    BY <2>2 DEF Exits, Ahead, Steps, NoBox
  <2>3. ASSUME NEW address \in Addresses, UNCHANGED files,
               \/ Goes("create", "policy") /\ box' = NewBox(address, args)
               \/ Exits("create") /\ box' \in {NoBox, [NewBox(address, args) EXCEPT !.up = FALSE]}
        PROVE IInv'
    <3> DEFINE new == NewBox(address, args)
    <3>1. new \in Boxes /\ new.key = None /\ new.missing = Wanted(args) /\ Wanted(args) \subseteq Parts
      BY DEF NewBox, NoBox, Wanted, Parts
    <3>4. [new EXCEPT !.up = FALSE] \in Boxes /\ [new EXCEPT !.up = FALSE].key = None
      BY <3>1
    <3>5. NoBox \in Boxes /\ NoBox.key = None
      BY DEF NoBox
    <3>2. CASE Goes("create", "policy") /\ box' = new
      <4>1. Remaining["policy"] = Parts
        BY DEF Remaining, Steps
      <4> QED BY <3>1, <3>2, <4>1, <2>3 DEF Goes, Ahead, Steps, Wanted
    <3>3. CASE Exits("create") /\ box' \in {NoBox, [new EXCEPT !.up = FALSE]}
      <4>1. box' \in Boxes /\ box'.key = None
        BY <3>3, <3>4, <3>5
      <4> QED BY <3>3, <4>1, <2>3 DEF Exits, Ahead, Steps
    <3> QED BY <2>3, <3>2, <3>3
  <2> QED BY <1>2, <2>1, <2>2, <2>3 DEF CreateContainer
<1>3. CASE SetInstallServicePolicy
  BY <1>3 DEF SetInstallServicePolicy, Runs, Goes, Exits, Ahead, Steps, Remaining
<1>4. CASE InstallRepo
  BY <1>4 DEF InstallRepo, Has, Runs, Goes, Exits, Ahead, Steps, Remaining, Wanted
<1>5. CASE InstallOracles
  BY <1>5 DEF InstallOracles, Has, Runs, Goes, Exits, Ahead, Steps, Remaining, Wanted
<1>6. CASE SetupSsh
  <2> DEFINE served == Has("login")
             named == [served EXCEPT !.password = runs]
  <2>1. \A b \in {box, served, named} : b \in Boxes /\ b.key = box.key
    BY DEF Has
  <2>2. [named EXCEPT !.key = runs] \in Boxes /\ [named EXCEPT !.key = runs].key = runs
    BY <2>1
  <2>3. [named EXCEPT !.key = runs].missing = box.missing \ {"login"}
    BY DEF Has
  <2>4. CASE Goes("ssh", "mdns") /\ box' = [named EXCEPT !.key = runs] /\ UNCHANGED files
    BY <2>2, <2>3, <2>4 DEF Goes, Ahead, Steps, Remaining
  <2>5. CASE Exits("ssh") /\ box' \in {box, served, named} /\ UNCHANGED files
    BY <2>1, <2>5 DEF Exits, Ahead, Steps
  <2> QED BY <1>6, <2>4, <2>5 DEF SetupSsh, Minted, GenerateKeypair
<1>7. CASE SetupMdns
  BY <1>7 DEF SetupMdns, Has, Runs, Goes, Exits, Ahead, Steps, Remaining, Wanted
<1>8. CASE ClearInstallServicePolicy
  BY <1>8 DEF ClearInstallServicePolicy, Runs, Goes, Exits, Ahead, Steps, Remaining
<1>9. CASE WritePrivateKey
  <2>1. CASE Goes("key", "credentials") /\ files' = [files EXCEPT !.key = runs] /\ UNCHANGED box
    <3>1. box.missing = {} /\ ~box.policy
      BY <2>1 DEF Goes, Ahead, Remaining, Steps
    <3>2. files' \in OnFile /\ files'.key = runs
      BY <2>1
    <3> QED BY <2>1, <3>1, <3>2 DEF Goes, Ahead, Steps, Remaining
  <2>2. CASE Exits("key") /\ files' \in {files, [files EXCEPT !.key = None]} /\ UNCHANGED box
    <3>1. files' \in OnFile /\ (files'.key = None \/ files'.key = files.key)
      BY <2>2
    <3> QED BY <2>2, <3>1 DEF Exits, Ahead, Steps
  <2> QED BY <1>9, <2>1, <2>2 DEF WritePrivateKey, GenerateKeypair, Minted
<1>10. CASE WriteCredentials
  <2>1. ASSUME NEW address \in {None, box.address}, NEW password \in Nat
        PROVE  /\ [files EXCEPT !.address = address, !.password = password] \in OnFile
               /\ [files EXCEPT !.address = address, !.password = password].key = files.key
    BY <2>1
  <2>2. files' \in OnFile /\ files'.key = files.key
    <3>1. ASSUME NEW address \in {None, box.address},
                 files' = [files EXCEPT !.address = address, !.password = runs]
          PROVE  files' \in OnFile /\ files'.key = files.key
      BY <2>1, <3>1
    <3>2. CASE files' \in {files, [files EXCEPT !.address = None, !.password = None]}
      BY <2>1, <3>2
    <3> QED BY <1>10, <3>1, <3>2 DEF WriteCredentials, Minted
  <2>3. step = "credentials" /\ step' = "idle" /\ UNCHANGED <<box, runs>>
    BY <1>10 DEF WriteCredentials, Exits, Ahead
  <2> QED BY <2>2, <2>3 DEF Steps
<1>11. CASE UNCHANGED provisionVars
  BY <1>11 DEF provisionVars
<1> QED
  BY <1>1, <1>2, <1>3, <1>4, <1>5, <1>6, <1>7, <1>8, <1>9, <1>10, <1>11 DEF NextProvisioning

(* The invariant the argument rests on: a run's key appears in the         *)
(* container, and on file, only when the step that puts it there is taken, *)
(* so no key on file opens a container that is still being built.          *)
THEOREM KeysFollowTheBuild == SpecProvisioning => []IInv
<1>1. InitProvisioning => IInv BY InitEstablishes
<1>2. IInv /\ [NextProvisioning]_provisionVars => IInv' BY StepPreserves
<1> QED BY <1>1, <1>2, PTL DEF SpecProvisioning

(* Whatever fails and however often provisioning is started again, a       *)
(* container that lets the tools in is whole (provision_runner.py, main).  *)
THEOREM WholeBoxesAnswer == SpecProvisioning => []OnlyWholeBoxesAnswer
<1>1. IInv => OnlyWholeBoxesAnswer
  BY DEF IInv, KeyMeansWhole, OnlyWholeBoxesAnswer, LogsIn, Resolves
<1> QED BY <1>1, KeysFollowTheBuild, PTL

-----------------------------------------------------------------------------
(* Every step of the composition is a step of provision_runner.py or       *)
(* changes nothing it owns.                                                *)
THEOREM BenchmarksLeaveProvisioning == Spec => SpecProvisioning
<1>1. Init => InitProvisioning
  BY DEF Init
<1>2. [Next]_vars => [NextProvisioning]_provisionVars
  BY DEF Next, Provision, vars, provisionVars
<1> QED BY <1>1, <1>2, PTL DEF Spec, SpecProvisioning

(* Whatever is regenerated meanwhile, ct_exec only ever gets into a        *)
(* container that was built to the end.                                    *)
THEOREM OnlyWholeBoxesMeasure == Spec => []OnlyWholeBoxesAnswer
BY BenchmarksLeaveProvisioning, WholeBoxesAnswer, PTL

-----------------------------------------------------------------------------
(* Branches.                                                               *)

LEMMA GreatestOf ==
  ASSUME NEW k \in Nat, NEW S \in SUBSET (1..k), S # {}
  PROVE  Max(S) \in S /\ \A i \in S : i <= Max(S)
<1> DEFINE Short == {n \in Nat : \E i \in S : n = k - i}
<1>1. PICK n \in Short : \A m \in Short : n <= m
  <2>1. PICK i : i \in S
    OBVIOUS
  <2>2. k - i \in Short
    BY <2>1
  <2> QED BY <2>2, LeastNat
<1>2. PICK i \in S : n = k - i
  OBVIOUS
<1>3. ASSUME NEW j \in S PROVE i >= j
  <2>1. k - j \in Short /\ i \in 1..k /\ j \in 1..k
    OBVIOUS
  <2> HIDE DEF Short
  <2> QED BY <1>1, <1>2, <2>1
<1>4. \E x \in S : \A y \in S : x >= y
  BY <1>3
<1>5. Max(S) \in S /\ \A y \in S : Max(S) >= y
  BY <1>4 DEF Max
<1> QED BY <1>5

(* What people type, what collaborators push and what a run measures are   *)
(* told apart; the measurements so far are those of the runs up to r.      *)
Codes == {<<"main", 0>>} \cup {<<"typed", n>> : n \in Nat} \cup {<<"theirs", n>> : n \in Nat}
Artifacts(r) ==
  {<<"main", 0>>} \cup {<<"theirs", n>> : n \in Nat}
    \cup {<<"measured", q, c>> : q \in 1..r, c \in Codes}
Values(r) == [code |-> Codes, artifact |-> Artifacts(r)]
Trees(r) == [code : Codes, artifact : Artifacts(r)]
Commits(r) ==
  {c \in UNION {[D -> Codes \cup Artifacts(r)] : D \in SUBSET Files} :
     \A f \in DOMAIN c : c[f] \in Values(r)[f]}
Branches(r) == {b \in Seq(Commits(r)) : b # <<>> /\ b[1] = Root}

LEMMA RootIsThere ==
  ASSUME NEW r \in Nat
  PROVE  Root \in Trees(r) /\ Root \in Commits(r) /\ <<Root>> \in Branches(r) /\ DOMAIN Root = Files
<1>1. DOMAIN Root = Files /\ Root \in Trees(r)
  BY DEF Root, Files, Trees, Codes, Artifacts
<1>2. \A f \in Files : Root[f] \in Values(r)[f] /\ Root[f] \in Codes
  BY DEF Root, Files, Values, Codes, Artifacts
<1>3. Root \in [Files -> Codes \cup Artifacts(r)]
  BY <1>1, <1>2 DEF Root, Files
<1>4. Root \in Commits(r)
  BY <1>1, <1>2, <1>3 DEF Commits
<1> QED BY <1>1, <1>4 DEF Branches

LEMMA CommitShape ==
  ASSUME NEW r \in Nat, NEW c \in Commits(r)
  PROVE  DOMAIN c \subseteq Files /\ \A f \in DOMAIN c : c[f] \in Values(r)[f]
BY DEF Commits

LEMMA CommitOf ==
  ASSUME NEW r \in Nat, NEW t \in Trees(r), NEW D \in SUBSET Files
  PROVE  [f \in D |-> t[f]] \in Commits(r)
<1>1. \A f \in Files : t[f] \in Values(r)[f] /\ t[f] \in Codes \cup Artifacts(r)
  BY DEF Trees, Values, Files
<1> QED BY <1>1 DEF Commits

(* What the tree holds of a file is what some commit left there, the last. *)
LEMMA TreeStep ==
  ASSUME NEW r \in Nat, NEW b \in Seq(Commits(r)), NEW k \in 1..Len(b), NEW f \in Files
  PROVE  TreeAt(b, k)[f] = IF f \in DOMAIN b[k] THEN b[k][f] ELSE TreeAt(b, k - 1)[f]
<1> DEFINE now == {i \in 1..k : f \in DOMAIN b[i]}
           before == {i \in 1..(k - 1) : f \in DOMAIN b[i]}
<1>1. /\ TreeAt(b, k)[f] = IF now = {} THEN Root[f] ELSE b[Max(now)][f]
      /\ TreeAt(b, k - 1)[f] = IF before = {} THEN Root[f] ELSE b[Max(before)][f]
  BY DEF TreeAt
<1>2. CASE f \in DOMAIN b[k]
  <2>1. k \in now /\ now \in SUBSET (1..k) /\ k \in Nat
    BY <1>2
  <2>2. Max(now) \in now /\ k <= Max(now)
    <3> HIDE DEF now
    <3> QED BY <2>1, GreatestOf
  <2>3. Max(now) = k
    BY <2>2
  <2> HIDE DEF now
  <2> QED BY <1>1, <1>2, <2>1, <2>3
<1>3. CASE f \notin DOMAIN b[k]
  <2>1. now = before
    BY <1>3
  <2> QED BY <1>1, <1>3, <2>1
<1> QED BY <1>2, <1>3

LEMMA TreeWas ==
  ASSUME NEW r \in Nat, NEW b \in Seq(Commits(r)), NEW k \in 0..Len(b), NEW f \in Files
  PROVE  \/ TreeAt(b, k)[f] = Root[f]
         \/ \E i \in 1..k : f \in DOMAIN b[i] /\ TreeAt(b, k)[f] = b[i][f]
<1> DEFINE writing == {i \in 1..k : f \in DOMAIN b[i]}
<1>1. TreeAt(b, k)[f] = IF writing = {} THEN Root[f] ELSE b[Max(writing)][f]
  BY DEF TreeAt
<1>2. writing # {} => Max(writing) \in writing
  <2>1. writing \in SUBSET (1..k) /\ k \in Nat
    OBVIOUS
  <2> HIDE DEF writing
  <2> QED BY <2>1, GreatestOf
<1> QED BY <1>1, <1>2

LEMMA TreeType ==
  ASSUME NEW r \in Nat, NEW b \in Seq(Commits(r)), NEW k \in 0..Len(b)
  PROVE  TreeAt(b, k) \in Trees(r)
<1>1. ASSUME NEW f \in Files
      PROVE  TreeAt(b, k)[f] \in Values(r)[f]
  <2>1. CASE TreeAt(b, k)[f] = Root[f]
    BY <2>1, RootIsThere DEF Trees, Values, Files
  <2>2. ASSUME NEW i \in 1..k, f \in DOMAIN b[i], TreeAt(b, k)[f] = b[i][f]
        PROVE  TreeAt(b, k)[f] \in Values(r)[f]
    <3>1. b[i] \in Commits(r)
      BY ElementOfSeq
    <3> QED BY <2>2, <3>1, CommitShape
  <2> QED BY <2>1, <2>2, TreeWas
<1>2. TreeAt(b, k) = [f \in Files |-> TreeAt(b, k)[f]]
  BY DEF TreeAt
<1> QED BY <1>1, <1>2 DEF Trees, Values, Files

(* Only the commits count.                                                 *)
LEMMA TreeOfPrefix ==
  ASSUME NEW a, NEW b, NEW k \in Nat, \A i \in 1..k : a[i] = b[i]
  PROVE  TreeAt(a, k) = TreeAt(b, k)
<1>1. ASSUME NEW f \in Files
      PROVE  TreeAt(a, k)[f] = TreeAt(b, k)[f]
  <2> DEFINE writing == {i \in 1..k : f \in DOMAIN a[i]}
  <2>1. writing = {i \in 1..k : f \in DOMAIN b[i]}
    OBVIOUS
  <2>2. /\ TreeAt(a, k)[f] = IF writing = {} THEN Root[f] ELSE a[Max(writing)][f]
        /\ TreeAt(b, k)[f] = IF writing = {} THEN Root[f] ELSE b[Max(writing)][f]
    BY <2>1 DEF TreeAt
  <2>3. writing # {} => Max(writing) \in 1..k
    <3>1. writing \in SUBSET (1..k)
      OBVIOUS
    <3>2. writing # {} => Max(writing) \in writing
      <4> HIDE DEF writing
      <4> QED BY <3>1, GreatestOf
    <3> HIDE DEF writing
    <3> QED BY <3>1, <3>2
  <2> HIDE DEF writing
  <2> QED BY <2>2, <2>3
<1>2. /\ TreeAt(a, k) = [f \in Files |-> TreeAt(a, k)[f]]
      /\ TreeAt(b, k) = [f \in Files |-> TreeAt(b, k)[f]]
  BY DEF TreeAt
<1> QED BY <1>1, <1>2

LEMMA TreeAppend ==
  ASSUME NEW r \in Nat, NEW b \in Seq(Commits(r)), NEW c \in Commits(r), NEW f \in Files
  PROVE  Tree(Append(b, c))[f] = IF f \in DOMAIN c THEN c[f] ELSE Tree(b)[f]
<1> DEFINE d == Append(b, c)
<1>1. d \in Seq(Commits(r)) /\ Len(d) = Len(b) + 1 /\ d[Len(b) + 1] = c
      /\ \A i \in 1..Len(b) : d[i] = b[i]
  OBVIOUS
<1>2. Len(b) \in Nat
  OBVIOUS
<1> HIDE DEF d
<1>3. TreeAt(d, Len(b)) = TreeAt(b, Len(b))
  BY <1>1, <1>2, TreeOfPrefix
<1>4. Len(b) + 1 \in 1..Len(d) /\ (Len(b) + 1) - 1 = Len(b)
  BY <1>1, <1>2
<1>5. TreeAt(d, Len(b) + 1)[f] = IF f \in DOMAIN c THEN c[f] ELSE TreeAt(d, Len(b))[f]
  BY <1>1, <1>4, TreeStep
<1> QED BY <1>1, <1>3, <1>5 DEF Tree, d

-----------------------------------------------------------------------------
(* What two branches share ends where one of them does, or at a difference.*)
LEMMA SharedIs ==
  ASSUME NEW r \in Nat, NEW a \in Seq(Commits(r)), NEW b \in Seq(Commits(r))
  PROVE  /\ Shared(a, b) \in 0..Len(a) /\ Shared(a, b) <= Len(b)
         /\ \A i \in 1..Shared(a, b) : a[i] = b[i]
         /\ Shared(a, b) < Len(a) /\ Shared(a, b) < Len(b) => a[Shared(a, b) + 1] # b[Shared(a, b) + 1]
<1> DEFINE Common(n) == n <= Len(b) /\ \A i \in 1..n : a[i] = b[i]
           StopsAt(n) == n < Len(a) /\ n < Len(b) => a[n + 1] # b[n + 1]
           S == {n \in 1..(Len(a) + 1) : Common(n - 1)}
<1>0. Len(a) \in Nat /\ Len(b) \in Nat
  OBVIOUS
<1>1. \E n \in 0..Len(a) : Common(n) /\ StopsAt(n)
  <2>1. S \in SUBSET (1..(Len(a) + 1)) /\ Len(a) + 1 \in Nat /\ 1 \in S
    BY <1>0
  <2>2. PICK top \in S : \A n \in S : n <= top
    <3> HIDE DEF S
    <3> QED BY <2>1, GreatestOf
  <2> DEFINE m == top - 1
  <2>3. m \in 0..Len(a) /\ Common(m) /\ top = m + 1
    BY <1>0
  <2>4. ASSUME m < Len(a), m < Len(b), a[m + 1] = b[m + 1]
        PROVE  FALSE
    <3> HIDE DEF m
    <3>1. m + 1 \in 0..Len(a) /\ m + 1 <= Len(b)
      BY <1>0, <2>3, <2>4
    <3>2. \A i \in 1..(m + 1) : i \in 1..m \/ i = m + 1
      BY <2>3
    <3>3. Common(m + 1)
      BY <2>3, <2>4, <3>1, <3>2
    <3>4. m + 2 \in S
      <4> HIDE DEF Common
      <4>1. m + 2 \in 1..(Len(a) + 1) /\ (m + 2) - 1 = m + 1
        BY <1>0, <2>3, <3>1
      <4> QED BY <3>3, <4>1
    <3>5. m + 2 <= top
      <4> HIDE DEF S
      <4> QED BY <2>2, <3>4
    <3> HIDE DEF S
    <3> QED BY <2>3, <3>5
  <2> HIDE DEF m
  <2> QED BY <2>3, <2>4
<1>2. Shared(a, b) \in 0..Len(a) /\ Common(Shared(a, b)) /\ StopsAt(Shared(a, b))
  BY <1>1 DEF Shared
<1> QED BY <1>2

(* A branch that has nothing beyond another is the beginning of it.        *)
LEMMA NothingBeyond ==
  ASSUME NEW r \in Nat, NEW a \in Seq(Commits(r)), NEW b \in Seq(Commits(r)), b # <<>>, Beyond(a, b) = 0
  PROVE  Len(a) <= Len(b) /\ \A i \in 1..Len(a) : a[i] = b[i]
<1>1. Shared(a, b) = Len(a)
  BY SharedIs DEF Beyond
<1> QED BY <1>1, SharedIs

(* The replay as a table: where it stands after each commit.               *)
Replays(g, mine, theirs) ==
  /\ g[Shared(mine, theirs)] = [branch |-> theirs, conflict |-> FALSE]
  /\ \A k \in (Shared(mine, theirs) + 1)..Len(mine) : g[k] = Replay(g[k - 1], mine, k)
ReplaysUpTo(g, n, mine, theirs) ==
  /\ g[Shared(mine, theirs)] = [branch |-> theirs, conflict |-> FALSE]
  /\ \A k \in (Shared(mine, theirs) + 1)..Len(mine) :
       k <= Shared(mine, theirs) + n => g[k] = Replay(g[k - 1], mine, k)
Unwinds(g, mine, theirs) ==
  g = [k \in Shared(mine, theirs)..Len(mine) |->
         IF k = Shared(mine, theirs) THEN [branch |-> theirs, conflict |-> FALSE]
         ELSE Replay(g[k - 1], mine, k)]

LEMMA ReplayTable ==
  ASSUME NEW mine, NEW theirs, Shared(mine, theirs) \in Nat, Len(mine) \in Nat,
         Shared(mine, theirs) <= Len(mine)
  PROVE  \E g : Replays(g, mine, theirs) /\ Replayed(mine, theirs) = g[Len(mine)]
<1> DEFINE from == Shared(mine, theirs)
           start == [branch |-> theirs, conflict |-> FALSE]
           S == {n \in Nat : \E g : DOMAIN g = from..Len(mine) /\ ReplaysUpTo(g, n, mine, theirs)}
<1>0. from \in Nat /\ Len(mine) \in Nat /\ from <= Len(mine)
  OBVIOUS
<1>1. 0 \in S
  <2> DEFINE g == [k \in from..Len(mine) |-> start]
  <2>1. DOMAIN g = from..Len(mine) /\ g[from] = start
    BY <1>0
  <2>2. \A k \in (from + 1)..Len(mine) : ~(k <= from + 0)
    BY <1>0
  <2> HIDE DEF g
  <2>3. ReplaysUpTo(g, 0, mine, theirs)
    BY <2>1, <2>2 DEF ReplaysUpTo
  <2> QED BY <2>1, <2>3
<1>2. \A n \in S : n + 1 \in S
  <2> SUFFICES ASSUME NEW n \in S PROVE n + 1 \in S
    OBVIOUS
  <2>1. PICK g : DOMAIN g = from..Len(mine) /\ ReplaysUpTo(g, n, mine, theirs)
    OBVIOUS
  <2> DEFINE h == [k \in from..Len(mine) |-> IF k <= from + n THEN g[k] ELSE Replay(g[k - 1], mine, k)]
  <2>2. n \in Nat /\ DOMAIN h = from..Len(mine)
    OBVIOUS
  <2>3. \A k \in from..Len(mine) : k <= from + n => h[k] = g[k]
    OBVIOUS
  <2>4. \A k \in from..Len(mine) : ~(k <= from + n) => h[k] = Replay(g[k - 1], mine, k)
    OBVIOUS
  <2> HIDE DEF h
  <2>5. h[from] = start
    BY <1>0, <2>1, <2>2, <2>3 DEF ReplaysUpTo
  <2>6. ASSUME NEW k \in (from + 1)..Len(mine), k <= from + (n + 1)
        PROVE  h[k] = Replay(h[k - 1], mine, k)
    <3>1. k - 1 \in from..Len(mine) /\ k \in from..Len(mine) /\ k - 1 <= from + n
      BY <1>0, <2>2, <2>6
    <3>2. h[k - 1] = g[k - 1]
      BY <2>3, <3>1
    <3>3. CASE k <= from + n
      <4>1. g[k] = Replay(g[k - 1], mine, k)
        BY <2>1, <2>6, <3>3 DEF ReplaysUpTo
      <4> QED BY <2>3, <3>1, <3>2, <3>3, <4>1
    <3>4. CASE ~(k <= from + n)
      BY <2>4, <3>1, <3>2, <3>4
    <3> QED BY <3>3, <3>4
  <2>7. ReplaysUpTo(h, n + 1, mine, theirs)
    BY <2>5, <2>6 DEF ReplaysUpTo
  <2> QED BY <2>2, <2>7
<1>3. Len(mine) \in S
  <2>1. S \in SUBSET Nat
    OBVIOUS
  <2> HIDE DEF S
  <2> QED BY <1>1, <1>2, <2>1, Counting
<1>4. PICK g : DOMAIN g = from..Len(mine) /\ ReplaysUpTo(g, Len(mine), mine, theirs)
  BY <1>3
<1> DEFINE h == [k \in from..Len(mine) |-> g[k]]
<1>5. Unwinds(h, mine, theirs)
  <2>1. \A k \in from..Len(mine) : h[k] = IF k = from THEN start ELSE Replay(h[k - 1], mine, k)
    <3> SUFFICES ASSUME NEW k \in from..Len(mine), k # from
                 PROVE  h[k] = Replay(h[k - 1], mine, k)
      BY <1>0, <1>4 DEF ReplaysUpTo
    <3>1. k \in (from + 1)..Len(mine) /\ k <= from + Len(mine) /\ k - 1 \in from..Len(mine)
      BY <1>0
    <3> QED BY <1>4, <3>1 DEF ReplaysUpTo
  <2> QED BY <2>1 DEF Unwinds
<1> DEFINE f == CHOOSE it : Unwinds(it, mine, theirs)
<1>6. Unwinds(f, mine, theirs)
  <2> HIDE DEF h
  <2> QED BY <1>5
<1>7. Replayed(mine, theirs) = f[Len(mine)]
  BY DEF Replayed, Unwinds
<1> HIDE DEF f
<1>8. Replays(f, mine, theirs)
  <2>1. \A k \in from..Len(mine) : f[k] = IF k = from THEN start ELSE Replay(f[k - 1], mine, k)
    BY <1>6 DEF Unwinds
  <2>2. from \in from..Len(mine) /\ \A k \in (from + 1)..Len(mine) : k \in from..Len(mine) /\ k # from
    BY <1>0
  <2> QED BY <2>1, <2>2 DEF Replays
<1> QED BY <1>7, <1>8

Occurs(v, b) == \E i \in DOMAIN b : \E f \in DOMAIN b[i] : b[i][f] = v
States(r) == [branch : Branches(r), conflict : BOOLEAN]

LEMMA BranchShape ==
  ASSUME NEW r \in Nat, NEW b \in Branches(r)
  PROVE  /\ b \in Seq(Commits(r)) /\ Len(b) \in Nat \ {0} /\ DOMAIN b = 1..Len(b) /\ b[1] = Root
         /\ b # <<>> /\ \A i \in 1..Len(b) : b[i] \in Commits(r)
<1>1. b \in Seq(Commits(r)) /\ b # <<>> /\ b[1] = Root
  BY DEF Branches
<1>2. Len(b) \in Nat \ {0} /\ DOMAIN b = 1..Len(b)
  BY <1>1
<1> QED BY <1>1, <1>2, ElementOfSeq

(* What the tree holds was put there by a commit, the first at least.      *)
LEMMA TreeOccurs ==
  ASSUME NEW r \in Nat, NEW b \in Branches(r), NEW k \in 1..Len(b), NEW f \in Files
  PROVE  \E i \in 1..k : f \in DOMAIN b[i] /\ b[i][f] = TreeAt(b, k)[f]
<1>1. b \in Seq(Commits(r)) /\ b[1] = Root /\ Len(b) \in Nat
  BY BranchShape
<1>2. CASE TreeAt(b, k)[f] = Root[f]
  BY <1>1, <1>2, RootIsThere
<1>3. CASE \E i \in 1..k : f \in DOMAIN b[i] /\ TreeAt(b, k)[f] = b[i][f]
  BY <1>3
<1> QED BY <1>1, <1>2, <1>3, TreeWas

LEMMA AppendIsBranch ==
  ASSUME NEW r \in Nat, NEW b \in Branches(r), NEW c \in Commits(r)
  PROVE  /\ Append(b, c) \in Branches(r)
         /\ \A v : Occurs(v, b) => Occurs(v, Append(b, c))
         /\ \A f \in DOMAIN c : Occurs(c[f], Append(b, c))
<1> DEFINE d == Append(b, c)
<1>1. b \in Seq(Commits(r)) /\ Len(b) \in Nat \ {0} /\ DOMAIN b = 1..Len(b) /\ b[1] = Root
  BY BranchShape
<1>2. d \in Seq(Commits(r)) /\ Len(d) = Len(b) + 1 /\ d[Len(b) + 1] = c
      /\ \A i \in 1..Len(b) : d[i] = b[i]
  BY <1>1
<1>3. DOMAIN d = 1..Len(d) /\ d # <<>>
  BY <1>1, <1>2
<1> HIDE DEF d
<1>4. d \in Branches(r)
  BY <1>1, <1>2, <1>3 DEF Branches
<1>5. \A v : Occurs(v, b) => Occurs(v, d)
  BY <1>1, <1>2, <1>3 DEF Occurs
<1>6. \A f \in DOMAIN c : Occurs(c[f], d)
  <2>1. Len(b) + 1 \in DOMAIN d
    BY <1>1, <1>2, <1>3
  <2> QED BY <1>2, <2>1 DEF Occurs
<1> QED BY <1>4, <1>5, <1>6 DEF d

(* One commit replayed: the files it changed are as it left them, the      *)
(* others as they were, and no commit is taken away.                       *)
LEMMA ReplayKeeps ==
  ASSUME NEW r \in Nat, NEW mine \in Branches(r), NEW k \in 2..Len(mine), NEW state \in States(r)
  PROVE  /\ Replay(state, mine, k) \in States(r)
         /\ \A v : Occurs(v, state.branch) => Occurs(v, Replay(state, mine, k).branch)
         /\ ~Replay(state, mine, k).conflict =>
              /\ ~state.conflict
              /\ \A f \in Files : Tree(Replay(state, mine, k).branch)[f] =
                   IF TreeAt(mine, k)[f] # TreeAt(mine, k - 1)[f] THEN TreeAt(mine, k)[f]
                   ELSE Tree(state.branch)[f]
<1> DEFINE base == TreeAt(mine, k - 1)
           wanted == TreeAt(mine, k)
           there == Tree(state.branch)
           changes == {f \in Files : wanted[f] # base[f] /\ wanted[f] # there[f]}
           added == [f \in changes |-> wanted[f]]
           next == Replay(state, mine, k)
<1>1. mine \in Seq(Commits(r)) /\ Len(mine) \in Nat
  BY BranchShape
<1>2. wanted \in Trees(r)
  BY <1>1, TreeType
<1>3. changes \in SUBSET Files /\ added \in Commits(r) /\ DOMAIN added = changes
  <2>1. changes \in SUBSET Files
    OBVIOUS
  <2> HIDE DEF changes, wanted
  <2> QED BY <1>2, <2>1, CommitOf
<1>4. state.branch \in Branches(r) /\ state.branch \in Seq(Commits(r)) /\ state.conflict \in BOOLEAN
  BY BranchShape DEF States
<1>5. next = IF state.conflict \/ changes = {} THEN state
             ELSE IF \E f \in changes : there[f] # base[f] THEN [state EXCEPT !.conflict = TRUE]
             ELSE [state EXCEPT !.branch = Append(@, added)]
  BY DEF Replay
<1>6. \A f \in Files : Tree(Append(state.branch, added))[f] = IF f \in changes THEN wanted[f] ELSE there[f]
  <2> TAKE f \in Files
  <2>1. f \in changes => added[f] = wanted[f]
    OBVIOUS
  <2> HIDE DEF added, changes, wanted
  <2> QED BY <1>3, <1>4, <2>1, TreeAppend
<1>7. \A f \in Files : f \in changes <=> wanted[f] # base[f] /\ wanted[f] # there[f]
  OBVIOUS
<1>8. Append(state.branch, added) \in Branches(r)
      /\ \A v : Occurs(v, state.branch) => Occurs(v, Append(state.branch, added))
  <2> HIDE DEF added, changes
  <2> QED BY <1>3, <1>4, AppendIsBranch
<1> HIDE DEF base, wanted, changes, added, next, there
<1>9. CASE state.conflict \/ changes = {}
  <2>1. next = state
    BY <1>5, <1>9
  <2>2. ~state.conflict => \A f \in Files : there[f] = IF wanted[f] # base[f] THEN wanted[f] ELSE there[f]
    BY <1>7, <1>9
  <2> QED BY <2>1, <2>2 DEF base, wanted, next, there
<1>10. CASE ~(state.conflict \/ changes = {}) /\ \E f \in changes : there[f] # base[f]
  <2>1. next = [state EXCEPT !.conflict = TRUE]
    BY <1>5, <1>10
  <2>2. next \in States(r) /\ next.conflict /\ next.branch = state.branch
    BY <2>1 DEF States
  <2> QED BY <2>2 DEF next
<1>11. CASE ~(state.conflict \/ changes = {}) /\ ~\E f \in changes : there[f] # base[f]
  <2>1. next = [state EXCEPT !.branch = Append(state.branch, added)]
    BY <1>5, <1>11
  <2>2. next \in States(r) /\ next.conflict = state.conflict /\ next.branch = Append(state.branch, added)
    BY <1>8, <2>1 DEF States
  <2>3. \A f \in Files : Tree(next.branch)[f] = IF wanted[f] # base[f] THEN wanted[f] ELSE there[f]
    BY <1>6, <1>7, <2>2
  <2> QED BY <1>8, <1>11, <2>2, <2>3 DEF base, wanted, next, there
<1> QED BY <1>9, <1>10, <1>11

LEMMA SharedIsPositive ==
  ASSUME NEW r \in Nat, NEW a \in Branches(r), NEW b \in Branches(r)
  PROVE  Shared(a, b) \in 1..Len(a) /\ Shared(a, b) <= Len(b) /\ Len(a) \in Nat
<1>1. /\ a \in Seq(Commits(r)) /\ b \in Seq(Commits(r)) /\ a[1] = b[1]
      /\ Len(a) \in Nat \ {0} /\ Len(b) \in Nat \ {0}
  BY BranchShape
<1>2. Shared(a, b) \in 0..Len(a) /\ Shared(a, b) <= Len(b)
      /\ (Shared(a, b) < Len(a) /\ Shared(a, b) < Len(b) => a[Shared(a, b) + 1] # b[Shared(a, b) + 1])
  BY <1>1, SharedIs
<1>3. Shared(a, b) # 0
  BY <1>1, <1>2
<1> QED BY <1>1, <1>2, <1>3

(* A rebase that does not conflict keeps everything the branch ever wrote, *)
(* and of a file last changed by a commit of its own, what it holds.       *)
LEMMA RebaseKeeps ==
  ASSUME NEW r \in Nat, NEW mine \in Branches(r), NEW theirs \in Branches(r),
         ~Replayed(mine, theirs).conflict
  PROVE  /\ Replayed(mine, theirs).branch \in Branches(r)
         /\ \A v : Occurs(v, mine) => Occurs(v, Replayed(mine, theirs).branch)
         /\ \A f \in Files :
              Tree(mine)[f] # TreeAt(mine, Shared(mine, theirs))[f]
              => Tree(Replayed(mine, theirs).branch)[f] = Tree(mine)[f]
<1> DEFINE from == Shared(mine, theirs)
<1>1. from \in 1..Len(mine) /\ from <= Len(theirs) /\ Len(mine) \in Nat
      /\ mine \in Seq(Commits(r)) /\ theirs \in Seq(Commits(r)) /\ DOMAIN mine = 1..Len(mine)
      /\ DOMAIN theirs = 1..Len(theirs) /\ Len(theirs) \in Nat
  BY SharedIsPositive, BranchShape
<1>2. PICK g : Replays(g, mine, theirs) /\ Replayed(mine, theirs) = g[Len(mine)]
  BY <1>1, ReplayTable
<1> DEFINE Carries(k) == \A i \in 1..k : \A f \in DOMAIN mine[i] : Occurs(mine[i][f], g[k].branch)
           Latest(k) == \A f \in Files : TreeAt(mine, k)[f] # TreeAt(mine, from)[f]
                                         => Tree(g[k].branch)[f] = TreeAt(mine, k)[f]
           Good(k) == g[k] \in States(r) /\ (~g[k].conflict => Carries(k) /\ Latest(k))
           S == {n \in Nat : from + n <= Len(mine) => Good(from + n)}
<1>3. Good(from)
  <2>1. g[from] = [branch |-> theirs, conflict |-> FALSE]
    BY <1>2 DEF Replays
  <2>2. Carries(from)
    <3>1. \A i \in 1..from : mine[i] = theirs[i] /\ i \in DOMAIN theirs
      BY <1>1, SharedIs
    <3> QED BY <2>1, <3>1 DEF Occurs
  <2> QED BY <2>1, <2>2 DEF States
<1>4. ASSUME NEW k \in from..(Len(mine) - 1), Good(k)
      PROVE  Good(k + 1)
  <2> DEFINE next == Replay(g[k], mine, k + 1)
  <2>1. k + 1 \in (from + 1)..Len(mine) /\ k + 1 \in 2..Len(mine) /\ (k + 1) - 1 = k /\ k \in 1..Len(mine)
    BY <1>1
  <2>2. g[k + 1] = next
    BY <1>2, <2>1 DEF Replays
  <2>3. /\ next \in States(r)
        /\ \A v : Occurs(v, g[k].branch) => Occurs(v, next.branch)
        /\ ~next.conflict =>
              /\ ~g[k].conflict
              /\ \A f \in Files : Tree(next.branch)[f] =
                   IF TreeAt(mine, k + 1)[f] # TreeAt(mine, k)[f] THEN TreeAt(mine, k + 1)[f]
                   ELSE Tree(g[k].branch)[f]
    BY <1>4, <2>1, ReplayKeeps
  <2> HIDE DEF next
  <2> SUFFICES ASSUME ~next.conflict PROVE Carries(k + 1) /\ Latest(k + 1)
    BY <2>2, <2>3
  <2>4. Carries(k) /\ Latest(k) /\ next.branch \in Branches(r)
    BY <1>4, <2>3 DEF States
  <2>5. ASSUME NEW i \in 1..(k + 1), NEW f \in DOMAIN mine[i]
        PROVE  Occurs(mine[i][f], next.branch)
    <3>1. CASE i \in 1..k
      BY <2>3, <2>4, <2>5, <3>1
    <3>2. CASE i = k + 1
      <4>1. f \in Files
        BY <2>1, <2>5, <3>2, BranchShape, CommitShape
      <4>2. TreeAt(mine, k + 1)[f] = mine[i][f]
        <5>1. k + 1 \in 1..Len(mine) /\ f \in DOMAIN mine[k + 1]
          BY <2>1, <2>5, <3>2
        <5>2. TreeAt(mine, k + 1)[f] = IF f \in DOMAIN mine[k + 1] THEN mine[k + 1][f] ELSE TreeAt(mine, (k + 1) - 1)[f]
          BY <1>1, <4>1, <5>1, TreeStep
        <5> QED BY <3>2, <5>1, <5>2
      <4>3. CASE TreeAt(mine, k + 1)[f] # TreeAt(mine, k)[f]
        <5>1. Tree(next.branch)[f] = mine[i][f]
          BY <2>3, <4>1, <4>2, <4>3
        <5>2. Len(next.branch) \in 1..Len(next.branch) /\ DOMAIN next.branch = 1..Len(next.branch)
          BY <2>4, BranchShape
        <5>3. \E j \in 1..Len(next.branch) : f \in DOMAIN next.branch[j] /\ next.branch[j][f] = Tree(next.branch)[f]
          BY <2>4, <4>1, <5>2, TreeOccurs DEF Tree
        <5> QED BY <5>1, <5>2, <5>3 DEF Occurs
      <4>4. CASE TreeAt(mine, k + 1)[f] = TreeAt(mine, k)[f]
        <5>1. PICK j \in 1..k : f \in DOMAIN mine[j] /\ mine[j][f] = TreeAt(mine, k)[f]
          BY <2>1, <4>1, TreeOccurs
        <5>2. Occurs(mine[j][f], g[k].branch)
          BY <2>4, <5>1
        <5> QED BY <2>3, <4>2, <4>4, <5>1, <5>2
      <4> QED BY <4>3, <4>4
    <3> QED BY <2>1, <3>1, <3>2
  <2>6. ASSUME NEW f \in Files, TreeAt(mine, k + 1)[f] # TreeAt(mine, from)[f]
        PROVE  Tree(next.branch)[f] = TreeAt(mine, k + 1)[f]
    BY <2>3, <2>4, <2>6
  <2> QED BY <2>2, <2>5, <2>6
<1>5. S = Nat
  <2>1. 0 \in S
    BY <1>1, <1>3
  <2>2. \A n \in S : n + 1 \in S
    <3> SUFFICES ASSUME NEW n \in S, from + (n + 1) <= Len(mine) PROVE Good(from + (n + 1))
      OBVIOUS
    <3> DEFINE k == from + n
    <3>1. k \in from..(Len(mine) - 1) /\ from + (n + 1) = k + 1 /\ Good(k)
      BY <1>1
    <3> HIDE DEF k, Good
    <3> QED BY <1>4, <3>1
  <2>3. S \in SUBSET Nat
    OBVIOUS
  <2> HIDE DEF S
  <2> QED BY <2>1, <2>2, <2>3, Counting
<1>6. Good(Len(mine))
  <2>1. Len(mine) - from \in Nat /\ from + (Len(mine) - from) = Len(mine)
    BY <1>1
  <2>2. Len(mine) - from \in S
    BY <1>5, <2>1
  <2> HIDE DEF Good
  <2> QED BY <1>1, <2>1, <2>2
<1>7. g[Len(mine)] \in States(r) /\ Carries(Len(mine)) /\ Latest(Len(mine))
  BY <1>2, <1>6
<1>8. Replayed(mine, theirs).branch \in Branches(r)
  BY <1>2, <1>7 DEF States
<1>9. \A v : Occurs(v, mine) => Occurs(v, Replayed(mine, theirs).branch)
  BY <1>1, <1>2, <1>7 DEF Occurs
<1> QED BY <1>2, <1>7, <1>8, <1>9 DEF Tree

-----------------------------------------------------------------------------
(* The workstation.  While a run is under way origin has no measurement of *)
(* it yet, so that what the run committed is not taken for origin's.       *)
ToolSteps == {"idle", "sync", "box", "wait", "write", "commit", "push", "resync", "retry"}
Tools(r) ==
  [at : ToolSteps, order : Orders, markdown : Artifacts(r), alone : BOOLEAN,
   outcome : {"none", "died", "unchanged", "local", "pushed"}]
Lines(r) == [run : 1..r, at : {"fetch", "measure", "print"}, ref : BOOLEAN, code : Codes]
Heard == IF tool.at = "idle" THEN measures ELSE measures - 1
BenchmarksTypeOK ==
  /\ measures \in Nat /\ edits \in Nat /\ Heard \in Nat
  /\ origin = <<>> \/ origin \in Branches(Heard)
  /\ tracked = <<>> \/ tracked \in Branches(Heard)
  /\ local \in Branches(measures) /\ index \in Trees(measures) /\ work \in Trees(measures)
  /\ tool \in Tools(measures) /\ remote \subseteq Lines(measures) /\ clone \in Trees(measures)

(* Code is staged whole or not at all: a typed change that is only staged  *)
(* could not be committed any more.                                        *)
CodeStaged == index.code = work.code \/ index.code = Tree(local).code

(* A run whose remote line is alone: what the line measured, what came     *)
(* back, was written, committed and replayed is of this run.               *)
Tips == {TreeAt(Ref, n).code : n \in 0..Len(Ref)}
Measurements == {<<"measured", measures, TreeAt(Ref, n).code>> : n \in 0..Len(Ref)}
OnlyLine ==
  tool.alone /\ tool.at = "wait" =>
    /\ \A line \in remote :
         /\ line.run = measures /\ line.ref = tool.order.onBranch
         /\ line.at # "fetch" => line.code \in Tips
         /\ line.at = "print" => clone.artifact = <<"measured", measures, line.code>>
    /\ \A l, m \in remote : l = m
Committed == {"push", "resync", "retry"}
OwnArtifact ==
  /\ tool.alone /\ tool.at = "write" => tool.markdown \in Measurements
  /\ tool.alone /\ tool.at = "commit" => work.artifact \in Measurements
  /\ tool.alone /\ tool.at \in Committed => Tree(local).artifact \in Measurements
  /\ tool.at \in Committed => index.artifact = Tree(local).artifact

WInv == BenchmarksTypeOK /\ CodeStaged /\ NothingLost /\ OnlyLine /\ OwnArtifact

LEMMA MoreRuns ==
  ASSUME NEW r \in Nat, NEW s \in Nat, r <= s
  PROVE  /\ Artifacts(r) \subseteq Artifacts(s) /\ Trees(r) \subseteq Trees(s)
         /\ Commits(r) \subseteq Commits(s) /\ Branches(r) \subseteq Branches(s)
         /\ Tools(r) \subseteq Tools(s) /\ Lines(r) \subseteq Lines(s)
<1>1. 1..r \subseteq 1..s
  OBVIOUS
<1>2. Artifacts(r) \subseteq Artifacts(s)
  BY <1>1 DEF Artifacts
<1>3. Trees(r) \subseteq Trees(s) /\ Tools(r) \subseteq Tools(s)
  BY <1>2 DEF Trees, Tools
<1>4. Lines(r) \subseteq Lines(s)
  BY <1>1 DEF Lines
<1>5. Commits(r) \subseteq Commits(s)
  <2> SUFFICES ASSUME NEW c \in Commits(r) PROVE c \in Commits(s)
    OBVIOUS
  <2>1. PICK D \in SUBSET Files : c \in [D -> Codes \cup Artifacts(r)]
    BY DEF Commits
  <2>2. c \in [D -> Codes \cup Artifacts(s)]
    BY <1>2, <2>1
  <2>3. \A f \in Files : Values(r)[f] \subseteq Values(s)[f]
    BY <1>2 DEF Values, Files
  <2>4. \A f \in DOMAIN c : c[f] \in Values(s)[f]
    BY <2>3, CommitShape
  <2> QED BY <2>1, <2>2, <2>4 DEF Commits
<1>6. Branches(r) \subseteq Branches(s)
  BY <1>5, SeqMonotonic DEF Branches
<1> QED BY <1>2, <1>3, <1>4, <1>5, <1>6

LEMMA TreeOfBranch ==
  ASSUME NEW r \in Nat, NEW b \in Branches(r)
  PROVE  Tree(b) \in Trees(r)
<1>1. b \in Seq(Commits(r)) /\ Len(b) \in 0..Len(b)
  BY BranchShape
<1> QED BY <1>1, TreeType DEF Tree

LEMMA TreeFields ==
  ASSUME NEW r \in Nat, NEW t \in Trees(r)
  PROVE  /\ t = [f \in Files |-> t[f]] /\ t.code = t["code"] /\ t.artifact = t["artifact"]
         /\ t.code \in Codes /\ t.artifact \in Artifacts(r)
BY DEF Trees, Files

(* git commit leaves the staged tree, and takes no commit away.            *)
LEMMA StagedIs ==
  ASSUME NEW r \in Nat, local \in Branches(r), NEW t \in Trees(r)
  PROVE  /\ Staged(t) \in Branches(r) /\ Tree(Staged(t)) = t
         /\ \A v : Occurs(v, local) => Occurs(v, Staged(t))
         /\ Len(Staged(t)) = Len(local) + 1 /\ \A i \in 1..Len(local) : Staged(t)[i] = local[i]
<1> DEFINE changed == {f \in Files : t[f] # Tree(local)[f]}
           commit == [f \in changed |-> t[f]]
<1>1. commit \in Commits(r)
  <2>1. changed \in SUBSET Files
    OBVIOUS
  <2> HIDE DEF changed
  <2> QED BY <2>1, CommitOf
<1>2. local \in Seq(Commits(r))
  BY BranchShape
<1>3. Staged(t) = Append(local, commit)
  BY DEF Staged
<1>4. \A f \in Files : Tree(Staged(t))[f] = t[f]
  <2> TAKE f \in Files
  <2>1. f \in DOMAIN commit <=> t[f] # Tree(local)[f]
    OBVIOUS
  <2>2. f \in DOMAIN commit => commit[f] = t[f]
    OBVIOUS
  <2> HIDE DEF commit, changed
  <2>3. Tree(Append(local, commit))[f] = IF f \in DOMAIN commit THEN commit[f] ELSE Tree(local)[f]
    BY <1>1, <1>2, TreeAppend
  <2> QED BY <1>3, <2>1, <2>2, <2>3
<1> HIDE DEF commit
<1>5. Staged(t) \in Branches(r) /\ \A v : Occurs(v, local) => Occurs(v, Staged(t))
  BY <1>1, <1>3, AppendIsBranch
<1>6. Tree(Staged(t)) = t
  <2>1. Tree(Staged(t)) \in Trees(r)
    BY <1>5, TreeOfBranch
  <2> QED BY <1>4, <2>1, TreeFields
<1>7. Len(Staged(t)) = Len(local) + 1 /\ \A i \in 1..Len(local) : Staged(t)[i] = local[i]
  BY <1>1, <1>2, <1>3
<1> QED BY <1>5, <1>6, <1>7

LEMMA TreeIsInBranch ==
  ASSUME NEW r \in Nat, NEW b \in Branches(r), NEW f \in Files
  PROVE  Occurs(Tree(b)[f], b)
<1>1. Len(b) \in 1..Len(b) /\ DOMAIN b = 1..Len(b)
  BY BranchShape
<1>2. PICK i \in 1..Len(b) : f \in DOMAIN b[i] /\ b[i][f] = TreeAt(b, Len(b))[f]
  BY <1>1, TreeOccurs
<1> QED BY <1>1, <1>2 DEF Occurs, Tree

(* git checks a branch out only over what is committed.                    *)
LEMMA CheckOutKeeps ==
  ASSUME NEW r \in Nat, local \in Branches(r), index \in Trees(r), work \in Trees(r), CodeStaged,
         NEW b \in Branches(r), \A v : Occurs(v, local) => Occurs(v, b),
         Clean(Moved(b)), CheckOut(b)
  PROVE  /\ local' = b /\ index' \in Trees(r) /\ work' \in Trees(r) /\ CodeStaged'
         /\ \A v : v \in {work.code, index.code} \/ Occurs(v, local)
                   => v \in {work'.code, index'.code} \/ Occurs(v, local')
         /\ index.artifact = Tree(local).artifact => index'.artifact = Tree(local').artifact
<1>1. Tree(b) \in Trees(r) /\ Tree(local) \in Trees(r)
  BY TreeOfBranch
<1>2. /\ local' = b
      /\ index' = [f \in Files |-> IF f \in Moved(b) THEN Tree(b)[f] ELSE index[f]]
      /\ work' = [f \in Files |-> IF f \in Moved(b) THEN Tree(b)[f] ELSE work[f]]
  BY DEF CheckOut
<1>3. "code" \in Files /\ "artifact" \in Files
  BY DEF Files
<1>4. index' \in Trees(r) /\ work' \in Trees(r)
  BY <1>1, <1>2 DEF Trees, Files
<1>5. \A f \in Files : f \in Moved(b) <=> Tree(b)[f] # Tree(local)[f]
  BY DEF Moved
<1>6. \A f \in Files : f \in Moved(b) => index[f] = Tree(local)[f] /\ work[f] = Tree(local)[f]
  BY DEF Clean, Moved
<1>7. /\ index'.code = IF "code" \in Moved(b) THEN Tree(b).code ELSE index.code
      /\ work'.code = IF "code" \in Moved(b) THEN Tree(b).code ELSE work.code
      /\ index'.artifact = IF "artifact" \in Moved(b) THEN Tree(b).artifact ELSE index.artifact
  BY <1>2, <1>3
<1>8. CodeStaged'
  BY <1>2, <1>3, <1>5, <1>7 DEF CodeStaged
<1>9. ASSUME NEW v, v \in {work.code, index.code} \/ Occurs(v, local)
      PROVE  v \in {work'.code, index'.code} \/ Occurs(v, local')
  <2>1. CASE Occurs(v, local)
    BY <1>2, <2>1
  <2>2. CASE v \in {work.code, index.code} /\ "code" \in Moved(b)
    <3>1. v = Tree(local)["code"]
      BY <1>3, <1>6, <2>2
    <3>2. Occurs(Tree(local)["code"], local)
      BY <1>3, TreeIsInBranch
    <3>3. Occurs(v, local)
      BY <3>1, <3>2
    <3>4. Occurs(v, b)
      BY <3>3
    <3> QED BY <1>2, <3>4
  <2>3. CASE v \in {work.code, index.code} /\ "code" \notin Moved(b)
    BY <1>7, <2>3
  <2> QED BY <1>9, <2>1, <2>2, <2>3
<1>10. index.artifact = Tree(local).artifact => index'.artifact = Tree(local').artifact
  BY <1>2, <1>3, <1>5, <1>7
<1> QED BY <1>2, <1>4, <1>8, <1>9, <1>10

-----------------------------------------------------------------------------
(* origin only grows, so that what was its tip stays in its history.       *)
Grows == Len(origin) <= Len(origin') /\ \A i \in 1..Len(origin) : origin'[i] = origin[i]

LEMMA OriginIsSeq ==
  ASSUME BenchmarksTypeOK
  PROVE  /\ origin \in Seq(Commits(Heard)) /\ Len(origin) \in Nat /\ Heard <= measures
         /\ tool.at # "idle" => Heard = measures - 1 /\ measures \in 1..measures
<1>1. Heard \in Nat /\ measures \in Nat /\ (origin = <<>> \/ origin \in Branches(Heard))
  BY DEF BenchmarksTypeOK
<1>2. origin \in Seq(Commits(Heard)) /\ Len(origin) \in Nat
  <2>1. CASE origin = <<>>
    BY <2>1
  <2>2. CASE origin \in Branches(Heard)
    BY <1>1, <2>2, BranchShape
  <2> QED BY <1>1, <2>1, <2>2
<1>3. Heard <= measures /\ (tool.at # "idle" => Heard = measures - 1 /\ measures \in 1..measures)
  BY <1>1 DEF Heard
<1> QED BY <1>2, <1>3

LEMMA RefGrows ==
  ASSUME BenchmarksTypeOK, BenchmarksTypeOK', Grows, measures' = measures, tool'.order = tool.order
  PROVE  Tips \subseteq Tips' /\ Measurements \subseteq Measurements'
<1>1. Len(Ref) \in Nat /\ Len(Ref') \in Nat /\ Len(Ref) <= Len(Ref') /\ \A i \in 1..Len(Ref) : Ref'[i] = Ref[i]
  <2>1. Len(origin) \in Nat
    BY OriginIsSeq
  <2>2. Len(origin') \in Nat
    <3>1. (origin = <<>> \/ origin \in Branches(Heard))' /\ Heard' \in Nat
      BY DEF BenchmarksTypeOK
    <3>2. CASE origin' = <<>>
      BY <3>2
    <3>3. CASE origin' \in Branches(Heard')
      <4> DEFINE h == Heard'
                 b == origin'
      <4>1. h \in Nat /\ b \in Branches(h)
        BY <3>1, <3>3 DEF Branches, Commits, Artifacts, Values
      <4> HIDE DEF h, b
      <4>2. Len(b) \in Nat
        BY <4>1, BranchShape
      <4> QED BY <4>2 DEF b
    <3> QED BY <3>1, <3>2, <3>3 DEF Branches, Commits, Artifacts, Values
  <2>3. CASE tool.order.onBranch
    BY <2>1, <2>2, <2>3 DEF Ref, Grows
  <2>4. CASE ~tool.order.onBranch
    BY <2>4 DEF Ref
  <2> QED BY <2>3, <2>4
<1>2. \A n \in 0..Len(Ref) : n \in 0..Len(Ref') /\ TreeAt(Ref', n) = TreeAt(Ref, n)
  <2> TAKE n \in 0..Len(Ref)
  <2>1. n \in Nat /\ n \in 0..Len(Ref') /\ \A i \in 1..n : Ref'[i] = Ref[i]
    BY <1>1
  <2> DEFINE was == Ref
             is == Ref'
  <2>2. n \in Nat /\ \A i \in 1..n : is[i] = was[i]
    BY <2>1
  <2> HIDE DEF was, is
  <2>3. TreeAt(is, n) = TreeAt(was, n)
    BY <2>2, TreeOfPrefix
  <2> QED BY <2>1, <2>3 DEF was, is
<1>3. \A n : TreeAt(Ref, n)' = TreeAt(Ref', n)
  BY DEF TreeAt, Files, Root, Max
<1>4. Tips \subseteq Tips'
  <2> SUFFICES ASSUME NEW n \in 0..Len(Ref) PROVE TreeAt(Ref, n).code \in Tips'
    BY DEF Tips
  <2> QED BY <1>2, <1>3 DEF Tips
<1>5. Measurements \subseteq Measurements'
  <2> SUFFICES ASSUME NEW n \in 0..Len(Ref)
               PROVE  <<"measured", measures, TreeAt(Ref, n).code>> \in Measurements'
    BY DEF Measurements
  <2> QED BY <1>2, <1>3 DEF Measurements
<1> QED BY <1>4, <1>5

LEMMA Unmoved ==
  ASSUME origin' = origin
  PROVE  Grows
BY DEF Grows

(* What a run measured is in no earlier run's artifacts.                   *)
LEMMA MeasuredIsNew ==
  ASSUME BenchmarksTypeOK, tool.at # "idle", NEW a \in Measurements
  PROVE  a \notin Artifacts(Heard)
<1>1. Heard = measures - 1 /\ measures \in Nat
  BY OriginIsSeq DEF BenchmarksTypeOK
<1>2. PICK c : a = <<"measured", measures, c>>
  BY DEF Measurements
<1>3. a # <<"main", 0>> /\ (\A n : a # <<"theirs", n>>) /\ \A q \in 1..(measures - 1) : \A d : a # <<"measured", q, d>>
  BY <1>1, <1>2
<1> QED BY <1>1, <1>3 DEF Artifacts

(* Where neither the files nor the branch change, nothing is lost.         *)
LEMMA Untouched ==
  ASSUME CodeStaged, NothingLost, UNCHANGED <<local, index, work, ours>>
  PROVE  CodeStaged' /\ NothingLost'
<1>1. NothingLost'
  BY DEF NothingLost
<1>2. CodeStaged'
  <2>1. Tree(local)' = Tree(local)
    BY DEF Tree, TreeAt
  <2> QED BY <2>1 DEF CodeStaged
<1> QED BY <1>1, <1>2

LEMMA RestingTool ==
  ASSUME NEW r \in Nat, NEW o \in {"none", "died", "unchanged", "local", "pushed"}
  PROVE  Idle(o) \in Tools(r) /\ Idle(o).at = "idle" /\ Idle(o).outcome = o
<1>1. (CHOOSE order \in Orders : TRUE) \in Orders
  BY OrdersAssumption
<1>2. Root.artifact \in Artifacts(r)
  BY DEF Root, Artifacts
<1> QED BY <1>1, <1>2 DEF Idle, Tools, ToolSteps

LEMMA RebaseStep ==
  ASSUME BenchmarksTypeOK, CodeStaged, NothingLost, tool.at # "idle", ours' = ours, measures' = measures,
         NEW from, NEW to \in ToolSteps \ {"idle"}, NEW fetched \in Branches(Heard),
         Rebase(from, to, fetched)
  PROVE  /\ local' \in Branches(measures) /\ index' \in Trees(measures) /\ work' \in Trees(measures)
         /\ CodeStaged' /\ NothingLost'
         /\ tool' = Idle("died") \/ tool' = [tool EXCEPT !.at = to]
         /\ tool' = [tool EXCEPT !.at = to] =>
              /\ index.artifact = Tree(local).artifact => index'.artifact = Tree(local').artifact
              /\ Tree(local).artifact \notin Artifacts(Heard) => Tree(local').artifact = Tree(local).artifact
<1> DEFINE result == Replayed(local, fetched)
<1>1. /\ measures \in Nat /\ Heard \in Nat /\ Heard <= measures
      /\ local \in Branches(measures) /\ index \in Trees(measures) /\ work \in Trees(measures)
  BY OriginIsSeq DEF BenchmarksTypeOK
<1>2. fetched \in Branches(measures)
  BY <1>1, MoreRuns
<1>3. \A b : Clean(Files) => Clean(Moved(b))
  BY DEF Clean, Moved
<1>4. ASSUME NEW b \in Branches(measures), \A v : Occurs(v, local) => Occurs(v, b), Clean(Files), CheckOut(b)
      PROVE  /\ local' = b /\ index' \in Trees(measures) /\ work' \in Trees(measures)
             /\ CodeStaged' /\ NothingLost'
             /\ index.artifact = Tree(local).artifact => index'.artifact = Tree(local').artifact
  <2>1. /\ local' = b /\ index' \in Trees(measures) /\ work' \in Trees(measures) /\ CodeStaged'
        /\ \A v : v \in {work.code, index.code} \/ Occurs(v, local)
                  => v \in {work'.code, index'.code} \/ Occurs(v, local')
        /\ index.artifact = Tree(local).artifact => index'.artifact = Tree(local').artifact
    BY <1>1, <1>3, <1>4, CheckOutKeeps
  <2>2. NothingLost'
    BY <2>1 DEF NothingLost, Occurs
  <2> QED BY <2>1, <2>2
<1>5. CASE Clean(Files) /\ ~result.conflict /\ Continues(from, to) /\ CheckOut(result.branch)
  <2>1. /\ result.branch \in Branches(measures)
        /\ \A v : Occurs(v, local) => Occurs(v, result.branch)
        /\ \A f \in Files : Tree(local)[f] # TreeAt(local, Shared(local, fetched))[f]
                              => Tree(result.branch)[f] = Tree(local)[f]
    BY <1>1, <1>2, <1>5, RebaseKeeps
  <2>2. /\ local' = result.branch /\ index' \in Trees(measures) /\ work' \in Trees(measures)
        /\ CodeStaged' /\ NothingLost'
        /\ index.artifact = Tree(local).artifact => index'.artifact = Tree(local').artifact
    <3> HIDE DEF result
    <3> QED BY <1>4, <1>5, <2>1
  <2>3. ASSUME Tree(local).artifact \notin Artifacts(Heard)
        PROVE  Tree(local').artifact = Tree(local).artifact
    <3> DEFINE n == Shared(local, fetched)
    <3>1. n \in 1..Len(local) /\ n <= Len(fetched) /\ Len(local) \in Nat
      BY <1>1, <1>2, SharedIsPositive
    <3>2. fetched \in Seq(Commits(Heard)) /\ fetched \in Seq(Commits(measures)) /\ local \in Seq(Commits(measures))
          /\ Len(fetched) \in Nat
      BY <1>1, <1>2, BranchShape
    <3>3. \A i \in 1..n : local[i] = fetched[i]
      BY <1>1, <3>2, SharedIs
    <3>4. TreeAt(local, n) = TreeAt(fetched, n)
      <4>1. n \in Nat
        BY <3>1
      <4> HIDE DEF n
      <4> QED BY <3>3, <4>1, TreeOfPrefix
    <3>5. TreeAt(fetched, n) \in Trees(Heard)
      <4>1. n \in 0..Len(fetched)
        BY <3>1, <3>2
      <4> HIDE DEF n
      <4> QED BY <1>1, <3>2, <4>1, TreeType
    <3>6. TreeAt(local, n)["artifact"] \in Artifacts(Heard)
      <4> HIDE DEF n
      <4> QED BY <1>1, <3>4, <3>5, TreeFields
    <3>7. "artifact" \in Files
      BY DEF Files
    <3> HIDE DEF result
    <3> QED BY <2>1, <2>2, <2>3, <3>6, <3>7
  <2> QED BY <1>5, <2>1, <2>2, <2>3 DEF Continues
<1>6. CASE Clean(Files) /\ Dies(from) /\ CheckOut(Aborted(result.branch))
  <2>1. CheckOut(local) /\ tool' = Idle("died")
    BY <1>6 DEF Aborted, Dies, Ends
  <2>2. local' \in Branches(measures) /\ index' \in Trees(measures) /\ work' \in Trees(measures)
        /\ CodeStaged' /\ NothingLost'
    BY <1>1, <1>4, <1>6, <2>1
  <2>3. tool' # [tool EXCEPT !.at = to]
    <3>1. tool \in Tools(measures)
      BY DEF BenchmarksTypeOK
    <3>2. [tool EXCEPT !.at = to].at = to /\ Idle("died").at = "idle"
      BY <3>1 DEF Tools, Idle
    <3> QED BY <2>1, <3>2
  <2> QED BY <2>1, <2>2, <2>3
<1>7. CASE ~Clean(Files) /\ Dies(from) /\ UNCHANGED <<local, index, work>>
  <2>1. tool' = Idle("died") /\ CodeStaged' /\ NothingLost'
    BY <1>7, Untouched DEF Dies, Ends
  <2>2. tool' # [tool EXCEPT !.at = to]
    <3>1. tool \in Tools(measures)
      BY DEF BenchmarksTypeOK
    <3>2. [tool EXCEPT !.at = to].at = to /\ Idle("died").at = "idle"
      BY <3>1 DEF Tools, Idle
    <3> QED BY <2>1, <3>2
  <2> QED BY <1>1, <1>7, <2>1, <2>2
<1> QED BY <1>5, <1>6, <1>7 DEF Rebase

(* A run that ends leaves nothing to be kept of it.                        *)
LEMMA RunEnds ==
  ASSUME WInv, NEW o \in {"died", "unchanged", "local", "pushed"}, tool' = Idle(o),
         measures' = measures, edits' \in Nat,
         origin' = <<>> \/ origin' \in Branches(measures),
         tracked' = <<>> \/ tracked' \in Branches(measures),
         local' \in Branches(measures), index' \in Trees(measures), work' \in Trees(measures),
         remote' \subseteq Lines(measures), clone' \in Trees(measures), CodeStaged', NothingLost'
  PROVE  WInv'
<1>1. measures \in Nat
  BY DEF WInv, BenchmarksTypeOK
<1>2. tool' \in Tools(measures) /\ tool'.at = "idle"
  BY <1>1, RestingTool
<1>3. Heard' = measures
  BY <1>2 DEF Heard
<1>4. Branches(Heard)' = Branches(measures) /\ Branches(measures)' = Branches(measures)
      /\ Trees(measures)' = Trees(measures) /\ Tools(measures)' = Tools(measures)
      /\ Lines(measures)' = Lines(measures)
  BY <1>3 DEF Branches, Commits, Artifacts, Values, Trees, Tools, Lines
<1>5. BenchmarksTypeOK'
  BY <1>1, <1>2, <1>3, <1>4 DEF BenchmarksTypeOK
<1>6. OnlyLine' /\ OwnArtifact'
  BY <1>2 DEF OnlyLine, OwnArtifact, Committed
<1> QED BY <1>5, <1>6 DEF WInv

(* A run that goes on: the types.                                          *)
LEMMA RunGoesOn ==
  ASSUME WInv, tool' \in Tools(measures), tool'.at = "idle" <=> tool.at = "idle",
         measures' = measures, edits' \in Nat,
         origin' = <<>> \/ origin' \in Branches(Heard),
         tracked' = <<>> \/ tracked' \in Branches(Heard),
         local' \in Branches(measures), index' \in Trees(measures), work' \in Trees(measures),
         remote' \subseteq Lines(measures), clone' \in Trees(measures)
  PROVE  BenchmarksTypeOK'
<1>1. measures \in Nat /\ Heard \in Nat
  BY DEF WInv, BenchmarksTypeOK
<1>2. Heard' = Heard
  BY DEF Heard
<1>3. Branches(Heard)' = Branches(Heard) /\ Branches(measures)' = Branches(measures)
      /\ Trees(measures)' = Trees(measures) /\ Tools(measures)' = Tools(measures)
      /\ Lines(measures)' = Lines(measures)
  BY <1>2 DEF Branches, Commits, Artifacts, Values, Trees, Tools, Lines
<1> QED BY <1>1, <1>2, <1>3 DEF BenchmarksTypeOK

LEMMA InvTypes ==
  ASSUME WInv
  PROVE  /\ measures \in Nat /\ edits \in Nat /\ Heard \in Nat /\ Heard <= measures
         /\ origin = <<>> \/ origin \in Branches(measures)
         /\ tracked = <<>> \/ tracked \in Branches(measures)
         /\ local \in Branches(measures) /\ index \in Trees(measures) /\ work \in Trees(measures)
         /\ tool \in Tools(measures) /\ remote \subseteq Lines(measures) /\ clone \in Trees(measures)
         /\ CodeStaged /\ NothingLost
<1>1. BenchmarksTypeOK /\ CodeStaged /\ NothingLost
  BY DEF WInv
<1>2. Heard <= measures /\ measures \in Nat /\ Heard \in Nat
  BY <1>1, OriginIsSeq DEF BenchmarksTypeOK
<1>3. Branches(Heard) \subseteq Branches(measures)
  BY <1>2, MoreRuns
<1> QED BY <1>1, <1>2, <1>3 DEF BenchmarksTypeOK

(* A run that dies without touching the repository.                        *)
LEMMA RunDies ==
  ASSUME WInv, NEW from, Dies(from), UNCHANGED <<repository, measures, edits, ours>>,
         remote' \subseteq Lines(measures), clone' \in Trees(measures)
  PROVE  WInv'
<1>1. tool' = Idle("died")
  BY DEF Dies, Ends
<1>2. UNCHANGED <<origin, tracked, local, index, work, measures, edits, ours>>
  BY DEF repository
<1>3. CodeStaged' /\ NothingLost'
  BY <1>2, InvTypes, Untouched
<1> QED BY <1>1, <1>2, <1>3, InvTypes, RunEnds

LEMMA PreflightKeeps ==
  ASSUME WInv, PreflightGit
  PROVE  WInv'
<1> DEFINE r == measures + 1
<1>1. PICK order \in Orders : tool' = [tool EXCEPT !.at = "sync", !.order = order, !.outcome = "none"]
  BY DEF PreflightGit
<1>2. measures' = r /\ UNCHANGED <<repository, remote, clone, edits, ours>> /\ tool.at = "idle"
  BY DEF PreflightGit
<1>3. measures \in Nat /\ r \in Nat /\ measures <= r /\ Heard = measures /\ Heard' = measures
  <2>1. tool \in Tools(measures) /\ measures \in Nat
    BY InvTypes
  <2>2. tool'.at = "sync"
    BY <1>1, <2>1 DEF Tools
  <2> QED BY <1>2, <2>1, <2>2 DEF Heard
<1>4. /\ origin = <<>> \/ origin \in Branches(measures)
      /\ tracked = <<>> \/ tracked \in Branches(measures)
      /\ local \in Branches(r) /\ index \in Trees(r) /\ work \in Trees(r)
      /\ remote \subseteq Lines(r) /\ clone \in Trees(r) /\ tool \in Tools(r) /\ edits \in Nat
  <2> HIDE DEF r
  <2> QED BY <1>3, InvTypes, MoreRuns
<1>5. tool' \in Tools(r) /\ tool'.at = "sync"
  <2> HIDE DEF r
  <2> QED BY <1>1, <1>4 DEF Tools, ToolSteps
<1>6. Branches(Heard)' = Branches(measures) /\ Branches(measures)' = Branches(r)
      /\ Trees(measures)' = Trees(r) /\ Tools(measures)' = Tools(r) /\ Lines(measures)' = Lines(r)
  <2> HIDE DEF r
  <2> QED BY <1>2, <1>3 DEF Branches, Commits, Artifacts, Values, Trees, Tools, Lines
<1>7. BenchmarksTypeOK'
  <2>1. UNCHANGED <<origin, tracked, local, index, work, remote, clone, edits>>
    BY <1>2 DEF repository
  <2> HIDE DEF r
  <2> QED BY <1>2, <1>3, <1>4, <1>5, <1>6, <2>1 DEF BenchmarksTypeOK
<1>8. CodeStaged' /\ NothingLost'
  BY <1>2, InvTypes, Untouched DEF repository
<1>9. OnlyLine' /\ OwnArtifact'
  BY <1>5 DEF OnlyLine, OwnArtifact, Committed
<1> QED BY <1>7, <1>8, <1>9 DEF WInv

LEMMA SyncKeeps ==
  ASSUME WInv, SyncWithRemote
  PROVE  WInv'
<1> DEFINE next == [tool EXCEPT !.at = "box"]
<1>0. /\ UNCHANGED <<origin, remote, clone, measures, edits, ours>>
      /\ remote \subseteq Lines(measures) /\ clone \in Trees(measures) /\ edits \in Nat
  BY InvTypes DEF SyncWithRemote
<1>1. tool \in Tools(measures) /\ next \in Tools(measures) /\ next.at = "box"
  BY InvTypes DEF Tools, ToolSteps
<1>2. tool.at = "sync"
  BY DEF SyncWithRemote, Continues, Dies, Ends, Rebase
<1>3. ASSUME tool' = next, origin' = origin, tracked' \in {tracked, origin},
             local' \in Branches(measures), index' \in Trees(measures), work' \in Trees(measures),
             CodeStaged', NothingLost'
      PROVE  WInv'
  <2>1. BenchmarksTypeOK
    BY DEF WInv
  <2>2. /\ origin' = <<>> \/ origin' \in Branches(Heard)
        /\ tracked' = <<>> \/ tracked' \in Branches(Heard)
    BY <1>3, <2>1 DEF BenchmarksTypeOK
  <2>3. BenchmarksTypeOK'
    <3> HIDE DEF next
    <3> QED BY <1>0, <1>1, <1>2, <1>3, <2>2, RunGoesOn
  <2>4. OnlyLine' /\ OwnArtifact'
    BY <1>1, <1>3 DEF OnlyLine, OwnArtifact, Committed
  <2> QED BY <1>3, <2>3, <2>4 DEF WInv
<1>4. ASSUME tool' = Idle("died"), origin' = origin, tracked' \in {tracked, origin},
             local' \in Branches(measures), index' \in Trees(measures), work' \in Trees(measures),
             CodeStaged', NothingLost'
      PROVE  WInv'
  BY <1>0, <1>4, InvTypes, RunEnds
<1>5. CASE UNCHANGED <<local, index, work>>
  <2>1. CodeStaged' /\ NothingLost'
    BY <1>0, <1>5, InvTypes, Untouched
  <2>2. tool' = next \/ tool' = Idle("died")
    BY DEF SyncWithRemote, Continues, Dies, Ends, Rebase
  <2>3. tracked' \in {tracked, origin}
    BY DEF SyncWithRemote, repository
  <2> HIDE DEF next
  <2> QED BY <1>0, <1>3, <1>4, <1>5, <2>1, <2>2, <2>3, InvTypes
<1>6. CASE /\ origin # <<>> /\ tracked' = origin /\ Continues("sync", "box") /\ CheckOut(origin)
           /\ Beyond(local, origin) = 0 /\ Clean(Moved(origin))
  <2>1. measures \in Nat /\ origin \in Branches(measures) /\ local \in Branches(measures)
        /\ index \in Trees(measures) /\ work \in Trees(measures)
    BY <1>6, InvTypes
  <2>2. \A v : Occurs(v, local) => Occurs(v, origin)
    <3>1. /\ local \in Seq(Commits(measures)) /\ origin \in Seq(Commits(measures))
          /\ DOMAIN local = 1..Len(local) /\ DOMAIN origin = 1..Len(origin)
          /\ Len(local) \in Nat /\ Len(origin) \in Nat
      BY <2>1, BranchShape
    <3>2. Len(local) <= Len(origin) /\ \A i \in 1..Len(local) : local[i] = origin[i]
      BY <1>6, <2>1, <3>1, NothingBeyond
    <3> QED BY <3>1, <3>2 DEF Occurs
  <2>3. /\ local' = origin /\ index' \in Trees(measures) /\ work' \in Trees(measures) /\ CodeStaged'
        /\ \A v : v \in {work.code, index.code} \/ Occurs(v, local)
                  => v \in {work'.code, index'.code} \/ Occurs(v, local')
    BY <1>6, <2>1, <2>2, InvTypes, CheckOutKeeps
  <2>4. NothingLost'
    BY <1>0, <2>3, InvTypes DEF NothingLost, Occurs
  <2>5. tool' = next
    BY <1>6 DEF Continues
  <2> HIDE DEF next
  <2> QED BY <1>0, <1>3, <1>6, <2>1, <2>3, <2>4, <2>5
<1>7. CASE origin # <<>> /\ tracked' = origin /\ Rebase("sync", "box", origin)
  <2>1. origin \in Branches(Heard) /\ BenchmarksTypeOK
    BY <1>7 DEF WInv, BenchmarksTypeOK
  <2>2. "box" \in ToolSteps \ {"idle"}
    BY DEF ToolSteps
  <2>3. /\ local' \in Branches(measures) /\ index' \in Trees(measures) /\ work' \in Trees(measures)
        /\ CodeStaged' /\ NothingLost'
        /\ tool' = Idle("died") \/ tool' = [tool EXCEPT !.at = "box"]
    BY <1>0, <1>2, <1>7, <2>1, <2>2, InvTypes, RebaseStep
  <2> QED BY <1>0, <1>3, <1>4, <1>7, <2>3
<1> QED BY <1>5, <1>6, <1>7 DEF SyncWithRemote, repository

LEMMA GenerateKeeps ==
  ASSUME WInv, GenerateOnCT
  PROVE  WInv'
<1>0. UNCHANGED <<repository, clone, measures, edits, ours>> /\ clone \in Trees(measures) /\ tool.at = "box"
  BY InvTypes DEF GenerateOnCT, Dies, Ends
<1>1. CASE Dies("box") /\ UNCHANGED remote
  BY <1>0, <1>1, InvTypes, RunDies
<1>2. CASE tool' = [tool EXCEPT !.at = "wait", !.alone = (remote = {})]
           /\ remote' = remote \cup {[run |-> measures, at |-> "fetch", ref |-> tool.order.onBranch, code |-> Root.code]}
  <2> DEFINE line == [run |-> measures, at |-> "fetch", ref |-> tool.order.onBranch, code |-> Root.code]
  <2>1. tool \in Tools(measures) /\ measures \in 1..measures
    BY <1>0, InvTypes, OriginIsSeq DEF WInv
  <2>2. tool' \in Tools(measures) /\ tool'.at = "wait" /\ tool'.alone = (remote = {}) /\ tool'.order = tool.order
    BY <1>2, <2>1 DEF Tools, ToolSteps
  <2>3. line \in Lines(measures)
    <3>1. tool.order \in Orders /\ tool.order.onBranch \in BOOLEAN
      BY <2>1, OrdersAssumption DEF Tools
    <3>2. Root.code \in Codes
      BY DEF Root, Codes
    <3> QED BY <2>1, <3>1, <3>2 DEF Lines
  <2>4. remote' \subseteq Lines(measures)
    BY <1>2, <2>3, InvTypes
  <2>5. UNCHANGED <<origin, tracked, local, index, work, clone, measures, edits, ours>>
    BY <1>0 DEF repository
  <2>6. BenchmarksTypeOK'
    <3>1. BenchmarksTypeOK
      BY DEF WInv
    <3> QED BY <1>0, <2>2, <2>4, <2>5, <3>1, InvTypes, RunGoesOn DEF BenchmarksTypeOK
  <2>7. CodeStaged' /\ NothingLost'
    BY <2>5, InvTypes, Untouched
  <2>8. OnlyLine'
    <3> SUFFICES ASSUME tool'.alone PROVE OnlyLine'
      BY DEF OnlyLine
    <3>1. remote' = {line}
      BY <1>2, <2>2
    <3>2. line.run = measures' /\ line.ref = tool'.order.onBranch /\ line.at = "fetch"
      BY <2>2, <2>5
    <3> HIDE DEF line
    <3> QED BY <3>1, <3>2 DEF OnlyLine
  <2>9. OwnArtifact'
    BY <2>2 DEF OwnArtifact, Committed
  <2> QED BY <2>6, <2>7, <2>8, <2>9 DEF WInv
<1> QED BY <1>1, <1>2 DEF GenerateOnCT

(* Steps of others while the tool waits or works.                          *)
LEMMA ToolStays ==
  ASSUME WInv, tool' = tool, measures' = measures, edits' \in Nat, Grows,
         origin' = <<>> \/ origin' \in Branches(Heard), tracked' = tracked,
         local' \in Branches(measures), index' \in Trees(measures), work' \in Trees(measures),
         remote' \subseteq Lines(measures), clone' \in Trees(measures), CodeStaged', NothingLost',
         work'.artifact = work.artifact,
         tool.at \in Committed => /\ index'.artifact = Tree(local').artifact
                                  /\ Tree(local').artifact = Tree(local).artifact,
         \/ remote' = remote /\ clone' = clone
         \/ remote' = {}
         \/ tool.at # "wait" \/ ~tool.alone
         \/ \E next : /\ remote' = {next} /\ next.run = measures /\ next.ref = tool.order.onBranch
                      /\ next.at # "fetch" => next.code \in Tips
                      /\ next.at = "print" => clone'.artifact = <<"measured", measures, next.code>>
  PROVE  WInv'
<1>1. BenchmarksTypeOK /\ OnlyLine /\ OwnArtifact
  BY DEF WInv
<1>2. tool \in Tools(measures)
  BY InvTypes
<1>3. tracked' = <<>> \/ tracked' \in Branches(Heard)
  BY <1>1 DEF BenchmarksTypeOK
<1>4. BenchmarksTypeOK'
  BY <1>2, <1>3, RunGoesOn
<1>5. Tips \subseteq Tips' /\ Measurements \subseteq Measurements'
  BY <1>1, <1>4, RefGrows
<1>6. OwnArtifact'
  <2>1. tool.alone /\ tool.at = "write" => tool'.markdown \in Measurements'
    BY <1>1, <1>5 DEF OwnArtifact
  <2>2. tool.alone /\ tool.at = "commit" => work'.artifact \in Measurements'
    BY <1>1, <1>5 DEF OwnArtifact
  <2>3. tool.alone /\ tool.at \in Committed => Tree(local').artifact \in Measurements'
    BY <1>1, <1>5 DEF OwnArtifact
  <2> QED BY <2>1, <2>2, <2>3 DEF OwnArtifact, Committed
<1>7. OnlyLine'
  <2> SUFFICES ASSUME tool.alone, tool.at = "wait" PROVE OnlyLine'
    BY DEF OnlyLine
  <2>1. CASE remote' = remote /\ clone' = clone
    <3>1. \A line \in remote :
             /\ line.run = measures /\ line.ref = tool.order.onBranch
             /\ line.at # "fetch" => line.code \in Tips'
             /\ line.at = "print" => clone.artifact = <<"measured", measures, line.code>>
      BY <1>1, <1>5 DEF OnlyLine
    <3>2. \A l, m \in remote : l = m
      BY <1>1 DEF OnlyLine
    <3> QED BY <2>1, <3>1, <3>2 DEF OnlyLine
  <2>2. CASE remote' = {}
    BY <2>2 DEF OnlyLine
  <2>3. ASSUME NEW next, remote' = {next}, next.run = measures, next.ref = tool.order.onBranch,
               next.at # "fetch" => next.code \in Tips,
               next.at = "print" => clone'.artifact = <<"measured", measures, next.code>>
        PROVE  OnlyLine'
    <3>1. next.at # "fetch" => next.code \in Tips'
      BY <1>5, <2>3
    <3> QED BY <2>3, <3>1 DEF OnlyLine
  <2> QED BY <2>1, <2>2, <2>3
<1> QED BY <1>4, <1>6, <1>7 DEF WInv

(* The container changes its own tree only; a lone line hands on what it   *)
(* measured itself.                                                        *)
LEMMA RemoteKeeps ==
  ASSUME WInv, RemoteLine
  PROVE  WInv'
<1>0. UNCHANGED <<origin, tracked, local, index, work, measures, edits, ours>> /\ Grows
  BY Unmoved DEF RemoteLine, repository
<1>1. CodeStaged' /\ NothingLost'
  BY <1>0, InvTypes, Untouched
<1>2. PICK line \in remote : FetchAndReset(line) \/ Generate(line) \/ PrintArtifact(line)
  BY DEF RemoteLine
<1>3. /\ line \in Lines(measures) /\ tool \in Tools(measures) /\ clone \in Trees(measures)
      /\ remote \subseteq Lines(measures) /\ measures \in Nat /\ edits \in Nat
  BY InvTypes
<1>4. BenchmarksTypeOK /\ OnlyLine /\ OwnArtifact
  BY DEF WInv
<1>5. tool.alone /\ tool.at = "wait" =>
        /\ remote = {line} /\ line.run = measures /\ line.ref = tool.order.onBranch
        /\ line.at # "fetch" => line.code \in Tips
        /\ line.at = "print" => clone.artifact = <<"measured", measures, line.code>>
  BY <1>4 DEF OnlyLine
<1>6. tool.at \in Committed => index'.artifact = Tree(local').artifact /\ Tree(local').artifact = Tree(local).artifact
  BY <1>0, <1>4 DEF OwnArtifact
<1>7. /\ origin' = <<>> \/ origin' \in Branches(Heard)
      /\ local' \in Branches(measures) /\ index' \in Trees(measures) /\ work' \in Trees(measures)
  BY <1>0, <1>4 DEF BenchmarksTypeOK
<1>8. ASSUME tool' = tool, remote' \subseteq Lines(measures), clone' \in Trees(measures),
             \/ remote' = {}
             \/ tool.at # "wait" \/ ~tool.alone
             \/ \E next : /\ remote' = {next} /\ next.run = measures /\ next.ref = tool.order.onBranch
                          /\ next.at # "fetch" => next.code \in Tips
                          /\ next.at = "print" => clone'.artifact = <<"measured", measures, next.code>>
      PROVE  WInv'
  BY <1>0, <1>1, <1>3, <1>6, <1>7, <1>8, ToolStays
<1>9. CASE LineStops(line) /\ clone' = clone
  <2>1. remote' = remote \ {line} /\ remote' \subseteq Lines(measures)
    BY <1>3, <1>9 DEF LineStops
  <2>2. CASE ~Waiting(line)
    <3>1. tool' = tool
      BY <1>9, <2>2 DEF LineStops
    <3>2. tool.at = "wait" /\ tool.alone => remote' = {}
      BY <1>5, <2>1
    <3> QED BY <1>3, <1>8, <1>9, <2>1, <3>1, <3>2
  <2>3. CASE Waiting(line)
    <3>1. Dies("wait")
      BY <1>9, <2>3 DEF LineStops, Extracted
    <3> QED BY <1>0, <1>3, <1>9, <2>1, <3>1, RunDies DEF repository
  <2> QED BY <2>2, <2>3
<1>10. CASE FetchAndReset(line)
  <2> DEFINE ref == IF line.ref THEN origin ELSE <<Root>>
             next == [line EXCEPT !.at = "measure", !.code = Tree(ref).code]
  <2>1. (LineStops(line) /\ clone' = clone) \/ (ref # <<>> /\ clone' = Tree(ref) /\ Becomes(line, next) /\ tool' = tool)
    BY <1>10 DEF FetchAndReset
  <2>2. CASE ref # <<>> /\ clone' = Tree(ref) /\ Becomes(line, next) /\ tool' = tool
    <3>1. ref \in Branches(measures)
      BY <1>3, <2>2, InvTypes, RootIsThere
    <3>2. Tree(ref) \in Trees(measures) /\ Tree(ref).code \in Codes
      <4> HIDE DEF ref
      <4> QED BY <1>3, <3>1, TreeOfBranch, TreeFields
    <3>3. /\ next \in Lines(measures) /\ next.run = line.run /\ next.ref = line.ref
          /\ next.at = "measure" /\ next.code = Tree(ref).code
      <4> HIDE DEF ref
      <4> QED BY <1>3, <3>2 DEF Lines
    <3>4. remote' = (remote \ {line}) \cup {next}
      BY <2>2 DEF Becomes
    <3>5. remote' \subseteq Lines(measures) /\ clone' \in Trees(measures)
      <4> HIDE DEF next, ref
      <4> QED BY <1>3, <2>2, <3>2, <3>3, <3>4
    <3>6. line.ref = tool.order.onBranch => next.code \in Tips
      <4>1. line.ref = tool.order.onBranch => ref = Ref
        BY DEF Ref
      <4>2. Len(ref) \in 0..Len(ref)
        <5> HIDE DEF ref
        <5> QED BY <1>3, <3>1, BranchShape
      <4> HIDE DEF ref, next
      <4> QED BY <3>3, <4>1, <4>2 DEF Tips, Tree
    <3> HIDE DEF next, ref
    <3>7. tool.at # "wait" \/ ~tool.alone
          \/ \E n : /\ remote' = {n} /\ n.run = measures /\ n.ref = tool.order.onBranch
                    /\ n.at # "fetch" => n.code \in Tips
                    /\ n.at = "print" => clone'.artifact = <<"measured", measures, n.code>>
      BY <1>5, <3>3, <3>4, <3>6
    <3> QED BY <1>8, <2>2, <3>5, <3>7
  <2> QED BY <1>9, <2>1, <2>2
<1>11. CASE Generate(line)
  <2> DEFINE next == [line EXCEPT !.at = "print"]
  <2>1. (LineStops(line) /\ clone' = clone)
        \/ (/\ clone' = [clone EXCEPT !.artifact = <<"measured", line.run, line.code>>]
            /\ Becomes(line, next) /\ tool' = tool)
    BY <1>11 DEF Generate
  <2>2. CASE /\ clone' = [clone EXCEPT !.artifact = <<"measured", line.run, line.code>>]
             /\ Becomes(line, next) /\ tool' = tool
    <3>1. /\ next \in Lines(measures) /\ next.run = line.run /\ next.ref = line.ref
          /\ next.at = "print" /\ next.code = line.code /\ line.at = "measure"
          /\ line.run \in 1..measures /\ line.code \in Codes
      BY <1>3, <1>11 DEF Lines, Generate
    <3>2. <<"measured", line.run, line.code>> \in Artifacts(measures)
      BY <3>1 DEF Artifacts
    <3>3. clone' \in Trees(measures) /\ clone'.artifact = <<"measured", line.run, line.code>>
      BY <1>3, <2>2, <3>2 DEF Trees
    <3>4. remote' = (remote \ {line}) \cup {next}
      BY <2>2 DEF Becomes
    <3> HIDE DEF next
    <3>5. remote' \subseteq Lines(measures)
      BY <1>3, <3>1, <3>4
    <3>6. tool.at # "wait" \/ ~tool.alone
          \/ \E n : /\ remote' = {n} /\ n.run = measures /\ n.ref = tool.order.onBranch
                    /\ n.at # "fetch" => n.code \in Tips
                    /\ n.at = "print" => clone'.artifact = <<"measured", measures, n.code>>
      BY <1>5, <3>1, <3>3, <3>4
    <3> QED BY <1>8, <2>2, <3>3, <3>5, <3>6
  <2> QED BY <1>9, <2>1, <2>2
<1>12. CASE PrintArtifact(line)
  <2>1. remote' = remote \ {line} /\ remote' \subseteq Lines(measures) /\ clone' = clone /\ line.at = "print"
    BY <1>3, <1>12 DEF PrintArtifact
  <2>2. CASE ~Waiting(line)
    <3>1. tool' = tool
      BY <1>12, <2>2 DEF PrintArtifact
    <3>2. tool.at = "wait" /\ tool.alone => remote' = {}
      BY <1>5, <2>1
    <3> QED BY <1>3, <1>8, <2>1, <3>1, <3>2
  <2>3. CASE Waiting(line)
    <3>1. tool' = [tool EXCEPT !.at = "write", !.markdown = clone.artifact] /\ tool.at = "wait"
      BY <1>12, <2>3 DEF PrintArtifact, Waiting
    <3>2. clone.artifact \in Artifacts(measures)
      BY <1>3 DEF Trees
    <3>3. /\ tool' \in Tools(measures) /\ tool'.at = "write" /\ tool'.markdown = clone.artifact
          /\ tool'.alone = tool.alone /\ tool'.order = tool.order
      BY <1>3, <3>1, <3>2 DEF Tools, ToolSteps
    <3>4. BenchmarksTypeOK'
      <4>1. tracked' = <<>> \/ tracked' \in Branches(Heard)
        BY <1>0, <1>4 DEF BenchmarksTypeOK
      <4> QED BY <1>0, <1>3, <1>7, <2>1, <3>1, <3>3, <4>1, RunGoesOn
    <3>5. tool.alone => clone.artifact \in Measurements
      BY <1>5, <2>1, <3>1 DEF Tips, Measurements
    <3>6. tool.alone => clone.artifact \in Measurements'
      BY <1>0, <1>4, <3>3, <3>4, <3>5, RefGrows
    <3>7. OwnArtifact'
      <4>1. tool'.alone => tool'.markdown \in Measurements'
        BY <2>1, <3>3, <3>6 DEF Measurements
      <4> QED BY <3>3, <4>1 DEF OwnArtifact, Committed
    <3>8. OnlyLine'
      BY <3>3 DEF OnlyLine
    <3> QED BY <1>1, <3>4, <3>7, <3>8 DEF WInv
  <2> QED BY <2>2, <2>3
<1> QED BY <1>2, <1>10, <1>11, <1>12

LEMMA WriteKeeps ==
  ASSUME WInv, WriteOut
  PROVE  WInv'
<1>0. UNCHANGED <<origin, tracked, local, index, remote, clone, measures, edits, ours>> /\ Grows
  BY Unmoved DEF WriteOut
<1>1. /\ tool \in Tools(measures) /\ work \in Trees(measures) /\ tool.at = "write" /\ BenchmarksTypeOK
      /\ OwnArtifact /\ tool' = [tool EXCEPT !.at = "commit"] /\ work' = [work EXCEPT !.artifact = tool.markdown]
  BY InvTypes DEF WInv, WriteOut, Continues
<1>2. /\ tool' \in Tools(measures) /\ tool'.at = "commit" /\ tool'.alone = tool.alone
      /\ tool'.order = tool.order /\ tool.markdown \in Artifacts(measures)
  BY <1>1 DEF Tools, ToolSteps
<1>3. work' \in Trees(measures) /\ work'.code = work.code /\ work'.artifact = tool.markdown
  BY <1>1, <1>2 DEF Trees
<1>4. BenchmarksTypeOK'
  <2>1. /\ origin' = <<>> \/ origin' \in Branches(Heard)
        /\ tracked' = <<>> \/ tracked' \in Branches(Heard)
    BY <1>0, <1>1 DEF BenchmarksTypeOK
  <2> QED BY <1>0, <1>1, <1>2, <1>3, <2>1, InvTypes, RunGoesOn
<1>5. CodeStaged'
  <2>1. Tree(local)' = Tree(local)
    BY <1>0 DEF Tree, TreeAt
  <2> QED BY <1>0, <1>3, <2>1, InvTypes DEF CodeStaged
<1>6. NothingLost'
  BY <1>0, <1>3, InvTypes DEF NothingLost
<1>7. Measurements \subseteq Measurements'
  BY <1>0, <1>1, <1>2, <1>4, RefGrows
<1>8. OwnArtifact'
  BY <1>1, <1>2, <1>3, <1>7 DEF OwnArtifact, Committed
<1>9. OnlyLine'
  BY <1>2 DEF OnlyLine
<1> QED BY <1>4, <1>5, <1>6, <1>8, <1>9 DEF WInv

(* The commit leaves the artifact that was written, in the tree it staged. *)
LEMMA CommitKeeps ==
  ASSUME WInv, Commit
  PROVE  WInv'
<1> DEFINE added == [index EXCEPT !.artifact = work.artifact]
<1>0. /\ UNCHANGED <<origin, tracked, work, remote, clone, measures, edits>> /\ Grows
      /\ index' = added /\ tool.at = "commit"
  BY Unmoved DEF Commit, Ends, Dies, Continues
<1>1. /\ tool \in Tools(measures) /\ work \in Trees(measures) /\ index \in Trees(measures) /\ BenchmarksTypeOK
      /\ local \in Branches(measures) /\ OwnArtifact /\ measures \in Nat /\ CodeStaged /\ NothingLost
  BY InvTypes DEF WInv
<1>2. added \in Trees(measures) /\ added.code = index.code /\ added.artifact = work.artifact
  BY <1>1 DEF Trees
<1>3. /\ Staged(added) \in Branches(measures) /\ Tree(Staged(added)) = added
      /\ \A v : Occurs(v, local) => Occurs(v, Staged(added))
  <2> HIDE DEF added
  <2> QED BY <1>1, <1>2, StagedIs
<1> HIDE DEF added
<1>4. /\ origin' = <<>> \/ origin' \in Branches(measures)
      /\ tracked' = <<>> \/ tracked' \in Branches(measures)
      /\ remote' \subseteq Lines(measures) /\ clone' \in Trees(measures) /\ edits' \in Nat
  BY <1>0, InvTypes
<1>5. CASE local' = local /\ ours' = ours /\ (tool' = Idle("unchanged") \/ tool' = Idle("died"))
  <2>1. NothingLost'
    BY <1>0, <1>1, <1>2, <1>5 DEF NothingLost
  <2>2. CodeStaged'
    <3>1. Tree(local)' = Tree(local)
      BY <1>5 DEF Tree, TreeAt
    <3> QED BY <1>0, <1>1, <1>2, <3>1 DEF CodeStaged
  <2> QED BY <1>0, <1>1, <1>2, <1>4, <1>5, <2>1, <2>2, RunEnds
<1>6. CASE /\ local' = Staged(added) /\ ours' = ours \cup {added.artifact}
           /\ added.artifact # Tree(local).artifact
           /\ IF tool.order.push THEN Continues("commit", "push") ELSE Ends("commit", "local")
  <2>1. NothingLost'
    <3>1. Occurs(added.artifact, Staged(added))
      <4>1. "artifact" \in Files
        BY DEF Files
      <4>2. Occurs(Tree(Staged(added))["artifact"], Staged(added))
        BY <1>1, <1>3, <4>1, TreeIsInBranch
      <4> QED BY <1>1, <1>2, <1>3, <4>2, TreeFields
    <3>2. \A v \in ours : v \in {work.code, index.code} \/ Occurs(v, local)
      BY <1>1 DEF NothingLost, Occurs
    <3>3. \A v \in ours' : v \in {work'.code, index'.code} \/ Occurs(v, local')
      BY <1>0, <1>2, <1>3, <1>6, <3>1, <3>2
    <3> QED BY <3>3 DEF NothingLost, Occurs
  <2>2. Tree(local') = added
    BY <1>3, <1>6
  <2>3. CodeStaged'
    BY <1>0, <2>2 DEF CodeStaged
  <2>4. CASE Ends("commit", "local")
    <3>1. tool' = Idle("local")
      BY <2>4 DEF Ends
    <3> QED BY <1>0, <1>1, <1>2, <1>3, <1>4, <1>6, <2>1, <2>3, <3>1, RunEnds
  <2>5. CASE Continues("commit", "push")
    <3>1. /\ tool' \in Tools(measures) /\ tool'.at = "push" /\ tool'.alone = tool.alone
          /\ tool'.order = tool.order
      BY <1>1, <2>5 DEF Continues, Tools, ToolSteps
    <3>2. BenchmarksTypeOK'
      <4>1. /\ origin' = <<>> \/ origin' \in Branches(Heard)
            /\ tracked' = <<>> \/ tracked' \in Branches(Heard)
        BY <1>0, <1>1 DEF BenchmarksTypeOK
      <4> QED BY <1>0, <1>1, <1>2, <1>3, <1>4, <1>6, <3>1, <4>1, RunGoesOn
    <3>3. Measurements \subseteq Measurements'
      BY <1>0, <1>1, <3>1, <3>2, RefGrows
    <3>4. tool.alone => work.artifact \in Measurements'
      BY <1>0, <1>1, <3>3 DEF OwnArtifact
    <3>5. OwnArtifact'
      BY <1>0, <1>2, <2>2, <3>1, <3>4 DEF OwnArtifact, Committed
    <3>6. OnlyLine'
      BY <3>1 DEF OnlyLine
    <3> QED BY <2>1, <2>3, <3>2, <3>5, <3>6 DEF WInv
  <2> QED BY <1>6, <2>4, <2>5
<1> QED BY <1>5, <1>6 DEF Commit, Dies, Ends, added

LEMMA PushKeeps ==
  ASSUME WInv, FirstPush \/ RetryPush
  PROVE  WInv'
<1>0. UNCHANGED <<local, index, work, remote, clone, measures, edits, ours>>
  BY DEF FirstPush, RetryPush, Push
<1>1. CodeStaged' /\ NothingLost'
  BY <1>0, InvTypes, Untouched
<1>2. tool.at \in {"push", "retry"}
  BY DEF FirstPush, RetryPush, Push, Ends, Continues, Dies
<1>3. CASE tool' = Idle("pushed") /\ origin' = local /\ tracked' = local
  BY <1>0, <1>1, <1>3, InvTypes, RunEnds
<1>4. CASE tool' = Idle("died") /\ UNCHANGED <<origin, tracked>>
  BY <1>0, <1>1, <1>4, InvTypes, RunEnds
<1>5. CASE tool.at = "push" /\ tool' = [tool EXCEPT !.at = "resync"] /\ UNCHANGED <<origin, tracked>>
  <2>1. tool \in Tools(measures) /\ BenchmarksTypeOK /\ OwnArtifact /\ Grows
    BY <1>5, InvTypes, Unmoved DEF WInv
  <2>2. /\ tool' \in Tools(measures) /\ tool'.at = "resync" /\ tool'.alone = tool.alone
        /\ tool'.order = tool.order
    BY <1>5, <2>1 DEF Tools, ToolSteps
  <2>3. BenchmarksTypeOK'
    <3>1. /\ origin' = <<>> \/ origin' \in Branches(Heard)
          /\ tracked' = <<>> \/ tracked' \in Branches(Heard)
      BY <1>5, <2>1 DEF BenchmarksTypeOK
    <3> QED BY <1>0, <1>5, <2>2, <3>1, InvTypes, RunGoesOn
  <2>4. Measurements \subseteq Measurements'
    BY <1>0, <2>1, <2>2, <2>3, RefGrows
  <2>5. OwnArtifact'
    <3>1. Tree(local)' = Tree(local)
      BY <1>0 DEF Tree, TreeAt
    <3> QED BY <1>0, <1>5, <2>1, <2>2, <2>4, <3>1 DEF OwnArtifact, Committed
  <2>6. OnlyLine'
    BY <2>2 DEF OnlyLine
  <2> QED BY <1>1, <2>3, <2>5, <2>6 DEF WInv
<1> QED BY <1>3, <1>4, <1>5 DEF FirstPush, RetryPush, Push, Ends, Continues, Dies

(* The replay keeps the artifact of this run: origin had nothing of it.    *)
LEMMA ResyncKeeps ==
  ASSUME WInv, Resync
  PROVE  WInv'
<1>0. UNCHANGED <<origin, remote, clone, measures, edits, ours>> /\ tool.at = "resync" /\ Grows
  BY Unmoved DEF Resync
<1>1. PICK fetched \in {origin, tracked} :
        /\ tracked' = fetched
        /\ IF Beyond(fetched, local) = 0 THEN Dies("resync") /\ UNCHANGED <<local, index, work>>
           ELSE Rebase("resync", "retry", fetched)
  BY DEF Resync
<1>2. BenchmarksTypeOK /\ OwnArtifact /\ CodeStaged /\ NothingLost /\ tool \in Tools(measures)
  BY InvTypes DEF WInv
<1>3. fetched = <<>> \/ fetched \in Branches(Heard)
  BY <1>1, <1>2 DEF BenchmarksTypeOK
<1>4. fetched = <<>> \/ fetched \in Branches(measures)
  BY <1>1, InvTypes
<1>5. CASE Dies("resync") /\ UNCHANGED <<local, index, work>>
  <2>1. CodeStaged' /\ NothingLost'
    BY <1>0, <1>5, InvTypes, Untouched
  <2>2. tool' = Idle("died")
    BY <1>5 DEF Dies, Ends
  <2> QED BY <1>0, <1>1, <1>4, <1>5, <2>1, <2>2, InvTypes, RunEnds
<1>6. CASE Beyond(fetched, local) # 0 /\ Rebase("resync", "retry", fetched)
  <2>1. fetched \in Branches(Heard)
    <3>1. fetched # <<>>
      <4>1. CASE fetched = <<>>
        <5>1. local \in Branches(measures) /\ measures \in Nat
          BY InvTypes
        <5>2. local \in Seq(Commits(measures)) /\ <<>> \in Seq(Commits(measures))
          BY <5>1, BranchShape
        <5>3. Shared(<<>>, local) \in 0..Len(<<>>)
          BY <5>1, <5>2, SharedIs
        <5>4. Len(<<>>) = 0
          OBVIOUS
        <5>5. Beyond(<<>>, local) = 0
          BY <5>3, <5>4 DEF Beyond
        <5> QED BY <1>6, <4>1, <5>5
      <4> QED BY <4>1
    <3> QED BY <1>3, <3>1
  <2>2. /\ local' \in Branches(measures) /\ index' \in Trees(measures) /\ work' \in Trees(measures)
        /\ CodeStaged' /\ NothingLost'
        /\ tool' = Idle("died") \/ tool' = [tool EXCEPT !.at = "retry"]
        /\ tool' = [tool EXCEPT !.at = "retry"] =>
             /\ index.artifact = Tree(local).artifact => index'.artifact = Tree(local').artifact
             /\ Tree(local).artifact \notin Artifacts(Heard) => Tree(local').artifact = Tree(local).artifact
    <3>1. "retry" \in ToolSteps \ {"idle"}
      BY DEF ToolSteps
    <3> QED BY <1>0, <1>2, <1>6, <2>1, <3>1, RebaseStep
  <2>3. CASE tool' = Idle("died")
    BY <1>0, <1>1, <1>4, <2>2, <2>3, InvTypes, RunEnds
  <2>4. CASE tool' = [tool EXCEPT !.at = "retry"]
    <3>1. /\ tool' \in Tools(measures) /\ tool'.at = "retry" /\ tool'.alone = tool.alone
          /\ tool'.order = tool.order
      BY <1>2, <2>4 DEF Tools, ToolSteps
    <3>2. BenchmarksTypeOK'
      <4>1. /\ origin' = <<>> \/ origin' \in Branches(Heard)
            /\ tracked' = <<>> \/ tracked' \in Branches(Heard)
        BY <1>0, <1>1, <1>2, <1>3 DEF BenchmarksTypeOK
      <4> QED BY <1>0, <2>2, <3>1, <4>1, InvTypes, RunGoesOn
    <3>3. Measurements \subseteq Measurements'
      BY <1>0, <1>2, <3>1, <3>2, RefGrows
    <3>4. tool.alone => Tree(local).artifact \in Measurements /\ Tree(local').artifact = Tree(local).artifact
      <4>1. tool.alone => Tree(local).artifact \in Measurements
        BY <1>0, <1>2 DEF OwnArtifact, Committed
      <4>2. tool.alone => Tree(local).artifact \notin Artifacts(Heard)
        BY <1>0, <1>2, <4>1, MeasuredIsNew
      <4> QED BY <2>2, <2>4, <4>1, <4>2
    <3>5. index'.artifact = Tree(local').artifact
      BY <1>0, <1>2, <2>2, <2>4 DEF OwnArtifact, Committed
    <3>6. OwnArtifact'
      BY <3>1, <3>3, <3>4, <3>5 DEF OwnArtifact, Committed
    <3>7. OnlyLine'
      BY <3>1 DEF OnlyLine
    <3> QED BY <2>2, <3>2, <3>6, <3>7 DEF WInv
  <2> QED BY <2>2, <2>3, <2>4
<1> QED BY <1>1, <1>5, <1>6

(* People change the code only, and what they stage they commit.           *)
LEMMA PeopleKeep ==
  ASSUME WInv, People
  PROVE  WInv'
<1>1. /\ measures \in Nat /\ edits \in Nat /\ Heard \in Nat /\ BenchmarksTypeOK /\ OwnArtifact
      /\ local \in Branches(measures) /\ index \in Trees(measures) /\ work \in Trees(measures)
      /\ remote \subseteq Lines(measures) /\ clone \in Trees(measures) /\ CodeStaged /\ NothingLost
  BY InvTypes DEF WInv
<1>2. origin = <<>> \/ origin \in Branches(Heard)
  BY <1>1 DEF BenchmarksTypeOK
<1>3. tool.at \in Committed => index.artifact = Tree(local).artifact
  BY <1>1 DEF OwnArtifact
<1>4. "code" \in Files /\ "artifact" \in Files
  BY DEF Files
<1>5. \A v \in ours : v \in {work.code, index.code} \/ Occurs(v, local)
  BY <1>1 DEF NothingLost, Occurs
<1>6. CASE EditCode
  <2>1. /\ UNCHANGED <<origin, tracked, local, tool, remote, clone, measures>> /\ edits' = edits + 1
        /\ work' = [work EXCEPT !.code = Typed] /\ index' \in {index, [index EXCEPT !.code = Typed]}
        /\ ours' = ours \cup {Typed} /\ Clean({"code"}) /\ Grows
    BY <1>6, Unmoved DEF EditCode, Changed
  <2>2. Typed \in Codes
    BY <1>1 DEF Typed, Codes
  <2>3. /\ work' \in Trees(measures) /\ work'.code = Typed /\ work'.artifact = work.artifact
        /\ index' \in Trees(measures) /\ index'.artifact = index.artifact
        /\ index'.code = index.code \/ index'.code = Typed
    BY <1>1, <2>1, <2>2 DEF Trees
  <2>4. index.code = Tree(local).code /\ work.code = Tree(local).code
    BY <2>1 DEF Clean
  <2>5. Occurs(Tree(local).code, local)
    <3>1. Occurs(Tree(local)["code"], local)
      BY <1>1, <1>4, TreeIsInBranch
    <3>2. Tree(local)["code"] = Tree(local).code
      BY <1>1, TreeOfBranch, TreeFields
    <3> QED BY <3>1, <3>2
  <2>6. NothingLost'
    <3>1. \A v \in ours' : v = work'.code \/ Occurs(v, local)
      BY <1>5, <2>1, <2>3, <2>4, <2>5
    <3> QED BY <2>1, <3>1 DEF NothingLost, Occurs
  <2>7. Tree(local') = Tree(local)
    BY <2>1
  <2>8. CodeStaged'
    BY <2>3, <2>4, <2>7 DEF CodeStaged
  <2> QED BY <1>1, <1>2, <1>3, <2>1, <2>3, <2>6, <2>7, <2>8, ToolStays
<1>7. CASE CommitCode
  <2> DEFINE staged == [index EXCEPT !.code = work.code]
  <2>1. /\ UNCHANGED <<origin, tracked, work, tool, remote, clone, measures, edits, ours>> /\ Grows
        /\ index' = staged /\ local' = Staged(staged)
    BY <1>7, Unmoved DEF CommitCode
  <2>2. staged \in Trees(measures) /\ staged.code = work.code /\ staged.artifact = index.artifact
    BY <1>1 DEF Trees
  <2>3. /\ Staged(staged) \in Branches(measures) /\ Tree(Staged(staged)) = staged
        /\ \A v : Occurs(v, local) => Occurs(v, Staged(staged))
    <3> HIDE DEF staged
    <3> QED BY <1>1, <2>2, StagedIs
  <2> HIDE DEF staged
  <2>4. \A v \in ours : v = work.code \/ Occurs(v, local)
    <3>1. Occurs(Tree(local).code, local)
      <4>1. Occurs(Tree(local)["code"], local)
        BY <1>1, <1>4, TreeIsInBranch
      <4>2. Tree(local)["code"] = Tree(local).code
        BY <1>1, TreeOfBranch, TreeFields
      <4> QED BY <4>1, <4>2
    <3> QED BY <1>1, <1>5, <3>1 DEF CodeStaged
  <2>5. NothingLost'
    <3>1. \A v \in ours' : v = work'.code \/ Occurs(v, local')
      BY <2>1, <2>3, <2>4
    <3> QED BY <3>1 DEF NothingLost, Occurs
  <2>6. Tree(local') = staged
    BY <2>1, <2>3
  <2>7. CodeStaged'
    BY <2>1, <2>6 DEF CodeStaged
  <2>8. tool.at \in Committed => /\ index'.artifact = Tree(local').artifact
                                 /\ Tree(local').artifact = Tree(local).artifact
    BY <1>3, <2>1, <2>2, <2>6
  <2> QED BY <1>1, <1>2, <2>1, <2>2, <2>3, <2>5, <2>7, <2>8, ToolStays
<1>8. CASE CollaboratorPushes
  <2>1. /\ UNCHANGED <<tracked, local, index, work, tool, remote, clone, measures, ours>> /\ edits' = edits + 1
    BY <1>8 DEF CollaboratorPushes, Changed
  <2>2. PICK f \in Files :
          origin' = Append(IF origin = <<>> THEN <<Root>> ELSE origin, [g \in {f} |-> <<"theirs", edits>>])
    BY <1>8 DEF CollaboratorPushes
  <2> DEFINE commit == [g \in {f} |-> <<"theirs", edits>>]
             theirs == IF origin = <<>> THEN <<Root>> ELSE origin
  <2>3. commit \in Commits(Heard)
    <3>1. <<"theirs", edits>> \in Codes /\ <<"theirs", edits>> \in Artifacts(Heard)
      BY <1>1 DEF Codes, Artifacts
    <3>2. [code |-> <<"theirs", edits>>, artifact |-> <<"theirs", edits>>] \in Trees(Heard)
      BY <3>1 DEF Trees
    <3> DEFINE t == [code |-> <<"theirs", edits>>, artifact |-> <<"theirs", edits>>]
    <3>3. {f} \in SUBSET Files /\ \A g \in {f} : t[g] = <<"theirs", edits>>
      BY DEF Files
    <3> HIDE DEF t
    <3>4. t \in Trees(Heard)
      BY <3>2 DEF t
    <3>5. [g \in {f} |-> t[g]] \in Commits(Heard)
      BY <1>1, <3>3, <3>4, CommitOf
    <3>6. commit = [g \in {f} |-> t[g]]
      BY <3>3
    <3> QED BY <3>5, <3>6
  <2>4. theirs \in Branches(Heard) /\ theirs \in Seq(Commits(Heard)) /\ Len(theirs) \in Nat
    <3>1. theirs \in Branches(Heard)
      BY <1>1, <1>2, RootIsThere
    <3> HIDE DEF theirs
    <3> QED BY <1>1, <3>1, BranchShape
  <2> HIDE DEF commit
  <2>5. origin' \in Branches(Heard)
    <3> HIDE DEF theirs
    <3>1. origin' = Append(theirs, commit)
      BY <2>2 DEF theirs, commit
    <3> QED BY <1>1, <2>3, <2>4, <3>1, AppendIsBranch
  <2>6. Grows
    <3>1. origin' = Append(theirs, commit)
      BY <2>2 DEF commit
    <3>2. CASE origin = <<>>
      <4>1. Len(origin) = 0
        BY <3>2
      <4>2. Len(origin') = Len(theirs) + 1
        <5> HIDE DEF theirs
        <5> QED BY <2>3, <2>4, <3>1
      <4> HIDE DEF theirs
      <4> QED BY <2>4, <4>1, <4>2 DEF Grows
    <3>3. CASE origin # <<>>
      <4>1. theirs = origin
        BY <3>3
      <4> HIDE DEF theirs
      <4>2. origin \in Seq(Commits(Heard)) /\ origin' = Append(origin, commit)
        BY <2>4, <3>1, <4>1
      <4> QED BY <2>3, <4>2 DEF Grows
    <3> QED BY <3>2, <3>3
  <2>7. CodeStaged' /\ NothingLost'
    BY <1>1, <2>1, Untouched
  <2>8. Tree(local') = Tree(local)
    BY <2>1
  <2> QED BY <1>1, <1>3, <2>1, <2>5, <2>6, <2>7, <2>8, ToolStays
<1> QED BY <1>6, <1>7, <1>8 DEF People

(* A container that goes takes its lines with it.                          *)
LEMMA ProvisionKeeps ==
  ASSUME WInv, Provision
  PROVE  WInv'
<1>1. /\ UNCHANGED <<origin, tracked, local, index, work, tool, measures, edits, ours>> /\ Grows
      /\ (remote' = {} /\ clone' = Root) \/ (remote' = remote /\ clone' = clone)
  BY Unmoved DEF Provision, repository
<1>2. CodeStaged' /\ NothingLost'
  BY <1>1, InvTypes, Untouched
<1>3. remote' \subseteq Lines(measures) /\ clone' \in Trees(measures) /\ edits \in Nat
  BY <1>1, InvTypes, RootIsThere
<1>4. BenchmarksTypeOK /\ OwnArtifact
  BY DEF WInv
<1>5. origin' = <<>> \/ origin' \in Branches(Heard)
  BY <1>1, <1>4 DEF BenchmarksTypeOK
<1>6. tool.at \in Committed => index'.artifact = Tree(local').artifact /\ Tree(local').artifact = Tree(local).artifact
  BY <1>1, <1>4 DEF OwnArtifact
<1> QED BY <1>1, <1>2, <1>3, <1>5, <1>6, InvTypes, ToolStays

LEMMA WorkstationInit == Init => WInv
<1> SUFFICES ASSUME Init PROVE WInv
  OBVIOUS
<1>0. 0 \in Nat /\ measures = 0 /\ edits = 0 /\ remote = {} /\ clone = Root /\ ours = {}
      /\ local = <<Root>> /\ index = Root /\ work = Root /\ tracked = origin /\ tool = Idle("none")
      /\ origin \in {<<>>, <<Root>>}
  BY DEF Init, InitBenchmarks
<1>1. tool \in Tools(measures) /\ tool.at = "idle" /\ Heard = 0
  BY <1>0, RestingTool DEF Heard
<1>2. BenchmarksTypeOK
  BY <1>0, <1>1, RootIsThere DEF BenchmarksTypeOK
<1>3. CodeStaged /\ NothingLost
  BY <1>0 DEF CodeStaged, NothingLost
<1>4. OnlyLine /\ OwnArtifact
  BY <1>1 DEF OnlyLine, OwnArtifact, Committed
<1> QED BY <1>2, <1>3, <1>4 DEF WInv

LEMMA WorkstationKeeps == WInv /\ [Next]_vars => WInv'
<1> SUFFICES ASSUME WInv, [Next]_vars PROVE WInv'
  OBVIOUS
<1>1. CASE TimeOut
  BY <1>1, InvTypes, RunDies DEF TimeOut
<1>2. CASE UNCHANGED vars
  <2>1. UNCHANGED <<origin, tracked, local, index, work, tool, remote, clone, measures, edits, ours>> /\ Grows
    BY <1>2, Unmoved DEF vars, benchmarkVars, repository
  <2>2. CodeStaged' /\ NothingLost'
    BY <2>1, InvTypes, Untouched
  <2>3. BenchmarksTypeOK /\ OwnArtifact
    BY DEF WInv
  <2>4. origin' = <<>> \/ origin' \in Branches(Heard)
    BY <2>1, <2>3 DEF BenchmarksTypeOK
  <2>5. tool.at \in Committed => index'.artifact = Tree(local').artifact /\ Tree(local').artifact = Tree(local).artifact
    BY <2>1, <2>3 DEF OwnArtifact
  <2> QED BY <2>1, <2>2, <2>4, <2>5, InvTypes, ToolStays
<1> QED BY <1>1, <1>2, PreflightKeeps, SyncKeeps, GenerateKeeps, RemoteKeeps, WriteKeeps, CommitKeeps,
           PushKeeps, ResyncKeeps, PeopleKeep, ProvisionKeeps DEF Next, Tool

(* Nothing the operator typed or the tool committed is ever lost, for all  *)
(* branches, command lines and numbers of runs and changes, whichever of   *)
(* sync_with_remote, commit_and_push and _push_with_resync fails where.    *)
THEOREM WorkIsKept == Spec => []NothingLost
<1>1. WInv => NothingLost
  BY DEF WInv
<1> QED BY <1>1, WorkstationInit, WorkstationKeeps, PTL DEF Spec

-----------------------------------------------------------------------------
(* What a step does to origin, and says it did.                            *)
LEMMA PrefixOf ==
  ASSUME NEW S, NEW s \in Seq(S), NEW t \in Seq(S), Len(s) <= Len(t), \A i \in 1..Len(s) : t[i] = s[i]
  PROVE  IsPrefix(s, t)
<1> DEFINE n == Len(s)
<1>1. n \in Nat /\ SubSeq(s, 1, n) = s
  BY SubSeqFull
<1>2. \A i \in 1..n : t[i] \in S
  BY ElementOfSeq
<1> HIDE DEF n
<1>3. /\ SubSeq(t, 1, n) \in Seq(S) /\ Len(SubSeq(t, 1, n)) = (IF 1 <= n THEN n - 1 + 1 ELSE 0)
      /\ \A i \in 1..(n - 1 + 1) : SubSeq(t, 1, n)[i] = t[1 + i - 1]
  BY <1>1, <1>2, SubSeqProperties
<1> DEFINE u == SubSeq(t, 1, n)
<1>4. u \in Seq(S) /\ Len(u) = n /\ \A i \in 1..n : u[i] = t[i]
  BY <1>1, <1>3
<1> HIDE DEF u
<1>5. Len(u) = Len(s) /\ \A i \in 1..Len(s) : u[i] = s[i]
  BY <1>4 DEF n
<1>6. u = s
  BY <1>4, <1>5, SeqEqual
<1> QED BY <1>1, <1>6 DEF IsPrefix, u, n

LEMMA OriginKept ==
  ASSUME WInv, origin' = origin
  PROVE  IsPrefix(origin, origin')
<1>1. origin \in Seq(Commits(Heard))
  BY OriginIsSeq DEF WInv
<1> DEFINE b == origin
<1>2. b \in Seq(Commits(Heard))
  BY <1>1
<1> HIDE DEF b
<1>3. IsPrefix(b, b)
  BY <1>2, PrefixOf
<1> QED BY <1>3 DEF b

LEMMA OriginGains ==
  ASSUME WInv, CollaboratorPushes
  PROVE  IsPrefix(origin, origin')
<1>1. origin \in Seq(Commits(Heard)) /\ Heard \in Nat /\ edits \in Nat
  BY OriginIsSeq DEF WInv, BenchmarksTypeOK
<1>2. PICK f \in Files :
        origin' = Append(IF origin = <<>> THEN <<Root>> ELSE origin, [g \in {f} |-> <<"theirs", edits>>])
  BY DEF CollaboratorPushes
<1> DEFINE commit == [g \in {f} |-> <<"theirs", edits>>]
           theirs == IF origin = <<>> THEN <<Root>> ELSE origin
           S == Commits(Heard) \cup {Root, commit}
           was == origin
           is == Append(theirs, commit)
<1>3. was \in Seq(S) /\ theirs \in Seq(S) /\ commit \in S
  <2>1. Commits(Heard) \subseteq S /\ <<Root>> \in Seq(S) /\ commit \in S
    OBVIOUS
  <2> HIDE DEF S
  <2>2. was \in Seq(S)
    BY <1>1, <2>1, SeqMonotonic
  <2> QED BY <2>1, <2>2
<1>4. was = <<>> \/ was = theirs
  OBVIOUS
<1>5. origin' = is
  BY <1>2
<1> HIDE DEF S, commit, theirs
<1>6. /\ is \in Seq(S) /\ Len(is) = Len(theirs) + 1 /\ Len(theirs) \in Nat
      /\ \A i \in 1..Len(theirs) : is[i] = theirs[i]
  BY <1>3
<1> HIDE DEF is, was
<1>7. Len(was) <= Len(is) /\ \A i \in 1..Len(was) : is[i] = was[i]
  <2>1. CASE was = <<>>
    <3>1. Len(was) = 0
      BY <2>1
    <3> QED BY <1>6, <3>1
  <2>2. CASE was = theirs
    BY <1>6, <2>2
  <2> QED BY <1>4, <2>1, <2>2
<1>8. IsPrefix(was, is)
  BY <1>3, <1>6, <1>7, PrefixOf
<1> QED BY <1>5, <1>8 DEF was

LEMMA OriginOnlyGains == WInv /\ [Next]_vars => IsPrefix(origin, origin')
<1> SUFFICES ASSUME WInv, [Next]_vars PROVE IsPrefix(origin, origin')
  OBVIOUS
<1>1. CASE CollaboratorPushes
  BY <1>1, OriginGains
<1>2. CASE FirstPush \/ RetryPush
  <2>1. (IsPrefix(origin, local) /\ origin' = local) \/ origin' = origin
    BY <1>2 DEF FirstPush, RetryPush, Push
  <2>2. CASE IsPrefix(origin, local) /\ origin' = local
    BY <2>2
  <2> QED BY <2>1, <2>2, OriginKept
<1>3. CASE PreflightGit \/ SyncWithRemote \/ GenerateOnCT \/ TimeOut \/ WriteOut \/ Commit \/ Resync
  <2>1. origin' = origin
    BY <1>3 DEF PreflightGit, SyncWithRemote, GenerateOnCT, TimeOut, WriteOut, Commit, Resync, repository
  <2> QED BY <2>1, OriginKept
<1>4. CASE RemoteLine \/ EditCode \/ CommitCode \/ Provision \/ UNCHANGED vars
  <2>1. origin' = origin
    BY <1>4 DEF RemoteLine, EditCode, CommitCode, Provision, repository, vars, benchmarkVars
  <2> QED BY <2>1, OriginKept
<1> QED BY <1>1, <1>2, <1>3, <1>4 DEF Next, Tool, People

LEMMA MeasuredIs == \A a : Measured(a) <=> a \in Measurements
BY DEF Measured, Measurements

(* Only a push says "pushed", only a commit "local".                       *)
LEMMA WhoSays ==
  ASSUME WInv, [Next]_vars, tool'.outcome # tool.outcome, tool'.outcome \in {"pushed", "local"}
  PROVE  FirstPush \/ RetryPush \/ Commit
<1>1. tool \in Tools(measures)
  BY InvTypes
<1>2. /\ \A from, to : Continues(from, to) => tool'.outcome = tool.outcome
      /\ \A from : Dies(from) => tool'.outcome = "died"
  BY <1>1 DEF Continues, Dies, Ends, Idle, Tools
<1>3. CASE PreflightGit
  <2>1. tool'.outcome = "none"
    BY <1>1, <1>3 DEF PreflightGit, Tools
  <2> QED BY <2>1
<1>4. CASE SyncWithRemote \/ Resync
  <2>1. (\E from, to : Continues(from, to)) \/ \E from : Dies(from)
    BY <1>4 DEF SyncWithRemote, Resync, Rebase
  <2> QED BY <1>2, <2>1
<1>5. CASE GenerateOnCT
  <2>1. tool'.outcome = tool.outcome \/ Dies("box")
    BY <1>1, <1>5 DEF GenerateOnCT, Tools
  <2> QED BY <1>2, <2>1
<1>6. CASE TimeOut \/ WriteOut
  BY <1>2, <1>6 DEF TimeOut, WriteOut
<1>7. CASE RemoteLine
  <2>1. PICK line \in remote : FetchAndReset(line) \/ Generate(line) \/ PrintArtifact(line)
    BY <1>7 DEF RemoteLine
  <2>2. CASE LineStops(line)
    <3>1. tool' = tool \/ Dies("wait")
      BY <2>2 DEF LineStops, Extracted
    <3> QED BY <1>2, <3>1
  <2>3. CASE tool' = tool \/ tool' = [tool EXCEPT !.at = "write", !.markdown = clone.artifact]
    <3>1. tool'.outcome = tool.outcome
      BY <1>1, <2>3 DEF Tools
    <3> QED BY <3>1
  <2> QED BY <2>1, <2>2, <2>3 DEF FetchAndReset, Generate, PrintArtifact
<1>8. CASE People \/ Provision \/ UNCHANGED vars
  <2>1. tool' = tool
    BY <1>8 DEF People, EditCode, CommitCode, CollaboratorPushes, Provision, vars, benchmarkVars
  <2> QED BY <2>1
<1> QED BY <1>3, <1>4, <1>5, <1>6, <1>7, <1>8 DEF Next, Tool

LEMMA PushedIsMeasured ==
  ASSUME WInv, FirstPush \/ RetryPush, tool.alone, tool'.outcome # tool.outcome
  PROVE  /\ tool'.outcome = "pushed" => Tree(origin').artifact \in Measurements
         /\ tool'.outcome # "local"
<1>1. tool \in Tools(measures) /\ OwnArtifact
  BY InvTypes DEF WInv
<1>2. tool.at \in Committed
  BY DEF FirstPush, RetryPush, Push, Ends, Continues, Dies, Committed
<1>3. Tree(local).artifact \in Measurements
  BY <1>1, <1>2 DEF OwnArtifact
<1>4. CASE Ends("push", "pushed") \/ Ends("retry", "pushed")
  <2>1. tool'.outcome = "pushed"
    BY <1>4 DEF Ends, Idle
  <2>2. origin' = local
    BY <1>1, <1>4 DEF FirstPush, RetryPush, Push, Ends, Continues, Dies, Idle, Tools
  <2> QED BY <1>3, <2>1, <2>2
<1>5. CASE Continues("push", "resync") \/ Dies("retry")
  <2>1. tool'.outcome = tool.outcome \/ tool'.outcome = "died"
    BY <1>1, <1>5 DEF Continues, Dies, Ends, Idle, Tools
  <2> QED BY <2>1
<1> QED BY <1>4, <1>5 DEF FirstPush, RetryPush, Push

LEMMA CommittedIsMeasured ==
  ASSUME WInv, Commit, tool.alone, tool'.outcome # tool.outcome
  PROVE  /\ tool'.outcome = "local" => Tree(local').artifact \in Measurements
         /\ tool'.outcome # "pushed"
<1> DEFINE added == [index EXCEPT !.artifact = work.artifact]
<1>1. /\ tool \in Tools(measures) /\ OwnArtifact /\ measures \in Nat
      /\ index \in Trees(measures) /\ work \in Trees(measures) /\ local \in Branches(measures)
  BY InvTypes DEF WInv
<1>2. tool.at = "commit"
  BY DEF Commit, Ends, Continues, Dies
<1>3. added \in Trees(measures) /\ added.artifact = work.artifact
  BY <1>1 DEF Trees
<1>4. Tree(Staged(added)) = added
  <2> HIDE DEF added
  <2> QED BY <1>1, <1>3, StagedIs
<1>5. added.artifact \in Measurements
  BY <1>1, <1>2, <1>3 DEF OwnArtifact
<1>6. /\ ~Ends("commit", "pushed")
      /\ (Ends("commit", "local") /\ local' = Staged(added)) \/ tool'.outcome \in {"unchanged", "died", tool.outcome}
  <2>1. Continues("commit", "push") => tool'.outcome = tool.outcome
    BY <1>1 DEF Continues, Tools
  <2>2. \A o : Ends("commit", o) => tool'.outcome = o
    BY DEF Ends, Idle
  <2> HIDE DEF added
  <2> QED BY <2>1, <2>2 DEF Commit, Dies, added
<1>7. Ends("commit", "local") => tool'.outcome = "local"
  BY DEF Ends, Idle
<1> HIDE DEF added
<1>8. CASE Ends("commit", "local") /\ local' = Staged(added)
  BY <1>4, <1>5, <1>7, <1>8
<1>9. CASE tool'.outcome \in {"unchanged", "died", tool.outcome}
  BY <1>9
<1> QED BY <1>6, <1>8, <1>9

(* origin only ever gains commits, and what a run says it pushed or        *)
(* committed it measured itself, for all command lines, branches and       *)
(* numbers of runs and changes (generate_on_ct, commit_and_push).          *)
THEOREM PushesAreOnTop == Spec => PushedOnTop
<1>1. WInv /\ [Next]_vars =>
        /\ IsPrefix(origin, origin')
        /\ tool.alone /\ tool'.outcome # tool.outcome =>
             /\ tool'.outcome = "pushed" => Measured(Tree(origin').artifact)
             /\ tool'.outcome = "local" => Measured(Tree(local').artifact)
  BY OriginOnlyGains, MeasuredIs, WhoSays, PushedIsMeasured, CommittedIsMeasured
<1> QED BY <1>1, WorkstationInit, WorkstationKeeps, PTL DEF Spec, PushedOnTop
================================================================================
