----------------------------- MODULE Provisioning -----------------------------
(***************************************************************************)
(* scripts/provision_runner.py, which builds the container the benchmarks  *)
(* run on, and the login of tools/ct_exec.py, which uses what it left      *)
(* behind: a key and a credentials file beside the scripts.  Every command *)
(* can fail, and a failure ends the program where it stands (sys.exit):    *)
(* nothing is undone.  A key, and the password made with it, is named by   *)
(* the number of the run that made it.                                     *)
(***************************************************************************)
EXTENDS Naturals

CONSTANTS Arguments,    \* the command lines: records of recreate, skipOracles, routable
          Addresses,    \* the addresses a container can be given
          MaxRuns       \* bound: how often the program is started

ASSUME ProvisioningAssumption == MaxRuns \in Nat

VARIABLES box,          \* the container
          files,        \* the key and the credentials file on the workstation
          step,         \* what the running program does next, or "idle"
          args,         \* its command line, of no matter when none runs
          runs          \* how often it was started

provisionVars == <<box, files, step, args, runs>>

None == 0
(* What provisioning leaves in a container, in the order it does.          *)
Wanted(a) == {"repo", "login", "mdns"} \cup (IF a.skipOracles THEN {} ELSE {"oracles"})
NoBox == [exists |-> FALSE, up |-> FALSE, address |-> None, policy |-> FALSE,
          missing |-> {}, password |-> None, key |-> None]
NewBox(address, a) == [NoBox EXCEPT !.exists = TRUE, !.up = TRUE, !.address = address, !.missing = Wanted(a)]

Unread == CHOOSE a \in Arguments : TRUE
InitProvisioning ==
  /\ box = NoBox
  /\ files = [key |-> None, address |-> None, password |-> None]
  /\ step = "idle" /\ runs = 0
  /\ args = Unread

(* The program goes on to its next step, or stops here.                    *)
Ahead(from, to) == step = from /\ step' = to /\ UNCHANGED runs
Goes(from, to) == Ahead(from, to) /\ UNCHANGED args
Exits(from) == Ahead(from, "idle") /\ args' = Unread
(* A command that can fail, before it changed anything that matters.       *)
Runs(from, to, done) ==
  /\ \/ Goes(from, to) /\ box' = done
     \/ Exits(from) /\ UNCHANGED box
  /\ UNCHANGED files

(* main up to the template, which changes nothing when it refuses.         *)
Connect ==
  /\ step = "idle" /\ runs < MaxRuns
  /\ runs' = runs + 1
  /\ args' \in Arguments
  /\ step' = "create"
  /\ UNCHANGED <<box, files>>

(* --recreate destroys first; only then is the command line looked at.     *)
CreateContainer ==
  /\ UNCHANGED files
  /\ \/ /\ box.exists /\ ~args.recreate
        /\ Exits("create") /\ UNCHANGED box
     \/ /\ box.exists /\ args.recreate          \* pct stop, or pct destroy, fails
        /\ Exits("create") /\ box' \in {box, [box EXCEPT !.up = FALSE]}
     \/ /\ box.exists => args.recreate
        /\ ~args.routable
        /\ Exits("create") /\ box' = NoBox
     \/ /\ box.exists => args.recreate
        /\ args.routable
        /\ \E address \in Addresses :
             LET new == NewBox(address, args) IN
             \/ Goes("create", "policy") /\ box' = new
             \/ Exits("create") /\ box' \in {NoBox, [new EXCEPT !.up = FALSE]}

(* Once the container has a network.                                       *)
SetInstallServicePolicy == Runs("policy", "repo", [box EXCEPT !.policy = TRUE])
Has(what) == [box EXCEPT !.missing = @ \ {what}]
InstallRepo == Runs("repo", IF args.skipOracles THEN "ssh" ELSE "oracles", Has("repo"))
InstallOracles == Runs("oracles", "ssh", Has("oracles"))

(* The key pair and the password of this run.                              *)
Minted == runs
(* Mutant: a key that is already beside the script is used again.          *)
KeptKey == IF files.key = None THEN runs ELSE files.key
GenerateKeypair == Minted

(* sshd and the user; then the password; then the key: three commands.     *)
SetupSsh ==
  LET served == Has("login")
      named == [served EXCEPT !.password = Minted]
  IN /\ UNCHANGED files
     /\ \/ Goes("ssh", "mdns") /\ box' = [named EXCEPT !.key = GenerateKeypair]
        \/ Exits("ssh") /\ box' \in {box, served, named}

SetupMdns == Runs("mdns", "clear", Has("mdns"))
ClearInstallServicePolicy == Runs("clear", "key", [box EXCEPT !.policy = FALSE])

(* Both files are truncated before they are written.                       *)
WritePrivateKey ==
  /\ UNCHANGED box
  /\ \/ Goes("key", "credentials") /\ files' = [files EXCEPT !.key = GenerateKeypair]
     \/ Exits("key") /\ files' \in {files, [files EXCEPT !.key = None]}
(* container_ip: no address when the container does not say.  The smoke    *)
(* test and the report that follow change nothing, whether they fail.      *)
WriteCredentials ==
  /\ UNCHANGED box
  /\ \/ /\ Exits("credentials")
        /\ \E address \in {None, box.address} :
             files' = [files EXCEPT !.address = address, !.password = Minted]
     \/ /\ Exits("credentials")
        /\ files' \in {files, [files EXCEPT !.address = None, !.password = None]}

(* tools/ct_exec.py: an address and a key on file; and it gets in when the *)
(* container at that address takes the key.                                *)
Resolves == files.address # None /\ files.key # None
LogsIn ==
  /\ Resolves
  /\ box.up /\ box.address = files.address
  /\ box.key = files.key

NextProvisioning ==
  \/ Connect \/ CreateContainer \/ SetInstallServicePolicy
  \/ InstallRepo \/ InstallOracles \/ SetupSsh \/ SetupMdns
  \/ ClearInstallServicePolicy \/ WritePrivateKey \/ WriteCredentials

SpecProvisioning == InitProvisioning /\ [][NextProvisioning]_provisionVars

(* Whatever failed and however often it was started again, a container     *)
(* that lets the tools in is one that was built to the end: everything     *)
(* asked for is in it, and its services start by themselves again.         *)
OnlyWholeBoxesAnswer == LogsIn => box.missing = {} /\ ~box.policy
================================================================================
