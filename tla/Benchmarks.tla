------------------------------ MODULE Benchmarks ------------------------------
(***************************************************************************)
(* tools/generate_benchmarks.py on the operator's workstation: it brings   *)
(* the branch in line with origin, has the container measure, writes the   *)
(* artifact, commits it and pushes.  Meanwhile the operator edits and      *)
(* commits, a collaborator pushes, the container is provisioned anew, and  *)
(* a remote command outlives the run that timed out waiting for it.        *)
(***************************************************************************)
EXTENDS Git, Provisioning

CONSTANTS Orders,       \* the command lines: records of onBranch (--ref is the branch) and push
          MaxMeasures,  \* bound: how often the tool is started
          MaxEdits      \* bound: changes by the operator and the collaborator
ASSUME OrdersAssumption ==
  Orders # {} /\ Orders \subseteq [onBranch : BOOLEAN, push : BOOLEAN]

VARIABLES origin,       \* the branch at origin; <<>> when origin has none
          tracked,      \* the workstation's origin/<branch>
          local,        \* the workstation's branch
          index,        \* its staged files
          work,         \* its working tree
          tool,         \* the running tool: what it does next, its command line, the
                        \* artifact, how it ended, whether its remote line ran alone
          remote,       \* the remote command lines alive in the container
          clone,        \* the source tree in the container
          measures,     \* how often the tool was started
          edits,        \* changes made by people
          ours          \* history: what the operator typed or the tool committed

repository == <<origin, tracked, local, index, work>>
benchmarkVars == <<repository, tool, remote, clone, measures, edits, ours>>

Idle(outcome) == [at |-> "idle", order |-> CHOOSE o \in Orders : TRUE, markdown |-> Root.artifact,
                  alone |-> TRUE, outcome |-> outcome]
InitBenchmarks ==
  /\ origin \in {<<>>, <<Root>>} /\ tracked = origin
  /\ local = <<Root>> /\ index = Root /\ work = Root
  /\ tool = Idle("none")
  /\ remote = {} /\ clone = Root
  /\ measures = 0 /\ edits = 0 /\ ours = {}

Continues(from, to) == tool.at = from /\ tool' = [tool EXCEPT !.at = to]
Ends(from, outcome) == tool.at = from /\ tool' = Idle(outcome)
Dies(from) == Ends(from, "died")

(* preflight_git: what it refuses changes nothing.                         *)
PreflightGit ==
  /\ tool.at = "idle" /\ measures < MaxMeasures
  /\ \E order \in Orders : tool' = [tool EXCEPT !.at = "sync", !.order = order, !.outcome = "none"]
  /\ measures' = measures + 1
  /\ UNCHANGED <<repository, remote, clone, edits, ours>>

(* A checked out branch can be replaced when nothing uncommitted is in the *)
(* way: all of it for a rebase, the files that move for a fast-forward.    *)
Clean(files_) == \A f \in files_ : index[f] = Tree(local)[f] /\ work[f] = index[f]
Moved(branch) == {f \in Files : Tree(branch)[f] # Tree(local)[f]}
CheckOut(branch) ==
  /\ local' = branch
  /\ index' = [f \in Files |-> IF f \in Moved(branch) THEN Tree(branch)[f] ELSE index[f]]
  /\ work' = [f \in Files |-> IF f \in Moved(branch) THEN Tree(branch)[f] ELSE work[f]]

(* Mutant: the rebase is left where it stopped.                            *)
LeftHalfway(branch) == branch
(* What a failed rebase leaves, which is aborted at once.                  *)
Aborted(branch) == local
(* git rebase origin/<branch>, aborted when it is refused or conflicts;    *)
(* fetched is what origin/<branch> then is.                                *)
Rebase(from, to, fetched) ==
  LET replayed == Replayed(local, fetched) IN
  \/ /\ Clean(Files) /\ ~replayed.conflict
     /\ Continues(from, to) /\ CheckOut(replayed.branch)
  \/ /\ Clean(Files) /\ replayed.conflict
     /\ Dies(from) /\ CheckOut(Aborted(replayed.branch))
  \/ /\ ~Clean(Files)
     /\ Dies(from) /\ UNCHANGED <<local, index, work>>

SyncWithRemote ==
  /\ UNCHANGED <<origin, remote, clone, measures, edits, ours>>
  /\ \/ /\ origin = <<>>
        /\ Continues("sync", "box") /\ UNCHANGED <<tracked, local, index, work>>
     \/ Dies("sync") /\ UNCHANGED repository         \* origin does not answer
     \/ /\ origin # <<>> /\ tracked' = origin
        /\ LET behind == Beyond(origin, local)
               ahead == Beyond(local, origin)
           IN \/ /\ behind = 0
                 /\ Continues("sync", "box") /\ UNCHANGED <<local, index, work>>
              \/ /\ behind > 0 /\ ahead = 0 /\ Clean(Moved(origin))
                 /\ Continues("sync", "box") /\ CheckOut(origin)
              \/ /\ behind > 0 /\ ahead = 0 /\ ~Clean(Moved(origin))
                 /\ Dies("sync") /\ UNCHANGED <<local, index, work>>
              \/ behind > 0 /\ ahead > 0 /\ Rebase("sync", "box", origin)

----------------------------------------------------------------------------
(* The container.  A command line runs there whether or not the tool still *)
(* waits for its output.                                                   *)
Ref == IF tool.order.onBranch THEN origin ELSE <<Root>>
Waiting(line) == tool.at = "wait" /\ line.run = measures
(* Mutant: the artifact is returned even when the generator failed.        *)
WhatIsThere(line) == {clone.artifact}
(* The artifact that comes back when a step of the line failed: none.      *)
Extracted(line) == {}

(* ct_exec: the line is started, or the login fails and the tool dies.     *)
GenerateOnCT ==
  /\ \/ /\ LogsIn
        /\ tool.at = "box" /\ tool' = [tool EXCEPT !.at = "wait", !.alone = (remote = {})]
        /\ remote' = remote \cup {[run |-> measures, at |-> "fetch", ref |-> tool.order.onBranch, code |-> Root.code]}
     \/ ~LogsIn /\ Dies("box") /\ UNCHANGED remote
  /\ UNCHANGED <<repository, clone, measures, edits, ours>>

Becomes(line, next) == remote' = (remote \ {line}) \cup {next}
(* A step of the line fails: the ones after it, joined by &&, do not run.  *)
LineStops(line) ==
  /\ remote' = remote \ {line}
  /\ IF ~Waiting(line) THEN UNCHANGED tool
     ELSE IF Extracted(line) = {} THEN Dies("wait")
     ELSE \E markdown \in Extracted(line) : tool' = [tool EXCEPT !.at = "write", !.markdown = markdown]

FetchAndReset(line) ==
  LET ref == IF line.ref THEN origin ELSE <<Root>> IN
  /\ line.at = "fetch"
  /\ \/ /\ ref # <<>>
        /\ clone' = Tree(ref)
        /\ Becomes(line, [line EXCEPT !.at = "measure", !.code = Tree(ref).code])
        /\ UNCHANGED tool
     \/ LineStops(line) /\ UNCHANGED clone
(* The generator writes its artifact when it has measured everything.      *)
Generate(line) ==
  /\ line.at = "measure"
  /\ \/ /\ clone' = [clone EXCEPT !.artifact = <<"measured", line.run, line.code>>]
        /\ Becomes(line, [line EXCEPT !.at = "print"]) /\ UNCHANGED tool
     \/ LineStops(line) /\ UNCHANGED clone
PrintArtifact(line) ==
  /\ line.at = "print"
  /\ remote' = remote \ {line}
  /\ IF Waiting(line) THEN tool' = [tool EXCEPT !.at = "write", !.markdown = clone.artifact] ELSE UNCHANGED tool
  /\ UNCHANGED clone

RemoteLine ==
  /\ \E line \in remote : FetchAndReset(line) \/ Generate(line) \/ PrintArtifact(line)
  /\ UNCHANGED <<repository, measures, edits, ours>>

(* --remote-timeout, or the connection lost.                               *)
TimeOut ==
  /\ Dies("wait")
  /\ UNCHANGED <<repository, remote, clone, measures, edits, ours>>

----------------------------------------------------------------------------
WriteOut ==
  /\ Continues("write", "commit")
  /\ work' = [work EXCEPT !.artifact = tool.markdown]
  /\ UNCHANGED <<origin, tracked, local, index, remote, clone, measures, edits, ours>>

(* What git commit commits: everything staged.                             *)
Staged(staged) ==
  LET changed == {f \in Files : staged[f] # Tree(local)[f]}
  IN Append(local, [f \in changed |-> staged[f]])

(* commit_and_push up to the push.                                         *)
Commit ==
  LET added == [index EXCEPT !.artifact = work.artifact] IN
  /\ index' = added
  /\ UNCHANGED <<origin, tracked, work, remote, clone, measures, edits>>
  /\ \/ /\ added.artifact = Tree(local).artifact
        /\ Ends("commit", "unchanged") /\ UNCHANGED <<local, ours>>
     \/ /\ added.artifact # Tree(local).artifact
        /\ \/ /\ IF tool.order.push THEN Continues("commit", "push") ELSE Ends("commit", "local")
              /\ local' = Staged(added)
              /\ ours' = ours \cup {added.artifact}
           \/ Dies("commit") /\ UNCHANGED <<local, ours>>      \* git commit fails

(* git push: origin takes only what extends its branch, and it may refuse  *)
(* for other reasons.                                                      *)
Push(from, otherwise) ==
  /\ \/ /\ IsPrefix(origin, local)
        /\ Ends(from, "pushed")
        /\ origin' = local /\ tracked' = local
     \/ otherwise /\ UNCHANGED <<origin, tracked>>
  /\ UNCHANGED <<local, index, work, remote, clone, measures, edits, ours>>
FirstPush == Push("push", Continues("push", "resync"))
RetryPush == Push("retry", Dies("retry"))

(* After a failed push: fetch, whether or not that works, and replay our   *)
(* commit when origin turns out to be ahead.                               *)
Resync ==
  /\ tool.at = "resync"
  /\ \E fetched \in {origin, tracked} :
       /\ tracked' = fetched
       /\ IF Beyond(fetched, local) = 0 THEN Dies("resync") /\ UNCHANGED <<local, index, work>>
          ELSE Rebase("resync", "retry", fetched)
  /\ UNCHANGED <<origin, remote, clone, measures, edits, ours>>

----------------------------------------------------------------------------
(* People, at any moment.                                                  *)
Changed == edits < MaxEdits /\ edits' = edits + 1
Typed == <<"typed", edits>>
EditCode ==
  /\ Changed /\ Clean({"code"})
  /\ work' = [work EXCEPT !.code = Typed]
  /\ index' \in {index, [index EXCEPT !.code = Typed]}
  /\ ours' = ours \cup {Typed}
  /\ UNCHANGED <<origin, tracked, local, tool, remote, clone, measures>>
CommitCode ==
  LET staged == [index EXCEPT !.code = work.code] IN
  /\ staged # Tree(local)
  /\ index' = staged /\ local' = Staged(staged)
  /\ UNCHANGED <<origin, tracked, work, tool, remote, clone, measures, edits, ours>>
CollaboratorPushes ==
  /\ Changed
  /\ \E f \in Files :
       origin' = Append(IF origin = <<>> THEN <<Root>> ELSE origin, [g \in {f} |-> <<"theirs", edits>>])
  /\ UNCHANGED <<tracked, local, index, work, tool, remote, clone, measures, ours>>

Tool ==
  \/ PreflightGit \/ SyncWithRemote \/ GenerateOnCT \/ TimeOut \/ WriteOut \/ Commit
  \/ FirstPush \/ Resync \/ RetryPush
People == EditCode \/ CommitCode \/ CollaboratorPushes

(* A container that goes takes its remote lines with it.                   *)
Provision ==
  /\ NextProvisioning
  /\ IF step = "create" /\ box' # box THEN remote' = {} /\ clone' = Root ELSE UNCHANGED <<remote, clone>>
  /\ UNCHANGED <<repository, tool, measures, edits, ours>>

Init == InitProvisioning /\ InitBenchmarks
Next == Provision \/ ((Tool \/ RemoteLine \/ People) /\ UNCHANGED provisionVars)
vars == <<provisionVars, benchmarkVars>>
Spec == Init /\ [][Next]_vars
================================================================================
