--------------------------- MODULE RemoteBazelRun ---------------------------
(***************************************************************************)
(* The remote-bazel CLI (src/cli/remotebazel/remotebazel.go) over several *)
(* invocations by the same user on the same machine: Config (the git      *)
(* remote, the default branch, the patches of local changes) and Run (the *)
(* RunRequest, the logs, the remote exit code, downloadOutputs and the    *)
(* local run of a "run" target's binary).  Two things persist from one    *)
(* invocation to the next: the remote saved in the repository's git config *)
(* and the artifacts downloaded under bb-out/, which are untracked files  *)
(* of the repository.                                                      *)
(*                                                                         *)
(* Paths are abstracted to the directory a file lives in, "root" (the git *)
(* repository's root) or "sub" (a directory below it), and whether it lies *)
(* under that directory's bb-out/.  `git ls-files --others` lists the      *)
(* untracked files at or below the working directory, relative to it, so  *)
(* its line starts with "bb-out/" exactly for the artifacts downloaded    *)
(* into the working directory.                                             *)
(***************************************************************************)
EXTENDS Integers, Sequences, FiniteSets

CONSTANTS RemoteNames,     \* names of the repository's git remotes
          UserFiles,       \* untracked files the user may have made
          SetIds,          \* ids of named sets of files of an invocation
          FilesOf,         \* the artifact names of each named set
          ExitCodes,       \* exit codes of bazel or of the built binary
          Commands,        \* first word of the bazel command
          MaxInvocations

NoRemote == "none"         \* gitConfigRemoteBazelRemote not set
Dirs == {"root", "sub"}
\* (Dir(WorkspaceFilePath), working directory): bazel runs inside its
\* workspace, which is the repository root or a directory below it.
Layouts == {[ws |-> "root", cwd |-> "root"], [ws |-> "root", cwd |-> "sub"],
            [ws |-> "sub", cwd |-> "sub"]}
ArtifactNames == UNION {FilesOf[s] : s \in SetIds}
Files == [name : ArtifactNames \cup {f.name : f \in UserFiles}, dir : Dirs,
          art : BOOLEAN]
Outcomes == [kind : {"ok", "err", "panic"}, code : ExitCodes,
             site : {"none", "remoteNames", "childInvocation", "outputs"}]
Pcs == {"start", "remote", "branch", "patches", "dial", "run", "logs",
        "invocation", "sidecar", "child", "fetch", "exec"}

VARIABLES
  remotes,      \* remote name -> number of fetch URLs
  branches,     \* which of refs/heads/main, refs/heads/master exist
  dirty,        \* tracked files differ from the default branch's commit
  layout,       \* workspace directory and working directory
  unreadable,   \* untracked files of the user's that git cannot read
  savedRemote,  \* buildbuddy.remote-bazel-remote-name in the git config
  untracked,    \* untracked files of the repository
  inv, pc,      \* invocation number, and where it is
  remote, hasDiff, patches,  \* RepoConfig
  emptyPatches, \* untracked files whose patch in RepoConfig is empty
  cmd, exitCode, pendingSets, knownSets, pendingFiles, outputs,  \* Run
  used,         \* the remote each invocation's RepoConfig used
  result        \* what each invocation returned, or where it panicked

repo == <<remotes, branches, dirty, layout, unreadable>>
config == <<remote, hasDiff, patches, emptyPatches>>
vars == <<repo, savedRemote, untracked, inv, pc, config,
          cmd, exitCode, pendingSets, knownSets, pendingFiles, outputs,
          used, result>>
run == <<cmd, exitCode, pendingSets, knownSets, pendingFiles, outputs>>

\* Where the artifact of name a is written: <Dir(WorkspaceFilePath)>/bb-out/.
Artifact(a) == [name |-> a, dir |-> layout.ws, art |-> TRUE]

\* `git ls-files --others --exclude-standard` run in the working directory.
Listed(f) == f.dir = layout.cwd \/ layout.cwd = "root"
\* strings.HasPrefix(uf, buildBuddyArtifactDir+"/")
UnderArtifactDir(f) == f.art /\ f.dir = layout.cwd

TypeOK ==
  /\ DOMAIN remotes \subseteq RemoteNames
  /\ \A n \in DOMAIN remotes : remotes[n] \in 0..1
  /\ branches \subseteq {"main", "master"}
  /\ dirty \in BOOLEAN
  /\ layout \in Layouts
  /\ unreadable \subseteq UserFiles
  /\ savedRemote \in RemoteNames \cup {NoRemote}
  /\ untracked \subseteq Files
  /\ inv \in 0..MaxInvocations
  /\ pc \in Pcs
  /\ remote \in RemoteNames \cup {NoRemote}
  /\ hasDiff \in BOOLEAN
  /\ patches \subseteq Files /\ emptyPatches \subseteq patches
  /\ cmd \in Commands
  /\ exitCode \in ExitCodes \cup {-1}
  /\ pendingSets \subseteq SetIds /\ knownSets \subseteq SetIds
  /\ pendingFiles \subseteq ArtifactNames
  /\ outputs \in Seq(ArtifactNames)
  /\ used \in Seq(RemoteNames)
  /\ result \in Seq(Outcomes)

Init ==
  /\ \E R \in SUBSET RemoteNames : remotes \in [R -> 0..1]
  /\ branches \in SUBSET {"main", "master"}
  /\ dirty \in BOOLEAN
  /\ layout \in Layouts
  /\ savedRemote = NoRemote
  /\ untracked \in SUBSET UserFiles
  /\ unreadable \in SUBSET UserFiles
  /\ inv = 0 /\ pc = "start"
  /\ remote = NoRemote /\ hasDiff = FALSE /\ patches = {} /\ emptyPatches = {}
  /\ cmd = CHOOSE c \in Commands : TRUE
  /\ exitCode = -1
  /\ pendingSets = {} /\ knownSets = {} /\ pendingFiles = {}
  /\ outputs = <<>>
  /\ used = <<>> /\ result = <<>>

(***************************************************************************)
(* Returns of the invocation: Run's or Config's (code, error), or a panic *)
(* at an index out of range.                                               *)
(***************************************************************************)
Finish(kind, code, site) ==
  /\ pc' = "start"
  /\ result' = Append(result, [kind |-> kind, code |-> code, site |-> site])

Fail == Finish("err", 0, "none")

Panic(site) == Finish("panic", 0, site)

\* The user runs the CLI again, with some bazel command.
StartInvocation ==
  /\ pc = "start" /\ inv < MaxInvocations
  /\ inv' = inv + 1 /\ pc' = "remote"
  /\ \E c \in Commands : cmd' = c
  /\ remote' = NoRemote /\ hasDiff' = FALSE /\ patches' = {} /\ emptyPatches' = {}
  /\ exitCode' = -1
  /\ pendingSets' = {} /\ knownSets' = {} /\ pendingFiles' = {}
  /\ outputs' = <<>>
  /\ UNCHANGED <<repo, savedRemote, untracked, used, result>>

\* Config: one of its local git reads or commands, or the remote prompt,
\* returns an error.
GitFails ==
  /\ pc \in {"remote", "branch", "patches"}
  /\ Fail
  /\ UNCHANGED <<repo, savedRemote, untracked, inv, config,
                 run, used>>

\* Config's check of the chosen remote's fetch URL.
UseRemote(n) ==
  /\ remote' = n
  /\ IF remotes[n] = 0 THEN Fail ELSE pc' = "branch" /\ UNCHANGED result

\* A mutant of determineRemote: the remote chosen at the prompt is not saved
\* in the git config.
determineRemoteWithoutSave ==
  /\ pc = "remote"
  /\ LET names == DOMAIN remotes IN
     \/ names = {} /\ Fail /\ UNCHANGED <<remote, savedRemote>>
     \/ Cardinality(names) = 1 /\ UseRemote(CHOOSE n \in names : TRUE)
        /\ UNCHANGED savedRemote
     \/ Cardinality(names) > 1 /\ savedRemote \in names
        /\ UseRemote(savedRemote) /\ UNCHANGED savedRemote
     \/ Cardinality(names) > 1 /\ savedRemote \notin names
        /\ \E n \in names : remotes[n] = 0
        /\ Panic("remoteNames") /\ UNCHANGED <<remote, savedRemote>>
     \/ Cardinality(names) > 1 /\ savedRemote \notin names
        /\ \A n \in names : remotes[n] > 0
        /\ \E sel \in names : UseRemote(sel) /\ UNCHANGED savedRemote
  /\ UNCHANGED <<repo, untracked, inv, hasDiff, patches, emptyPatches, run, used>>

\* determineRemote, then Config's fetch URL check: no remote is an error;
\* a single remote is taken; otherwise the remote saved in the git config,
\* if it still exists; otherwise the user picks one from a list that shows
\* every remote's first URL, and the choice is saved.
determineRemote ==
  /\ pc = "remote"
  /\ LET names == DOMAIN remotes IN
     \/ names = {} /\ Fail /\ UNCHANGED <<remote, savedRemote>>
     \/ Cardinality(names) = 1 /\ UseRemote(CHOOSE n \in names : TRUE)
        /\ UNCHANGED savedRemote
     \/ Cardinality(names) > 1 /\ savedRemote \in names
        /\ UseRemote(savedRemote) /\ UNCHANGED savedRemote
     \/ Cardinality(names) > 1 /\ savedRemote \notin names
        /\ \E n \in names : remotes[n] = 0
        /\ Panic("remoteNames") /\ UNCHANGED <<remote, savedRemote>>
     \/ Cardinality(names) > 1 /\ savedRemote \notin names
        /\ \A n \in names : remotes[n] > 0
        /\ \E sel \in names : savedRemote' = sel /\ UseRemote(sel)
  /\ UNCHANGED <<repo, untracked, inv, hasDiff, patches, emptyPatches, run, used>>

\* determineDefaultBranch: refs/heads/main, else refs/heads/master, else
\* NotFound.
determineDefaultBranch ==
  /\ pc = "branch"
  /\ IF branches # {} THEN pc' = "patches" /\ UNCHANGED result ELSE Fail
  /\ UNCHANGED <<repo, savedRemote, untracked, inv, config,
                 run, used>>

\* `git diff --no-index /dev/null <f>` for an untracked file: exit status 1
\* ("the files differ") with the file's patch on stdout when git can read
\* f; exit status 128 with nothing on stdout when it cannot.
GitDiffNoIndex(f) ==
  IF f \in unreadable THEN [status |-> 128, stdout |-> FALSE]
                      ELSE [status |-> 1, stdout |-> TRUE]

\* runGit: stdout, with an *exec.ExitError for a non-zero exit status.  A
\* git that does not run at all is an Unknown error (GitFails).
runGit(out) == [stdout |-> out.stdout, exitErr |-> out.status # 0]

\* diffUntrackedFile: an *exec.ExitError is returned as success with
\* whatever git wrote, whatever its exit status.  TRUE iff the patch holds
\* the file.
diffUntrackedFile(f) == runGit(GitDiffNoIndex(f)).stdout

\* Config's patches: the tracked diff, non-empty iff the tracked files
\* differ, and diffUntrackedFile of each untracked file sent.
PatchUntracked(sent) ==
  /\ hasDiff' = dirty
  /\ patches' = sent
  /\ emptyPatches' = {f \in sent : ~diffUntrackedFile(f)}

\* A mutant of CollectPatches: untracked files under bb-out/ are not skipped.
CollectPatchesNoSkip ==
  /\ pc = "patches"
  /\ PatchUntracked({f \in untracked : Listed(f)})
  /\ used' = Append(used, remote)
  /\ pc' = "dial"
  /\ UNCHANGED <<repo, savedRemote, untracked, inv, remote, run, result>>

\* The end of Config: the diff against the default branch's commit, then a
\* patch for every untracked file listed, except those under bb-out/.
CollectPatches ==
  /\ pc = "patches"
  /\ PatchUntracked({f \in untracked : Listed(f) /\ ~UnderArtifactDir(f)})
  /\ used' = Append(used, remote)
  /\ pc' = "dial"
  /\ UNCHANGED <<repo, savedRemote, untracked, inv, remote, run, result>>

(***************************************************************************)
(* Run.                                                                    *)
(***************************************************************************)
\* A call that either lets Run go on to the next step or makes it return an
\* error.
Call(from, to) ==
  /\ pc = from
  /\ \/ pc' = to /\ UNCHANGED result
     \/ Fail
  /\ UNCHANGED <<repo, savedRemote, untracked, inv, config,
                 run, used>>

DialServer == Call("dial", "run")

RunRequest == Call("run", "logs")

\* streamLogs returns nil or an error (RemoteBazelLogs models its inside).
StreamLogs == Call("logs", "invocation")

DialSidecar == Call("sidecar", "child")

\* A mutant of GetInvocation: a missing ChildInvocationCompleted event is
\* not checked for.
GetInvocationNoExitCheck ==
  /\ pc = "invocation"
  /\ \/ Fail /\ UNCHANGED exitCode
     \/ \E e \in ExitCodes \cup {-1} :
          /\ exitCode' = e
          /\ IF cmd \in {"build", "run"}
             THEN pc' = "sidecar" /\ UNCHANGED result
             ELSE Finish("ok", e, "none")
  /\ UNCHANGED <<repo, savedRemote, untracked, inv, config,
                 cmd, pendingSets, knownSets, pendingFiles, outputs, used>>

\* GetInvocation of the parent invocation: an RPC error or no invocation is
\* an error; the exit code is that of the last ChildInvocationCompleted
\* event, -1 (an error) if there is none; "build" and "run" go on to fetch
\* outputs, any other command returns the exit code.
GetInvocation ==
  /\ pc = "invocation"
  /\ \/ Fail /\ UNCHANGED exitCode
     \/ \E e \in ExitCodes \cup {-1} :
          /\ exitCode' = e
          /\ IF e = -1 THEN Fail
             ELSE IF cmd \in {"build", "run"}
             THEN pc' = "sidecar" /\ UNCHANGED result
             ELSE Finish("ok", e, "none")
  /\ UNCHANGED <<repo, savedRemote, untracked, inv, config,
                 cmd, pendingSets, knownSets, pendingFiles, outputs, used>>

\* downloadOutputs' GetInvocation of the child invocation, indexed at [0]
\* without a length check; the named file sets it holds and the file sets
\* its Completed events ask for.
GetChildInvocation ==
  /\ pc = "child"
  /\ \/ Fail /\ UNCHANGED <<pendingSets, knownSets>>
     \/ Panic("childInvocation") /\ UNCHANGED <<pendingSets, knownSets>>
     \/ \E req, known \in SUBSET SetIds :
          /\ pendingSets' = req /\ knownSets' = known
          /\ pc' = "fetch" /\ UNCHANGED result
  /\ UNCHANGED <<repo, savedRemote, untracked, inv, config,
                 cmd, exitCode, pendingFiles, outputs, used>>

\* The next file set of fileSetsToFetch (map order): an error if no
\* NamedSetOfFiles event defined it.
FetchSet ==
  /\ pc = "fetch" /\ pendingFiles = {}
  /\ \E s \in pendingSets :
       /\ pendingSets' = pendingSets \ {s}
       /\ IF s \in knownSets
          THEN pendingFiles' = FilesOf[s] /\ UNCHANGED <<pc, result>>
          ELSE Fail /\ UNCHANGED pendingFiles
  /\ UNCHANGED <<repo, savedRemote, untracked, inv, config,
                 cmd, exitCode, knownSets, outputs, used>>

\* The next file of the set: skipped if its URI does not parse; otherwise
\* downloadOutput creates <workspace>/bb-out/<prefix>/<name> and writes the
\* blob into it, and a failure of MkdirAll, Create or GetBlob returns the
\* error, leaving the file created or not.
DownloadFile ==
  /\ pc = "fetch"
  /\ \E a \in pendingFiles :
       /\ pendingFiles' = pendingFiles \ {a}
       /\ \/ UNCHANGED <<untracked, outputs, pc, result>>
          \/ /\ Fail /\ UNCHANGED outputs
             /\ untracked' \in {untracked, untracked \cup {Artifact(a)}}
          \/ /\ untracked' = untracked \cup {Artifact(a)}
             /\ outputs' = Append(outputs, a)
             /\ UNCHANGED <<pc, result>>
  /\ UNCHANGED <<repo, savedRemote, inv, config,
                 cmd, exitCode, pendingSets, knownSets, used>>

\* downloadOutputs returns the artifacts; "build" returns the remote exit
\* code, "run" goes on to run the artifact.
FinishDownloads ==
  /\ pc = "fetch" /\ pendingSets = {} /\ pendingFiles = {}
  /\ IF cmd = "run" THEN pc' = "exec" /\ UNCHANGED result
     ELSE Finish("ok", exitCode, "none")
  /\ UNCHANGED <<repo, savedRemote, untracked, inv, config,
                 run, used>>

\* "run": more than one artifact is an error, and outputs[0] is taken
\* otherwise; a failing chmod or start is an error, and the binary's exit
\* code (0 when it succeeds) is returned.
RunOutput ==
  /\ pc = "exec"
  /\ \/ Len(outputs) > 1 /\ Fail
     \/ Len(outputs) = 0 /\ Panic("outputs")
     \/ Len(outputs) = 1 /\ \/ Fail
                            \/ \E c \in ExitCodes : Finish("ok", c, "none")
  /\ UNCHANGED <<repo, savedRemote, untracked, inv, config,
                 run, used>>

Next ==
  \/ StartInvocation \/ GitFails
  \/ determineRemote \/ determineDefaultBranch \/ CollectPatches
  \/ DialServer \/ RunRequest \/ StreamLogs \/ GetInvocation
  \/ DialSidecar \/ GetChildInvocation \/ FetchSet \/ DownloadFile
  \/ FinishDownloads \/ RunOutput

Spec == Init /\ [][Next]_vars

(***************************************************************************)
(* Properties.                                                             *)
(***************************************************************************)
\* The artifacts one invocation downloads into bb-out/, completely or
\* partly, are never sent as patches by a later invocation's Config.
ArtifactsNeverPatched == \A f \in patches : ~f.art

\* Once the user has picked a remote, every later invocation uses it: the
\* choice saved in the git config is read back by determineRemote.
RemoteStableAcrossInvocations == \A i, j \in 1..Len(used) : used[i] = used[j]

\* Config sends every untracked file of the user's repository as a patch
\* holding the file, so the remote build sees the local working tree (or
\* Config returns an error).
UntrackedFilesPatched ==
  pc = "dial" => {f \in untracked : ~f.art} \subseteq patches \ emptyPatches

\* No invocation panics on an index out of range: determineRemote listing the
\* remotes' first URLs, downloadOutputs taking the child invocation, Run
\* taking the artifact of a "run" command.
NoIndexOutOfRange == \A i \in 1..Len(result) : result[i].kind # "panic"
=============================================================================
