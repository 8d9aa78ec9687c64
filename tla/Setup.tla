-------------------------------- MODULE Setup --------------------------------
(***************************************************************************)
(* The 'setup' command of the development CLI (src/dev/setup.py), over a   *)
(* bounded number of invocations that share one filesystem.               *)
(*                                                                         *)
(* One invocation checks that 'go' is on PATH and then calls one installer *)
(* per tool in a fixed order.  Each installer first asks 'shutil.which'    *)
(* whether the tool is already on PATH and returns if it is; otherwise it  *)
(* installs it with 'go install', with a plain 'curl' download followed by *)
(* a chmod, or (golangci-lint) with a checked tarball download followed by *)
(* 'tar'.  Every external command goes through 'command.run', which never  *)
(* looks at the exit code: a failing command is ignored and the next one   *)
(* runs.  Only a Python exception (a missing executable, a missing file,   *)
(* 'raise Exception') ends the invocation early.  The process may also be  *)
(* killed at any point.                                                    *)
(*                                                                         *)
(* What persists between invocations is, per tool, the file the installer  *)
(* writes: its content and its execute bit.  PATH and the presence of the  *)
(* Go toolchain are the environment, fixed for a behaviour.  File content  *)
(* is abstracted to what the properties tell apart: a whole published      *)
(* binary ("good"), a truncated one ("partial") and a complete artifact    *)
(* that is not the published one ("tampered").                             *)
(***************************************************************************)
EXTENDS Naturals, Sequences

CONSTANTS
    Order,      \* the tools setup() installs after 'go', in the code's order
    MaxRuns     \* bound on the number of 'setup' invocations

(***************************************************************************)
(* The tools of setup(), by the way their installer works (setup.py,       *)
(* install_* functions).                                                   *)
(***************************************************************************)
GoInstalledTools == {"controller-gen", "ginkgo", "kustomize", "mockgen", "setup-envtest"}
TarballTools     == {"golangci-lint"}
DownloadTools    == {"operator-sdk", "opm", "spectral"}
SetupTools       == GoInstalledTools \cup TarballTools \cup DownloadTools

(* The order in which setup() calls the installers after install_go().     *)
SetupOrder == <<"controller-gen", "ginkgo", "golangci-lint", "kustomize", "mockgen",
                "operator-sdk", "opm", "setup-envtest", "spectral">>

ASSUME OrderAssumption == Order \in Seq(SetupTools)
ASSUME MaxRunsAssumption == MaxRuns \in Nat

N == Len(Order)

(***************************************************************************)
(* Directories.  select_bin_directory() tries, in this order, the          *)
(* project's .local/bin, the repository's bin, the directory 'go install'  *)
(* writes to (GOBIN) and GOROOT/bin.  PATH is modelled by which of them it *)
(* contains.                                                               *)
(***************************************************************************)
Candidates == <<"local_bin", "repo_bin", "gobin", "goroot_bin">>
Dirs == {"local_bin", "repo_bin", "gobin", "goroot_bin"}
NoDir == "none"

(* The membership test of select_bin_directory() for candidate c.  The     *)
(* GOBIN test compares the string returned by 'go env' with a set of       *)
(* pathlib.Path objects, so it never succeeds.                             *)
CodeMatches(c, p) == c \in p /\ c # "gobin"

(* The directory select_bin_directory() returns for PATH p, or NoDir where *)
(* it raises "Failed to select a suitable binaries directory".             *)
SelectBinDirectory(p) ==
    LET S == {i \in DOMAIN Candidates : CodeMatches(Candidates[i], p)}
    IN  IF S = {} THEN NoDir
        ELSE Candidates[CHOOSE i \in S : \A j \in S : i <= j]

(* Where the installer of t puts the binary for PATH p.                    *)
Home(t, p) == IF t \in GoInstalledTools THEN "gobin" ELSE SelectBinDirectory(p)

Contents == {"absent", "partial", "good", "tampered"}

VARIABLES
    file,       \* file[t]: content of t's binary in its installation directory
    exec,       \* exec[t]: whether that file has the execute bit
    path,       \* the candidate directories on PATH
    goPresent,  \* whether 'go' is on PATH
    running,    \* whether a 'setup' invocation is in progress
    pc,         \* 0: install_go() is next; k \in 1..N: the installer of Order[k]
    clean,      \* no external command of the current invocation has failed
    lastClean,  \* the last invocation returned normally with every command succeeding
    runs        \* number of invocations started

vars == <<file, exec, path, goPresent, running, pc, clean, lastClean, runs>>

(* shutil.which(t): an executable file named t in a directory of PATH.     *)
Whichable(t) == file[t] # "absent" /\ exec[t] /\ Home(t, path) \in path

TypeOK ==
    /\ file \in [SetupTools -> Contents]
    /\ exec \in [SetupTools -> BOOLEAN]
    /\ path \subseteq Dirs
    /\ goPresent \in BOOLEAN
    /\ running \in BOOLEAN
    /\ pc \in 0..(N + 1)
    /\ clean \in BOOLEAN
    /\ lastClean \in BOOLEAN
    /\ runs \in 0..MaxRuns

(* A fresh checkout: no tool installed yet; any PATH.                      *)
Init ==
    /\ file = [t \in SetupTools |-> "absent"]
    /\ exec = [t \in SetupTools |-> FALSE]
    /\ path \in SUBSET Dirs
    /\ goPresent \in BOOLEAN
    /\ running = FALSE
    /\ pc = 0
    /\ clean = TRUE
    /\ lastClean = FALSE
    /\ runs = 0

-----------------------------------------------------------------------------
(* The invocation ends with an exception or is killed.                     *)
Abort == /\ running' = FALSE
         /\ clean' = FALSE
         /\ UNCHANGED pc

(* The installer returns and setup() calls the next one.                   *)
Continue == /\ pc' = pc + 1
            /\ UNCHANGED running

(* Installer k of setup() is the current step and its tool is t.           *)
Calling(t) == running /\ pc \in 1..N /\ Order[pc] = t

(* The user runs 'dev.py setup'.                                           *)
Start ==
    /\ ~running
    /\ runs < MaxRuns
    /\ running' = TRUE
    /\ pc' = 0
    /\ clean' = TRUE
    /\ lastClean' = FALSE
    /\ runs' = runs + 1
    /\ UNCHANGED <<file, exec, path, goPresent>>

(* install_go(): 'go' must already be on PATH, else it raises.             *)
InstallGo ==
    /\ running /\ pc = 0
    /\ \/ goPresent /\ Continue /\ UNCHANGED clean
       \/ ~goPresent /\ Abort
    /\ UNCHANGED <<file, exec, path, goPresent, lastClean, runs>>

(* go_install(tool, version): return if the tool is on PATH, else run      *)
(* 'go install', whose exit code is ignored.  'go install' moves the built *)
(* binary into GOBIN in one step, so a failure or a kill leaves the old    *)
(* file.  A version the caller does not give is resolved first (module     *)
(* GoVersion); one that is not found makes 'go install' fail, which is the *)
(* failing outcome here.                                                   *)
GoInstall(t) ==
    /\ t \in GoInstalledTools
    /\ Calling(t)
    /\ \/ /\ Whichable(t)
          /\ Continue /\ UNCHANGED <<file, exec, clean>>
       \/ /\ ~Whichable(t)
          /\ \/ /\ file' = [file EXCEPT ![t] = "good"]
                /\ exec' = [exec EXCEPT ![t] = TRUE]
                /\ Continue /\ UNCHANGED clean
             \/ Continue /\ clean' = FALSE /\ UNCHANGED <<file, exec>>
             \/ Abort /\ UNCHANGED <<file, exec>>
    /\ UNCHANGED <<path, goPresent, lastClean, runs>>

(* Download the binary into the selected directory with 'curl --fail     *)
(* --output', os.stat() it and add S_IXUSR.  curl's exit code is ignored: *)
(* a truncated transfer is made executable, and after an HTTP error (curl  *)
(* writes nothing) os.stat() raises when there is no file and otherwise    *)
(* chmods the file an earlier invocation left there.                       *)
CurlAndChmod(t) ==
    \/ \* the transfer completes
       /\ file' = [file EXCEPT ![t] = "good"]
       /\ exec' = [exec EXCEPT ![t] = TRUE]
       /\ Continue /\ UNCHANGED clean
    \/ \* the transfer is cut short
       /\ file' = [file EXCEPT ![t] = "partial"]
       /\ exec' = [exec EXCEPT ![t] = TRUE]
       /\ Continue /\ clean' = FALSE
    \/ \* HTTP error and no file: os.stat() raises
       /\ file[t] = "absent"
       /\ Abort /\ UNCHANGED <<file, exec>>
    \/ \* HTTP error over an earlier file: chmod it
       /\ file[t] # "absent"
       /\ exec' = [exec EXCEPT ![t] = TRUE]
       /\ Continue /\ clean' = FALSE /\ UNCHANGED file
    \/ \* killed during curl or before chmod
       /\ \E c \in {file[t], "partial", "good"} : file' = [file EXCEPT ![t] = c]
       /\ Abort /\ UNCHANGED exec

(* Mutant: the installer downloads without asking which() first.           *)
InstallDownloadNoWhich(t) ==
    /\ t \in DownloadTools
    /\ Calling(t)
    /\ \/ SelectBinDirectory(path) = NoDir /\ Abort /\ UNCHANGED <<file, exec>>
       \/ SelectBinDirectory(path) # NoDir /\ CurlAndChmod(t)
    /\ UNCHANGED <<path, goPresent, lastClean, runs>>

(* Mutant: the installer returns when a file of that name exists in the  *)
(* selected directory, executable or not, instead of asking which().      *)
InstallDownloadExists(t) ==
    /\ t \in DownloadTools
    /\ Calling(t)
    /\ \/ file[t] # "absent" /\ Continue /\ UNCHANGED <<file, exec, clean>>
       \/ /\ file[t] = "absent"
          /\ SelectBinDirectory(path) = NoDir
          /\ Abort /\ UNCHANGED <<file, exec>>
       \/ /\ file[t] = "absent"
          /\ SelectBinDirectory(path) # NoDir
          /\ CurlAndChmod(t)
    /\ UNCHANGED <<path, goPresent, lastClean, runs>>

(* install_opm(), install_operator_sdk(), install_spectral(): return if    *)
(* the tool is on PATH; else select a directory (or raise) and download.   *)
InstallDownload(t) ==
    /\ t \in DownloadTools
    /\ Calling(t)
    /\ \/ Whichable(t) /\ Continue /\ UNCHANGED <<file, exec, clean>>
       \/ /\ ~Whichable(t)
          /\ SelectBinDirectory(path) = NoDir
          /\ Abort /\ UNCHANGED <<file, exec>>
       \/ /\ ~Whichable(t)
          /\ SelectBinDirectory(path) # NoDir
          /\ CurlAndChmod(t)
    /\ UNCHANGED <<path, goPresent, lastClean, runs>>

(* Mutant: tar without --strip-components puts the binary in a             *)
(* subdirectory, so nothing is written where which() looks.                *)
FetchAndExtractNoStrip(t) ==
    \/ Continue /\ UNCHANGED <<file, exec, clean>>
    \/ Continue /\ clean' = FALSE /\ UNCHANGED <<file, exec>>
    \/ Abort /\ UNCHANGED <<file, exec>>

(* 'curl' the release tarball into a temporary directory, write the       *)
(* expected digest, 'sha256sum --check' it and 'tar --extract' the binary  *)
(* into the selected directory; the temporary directory is removed in a    *)
(* finally clause.  No exit code is looked at, so a digest mismatch does   *)
(* not stop 'tar'.  tar creates the member with the archive's mode, which  *)
(* is executable, so a member cut short is executable too.                 *)
FetchAndExtract(t) ==
    \/ \* the published tarball: the digest matches
       /\ file' = [file EXCEPT ![t] = "good"]
       /\ exec' = [exec EXCEPT ![t] = TRUE]
       /\ Continue /\ UNCHANGED clean
    \/ \* a well-formed tarball with another digest
       /\ file' = [file EXCEPT ![t] = "tampered"]
       /\ exec' = [exec EXCEPT ![t] = TRUE]
       /\ Continue /\ clean' = FALSE
    \/ \* no tarball or a truncated one: tar writes nothing
       /\ Continue /\ clean' = FALSE /\ UNCHANGED <<file, exec>>
    \/ \* a truncated tarball: tar writes part of the member
       /\ file' = [file EXCEPT ![t] = "partial"]
       /\ exec' = [exec EXCEPT ![t] = TRUE]
       /\ Continue /\ clean' = FALSE
    \/ \* killed before tar
       /\ Abort /\ UNCHANGED <<file, exec>>

(* install_golangci_lint(): return if on PATH; else select a directory (or *)
(* raise) and fetch and extract the release tarball.                       *)
InstallGolangciLint(t) ==
    /\ t \in TarballTools
    /\ Calling(t)
    /\ \/ Whichable(t) /\ Continue /\ UNCHANGED <<file, exec, clean>>
       \/ /\ ~Whichable(t)
          /\ SelectBinDirectory(path) = NoDir
          /\ Abort /\ UNCHANGED <<file, exec>>
       \/ /\ ~Whichable(t)
          /\ SelectBinDirectory(path) # NoDir
          /\ FetchAndExtract(t)
    /\ UNCHANGED <<path, goPresent, lastClean, runs>>

(* setup() returns after its last installer.                               *)
Finish ==
    /\ running /\ pc = N + 1
    /\ running' = FALSE
    /\ lastClean' = clean
    /\ UNCHANGED <<file, exec, path, goPresent, pc, clean, runs>>

Next ==
    \/ Start
    \/ InstallGo
    \/ \E t \in SetupTools : GoInstall(t) \/ InstallDownload(t) \/ InstallGolangciLint(t)
    \/ Finish

Spec == Init /\ [][Next]_vars

-----------------------------------------------------------------------------
(***************************************************************************)
(* Properties.                                                             *)
(***************************************************************************)

(* Every installer starts with shutil.which() and returns when the tool is *)
(* on PATH, so no step of any invocation changes the binary or the        *)
(* execute bit of a tool that is already installed: re-running setup is    *)
(* idempotent on what it has installed, whatever the network does.         *)
InstalledUntouchedStep ==
    \A t \in SetupTools :
        Whichable(t) => /\ file'[t] = file[t]
                        /\ exec'[t] = exec[t]

InstalledToolsUntouched == [][InstalledUntouchedStep]_vars

(* When the last setup() returned normally and none of its external       *)
(* commands failed, every tool of the order is on PATH (the 'go install'   *)
(* tools only when GOBIN is on PATH: go_install() never looks).  It needs  *)
(* the which() guards, select_bin_directory() returning a PATH directory,  *)
(* tar's --strip-components and the chmod after curl to all be right.     *)
CleanRunInstallsAll ==
    (~running /\ lastClean /\ "gobin" \in path)
        => \A k \in 1..N : Whichable(Order[k])

(* The spec (section 4.1): a checksum mismatch is fatal and must abort     *)
(* before the binary is made executable.  For golangci-lint the code runs  *)
(* 'tar' whatever 'sha256sum --check' returned.                            *)
ChecksumGuardsExecutable ==
    \A t \in TarballTools : exec[t] => file[t] # "tampered"

(* The spec (section 7 (d)): a download failure is fatal.  Then no binary  *)
(* a download left truncated is ever made executable; the code ignores     *)
(* curl's exit code and chmods whatever file is there.                     *)
ExecutableDownloadsWhole ==
    \A t \in DownloadTools : exec[t] => file[t] = "good"

(* The first candidate directory that is on PATH, as the spec (section 8)  *)
(* says select_bin_directory() chooses it.                                 *)
FirstOnPath(p) ==
    LET S == {i \in DOMAIN Candidates : Candidates[i] \in p}
    IN  IF S = {} THEN NoDir
        ELSE Candidates[CHOOSE i \in S : \A j \in S : i <= j]

(* The spec (section 8): the directory a downloaded tool is written to is  *)
(* always the first candidate on PATH.                                     *)
SelectsFirstOnPath ==
    \A t \in DownloadTools \cup TarballTools :
        file[t] # "absent" => SelectBinDirectory(path) = FirstOnPath(path)

-----------------------------------------------------------------------------
(***************************************************************************)
(* Setup implements SetupContract: the tools which() finds are the         *)
(* contract's found tools, and the required ones are the tools of the      *)
(* order, less the 'go install' ones when GOBIN is not on PATH (then       *)
(* go_install() writes where which() does not look).                       *)
(***************************************************************************)
Required ==
    {Order[k] : k \in 1..N} \ (IF "gobin" \in path THEN {} ELSE GoInstalledTools)

Contract == INSTANCE SetupContract
                WITH Tools <- SetupTools,
                     found <- {t \in SetupTools : Whichable(t)},
                     required <- Required

(* Every behaviour of setup() is one the contract allows: which() never   *)
(* stops finding a tool, tools appear only while an invocation runs, and  *)
(* an invocation that returns with every command succeeding has left      *)
(* every required tool findable, with or without GOBIN on PATH.  It needs *)
(* each installer's which() guard, the directory select_bin_directory()   *)
(* picks, tar's --strip-components and the chmod after curl to be right.  *)
ContractRefined == Contract!Spec

=============================================================================
