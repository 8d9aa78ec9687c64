# Formal models of the `dev.py` development tool

This directory holds TLA+ models of the development CLI in `src/dev.py` and
`src/dev/`. It has TLC configurations that check them, and TLAPS proofs of their central
properties and of their refinement of abstract contracts.

## The system

`dev.py` is a click CLI. Each invocation runs one command and exits. Every
command is a short sequence of external commands. Nearly all of them go
through `command.run()` (`src/dev/command.py`). That function calls
`subprocess.run` without `check` and ignores the return code. As a result:

- a failed external command never stops an invocation; only a Python
  exception does (`setup.py` raises a few, and `os.stat` raises on a missing
  file), or a kill of the process;
- `dev.py` exits with status 0 after any failed external command.

The parts, and the state they share:

| Part | Source | Persistent state it changes or reads |
|---|---|---|
| tool installer `setup` | `setup.py` | the tool binaries in the bin directories and their execute bit; reads `PATH` and `go env` |
| Go version search | `setup.py` `go_install` | none (reads `go list -m` answers) |
| command runner | `command.py` | none: the exit-code policy above |
| `generate` (mocks, manifests, deep-copy, bundle) | `generate.py` | `config/manager/kustomization.yaml` (the image); reads `./bundle` |
| `deploy` / `undeploy` | `deploy.py` | the image in the kustomization; the cluster |
| `install` / `uninstall` | `install.py` | the CRDs in the cluster |
| `build` / `push` | `build.py`, `push.py`, `defaults.py` | local podman storage, the registry, the built binary |
| `test` | `test.py` | nothing other commands read |
| log formatter | `formatter.py` | none |

The parts interact in two places:

- **The kustomization image.** `generate bundle` and `deploy` both rewrite it
  with `kustomize edit set image`. `deploy` and `undeploy` render it.
- **Image storage.** `build` writes local image references and `push` reads
  them.

## Modules

### `Setup` (with `MCSetup`)

This module covers `setup()` and every `install_*` function.

State:

- `file[t]` is one of `absent`, `partial`, `good` or `tampered`. It is the
  content of tool `t`'s binary in the directory it is installed to.
- `exec[t]` is the execute bit.
- `path` is the set of candidate directories on `PATH`, and `goPresent`
  records whether `go` is found. Both are chosen in `Init`.
- `running`, `pc` (the position in the `setup()` call list), `clean` (no
  step has failed so far in this run), `lastClean` and `runs` describe the
  bounded sequence of `setup` invocations.

Actions:

- Each installer is one action: `InstallGo`, `GoInstall`, `InstallDownload`
  (opm, operator-sdk, spectral) and `InstallGolangciLint`.
- Its disjuncts are the outcomes of its external commands: success, a
  non-zero exit that is ignored (`Continue` with `clean` false), an exception
  (`Abort`), and a kill during a download.
- `SelectBinDirectory` is `select_bin_directory()` as it behaves.
  `CodeMatches` excludes `gobin`, because GOBIN is a `str` looked up in a set
  of `pathlib.Path`.
- `Whichable(t)` is `shutil.which`: the file exists, is executable and its
  directory is on `PATH`.

`Order` (the call list) and `MaxRuns` are constants. `MaxRuns` and the
counter `runs` exist only in the model: the CLI can be run any number of
times, and the bound keeps the state space finite. `MCSetup` uses three
tools, one of each kind, and three runs.

### `SetupContract`

This module is an abstract specification of what `setup` promises. It uses
only the tools `which()` finds (`found`), the tools that must be found after
a clean run (`required`), and the run bookkeeping:

- `Start` begins an invocation (below `MaxRuns`).
- `Install` is an installer call that returns: `found` may only grow.
- `Return` ends the invocation (the `Finish` of a whole run, or an exception
  or a kill). `found` may grow, and the run counts as clean only when every
  required tool is found.

`Setup` maps onto it through `Contract` (`ContractRefined`): `found` is
`{t : Whichable(t)}`, and `required` is `Required`, the tools of `Order`
minus the `go install` tools when GOBIN is not on `PATH`. Those land in a
directory `which()` never searches, which is a known divergence reported by
the violation runs, not part of the contract.

### `GoVersion` (with `MCGoVersion`)

This module covers the version search of `go_install()`.

- A tool path of `n` segments is abstracted to `n`. A prefix is abstracted to
  its length.
- `ok` is the set of prefix lengths that `go list -m` resolves.
- `version` is one of `NoVersion` (None), `Empty` (the `''` output of a
  failed lookup), a found length, or `Explicit`.
- The actions are `Probe` (one loop iteration, with its `break`), `LoopEnd`
  and `CheckVersion` (`if version is None: raise`).
- `FairSpec` adds weak fairness on `Next` (see Fairness below).
- `Abstract` instantiates `VersionLookup` under a refinement mapping.
  `AbsPhase` is `lookup` while the loop runs and until the None check.
  `AbsVersion` is None until then.

### `VersionLookup`

This module is an abstract specification of what the version search
computes, taken as one atomic step `Lookup`. The result, `Answer`, is:

- the version of the longest resolved prefix of 3 to `n-1` segments
  (`Greatest(Resolved)`);
- otherwise the empty output of a failed lookup, if the range was non-empty
  (`n > 3`);
- otherwise None, and the function raises.

It is the reference definition against which the loop is checked. It
describes what the code does, including the empty version the spec does not
want. The violation runs of `GoVersion` report that disagreement.

### `Images` (with `MCImages`)

This module covers `build binary`, `build image`, `build bundle-image`,
`push image` and `push bundle-image`, with the defaults from `defaults.py`.

- References are pairs of repository and tag. `DottedRef` is the reference
  `build bundle-image` produces: its missing comma turns `f"{r}:{t}" "."` into
  the tag `t.`.
- `local` and `registry` map references to images, each given as a kind and a
  source revision. `last` records the invocation and whether its external
  commands succeeded; `dev.py` exits with 0 either way.
- `Edit` (a developer changing the sources) is the only action not taken from
  the code.

### `ImageStore`

This module is an abstract specification of the image commands, restricted
to the references a push can name (`PushRefs`, every `repo:tag`):

- `Build(x)` stores an operator image of the current revision under `x`.
- `Push(x)` copies the image stored under `x` to the registry, and needs one.
- `Edit` changes the sources.

`Images` maps onto it through `Store` (`StoreRefined`): both storages are
restricted to `PushRefs`. `build bundle-image` writes only under the dotted
reference, so it is a stutter step. A failed build or push is a stutter step.

### `Cluster` (with `MCCluster`)

This module covers `generate` and its subcommands, `deploy`, `undeploy`,
`install` and `uninstall`.

- State: `kimage` (the kustomization image), `bundleDir` (the image named in
  `./bundle`), `crds`, `controller` (the image the controller runs, or none),
  and `last`. `last` holds the invocation, its `--image` and the sequence of
  external steps that ran, each with its success.
- An invocation is one action, quantified over the success of each step
  (`Outcomes`) and over the number of steps that ran before a kill.
- A failed `kustomize build` produces no objects. A failed `kubectl
  apply`/`delete` may have acted on any part of its objects.
- `DefaultHasCrds` says whether `config/default` includes `config/crd`. That
  directory is not in the source snapshot. `MCCluster` sets it to TRUE, the
  kubebuilder layout the project follows.

### `ClusterContract`

This module is an abstract specification of what each cluster command may
do to the kustomization image, the CRDs and the controller, whatever fails
and wherever the command is killed:

- `GenerateSources` (`generate mocks/manifests/deep-copy`) touches none of
  them.
- `SetImage(img)` (`generate`, `generate bundle`) may set the kustomization
  to `img` and leaves the cluster alone.
- `Deploy(img)` may set the kustomization to `img`, may make the controller
  run the image the kustomization then names, and may add the CRDs when
  `config/default` has them. It deletes nothing.
- `Undeploy` may remove the controller, and the CRDs when `config/default`
  has them. It creates nothing.
- `Install` may add the CRDs, `Uninstall` may remove them. Neither touches
  the controller.

`cmd` is the command that ran last. `Cluster` maps `cmd` to `last.cmd`
(`Contract`, `ClusterRefined`). Without `cmd`, an `install` that started a
controller would look like a `deploy` whose edit failed.

## Runs

Passing runs (`TypeOK` is checked in `goversion_core` and `cluster_core`; the
type invariants of `Setup` and `Images` are proved, not run, because no
plausible code bug breaks them):

| Run | Properties | What it shows |
|---|---|---|
| `setup_core` | `CleanRunInstallsAll`, `InstalledToolsUntouched`, `ContractRefined` | Over every `PATH` and every failure, truncation and kill, no step touches a tool `which()` finds. A run that ends with no failed step, with the Go bin directory on `PATH`, leaves every tool findable. `Setup` implements `SetupContract`. |
| `goversion_core` | `FirstSuccessUsed`, `LookupRefined` | The version is that of the longest resolvable prefix among those probed, and no shorter prefix is looked up. The loop refines `VersionLookup!FairSpec`: every probe is a stutter step, the None check is the lookup, and every search ends. |
| `images_core` | `PushImagePublishesOperator`, `StoreRefined` | Whatever sequence of builds and pushes came before, a successful `push image` publishes an operator image, never a bundle. `Images` implements `ImageStore`. |
| `cluster_core` | `DeployRunsRequestedImage`, `UndeployRemovesController`, `ClusterRefined` | A clean `deploy --image X` runs X whatever image `generate bundle` left in the shared kustomization. A clean `undeploy` removes the controller and the CRDs. `Cluster` implements `ClusterContract`. |

Each property of a passing run has a mutant: a plausible bug in a mapped
definition that TLC must catch. The mutants are:

- the loop without `break`;
- a loop that starts at the complete path (what the comment above it asks
  for), which no longer refines the lookup;
- a loop range that runs down to the empty prefix;
- an installer without its `which()` check;
- a tar that writes outside `PATH`;
- a `deploy` that renders before it edits;
- an `undeploy` that renders `config/crd`;
- a `kustomize edit` that truncates;
- a bundle build with the comma "fixed";
- an installer that skips a tool whose file exists, instead of one
  `which()` finds (breaks `ContractRefined`: a partial file is never
  replaced, so a clean run can end with a required tool missing);
- an `install` that renders `config/default` (breaks `ClusterRefined`: it
  starts a controller).

The last mutant is worth spelling out. With the comma alone fixed, the bundle
is tagged with the operator's default repository. It then overwrites the
operator image, and `push image` publishes the bundle. The two bugs in
`build bundle-image` currently cancel each other out.

Violation runs. Each checks one statement of the spec or of the code's
comments, and TLC finds the code breaking it (see `findings` in
`PROJECT.json`):

| Property | What the code does |
|---|---|
| `ChecksumGuardsExecutable` | A failed `sha256sum` is ignored, and the tarball is extracted and executable. |
| `ExecutableDownloadsWhole` | A failed or truncated `curl` output is chmodded. After a killed run, `which()` accepts the partial file forever. |
| `SelectsFirstOnPath` | GOBIN is never selected. |
| `ExhaustionRaises` | `go install tool@` runs with an empty version instead of failing. |
| `FullPathTriedFirst` | The complete package path is never probed. |
| `NoStepAfterFailure` | Steps after a failed step still run, and `dev.py` exits with 0. |
| `BundleNamesImage` | `./bundle` is validated but never written. |
| `BundleBuiltForPush` | `push bundle-image` does not push the built bundle. |

Bounds:

- Three tools (one go-installed, the tarball, one download) exercise every
  installer shape. Three runs reach a partial file left by a killed run and
  then skipped by a later run. `IInv` was also checked with an order that
  repeats a tool.
- Tool paths of up to 6 segments cover the longest real one (5) and the
  short paths for which the loop is empty.
- One tag and two source revisions are enough for a stale image.
- Two user images (the default and one other) are enough for one command's
  image to leak into another's deploy.

Fairness. Only `goversion_core` assumes fairness: `GoVersion!FairSpec` is
`WF_vars(Next)`. `go_install()` is one sequential function, so its next
statement runs as soon as the `go list` before it returns. The code has no
timeouts (spec section 5). A hung command hangs forever, and no fairness
covers it, so the liveness part of `LookupRefined` holds only under the
assumption that every command returns.

A liveness property for `setup` ("every invocation returns or raises") was
tried and left out. Every branch of every installer is a visible step, so it
holds by the shape of the model. A retry-until-success loop, the plausible
bug, is a stutter step that weak fairness hides, so no mutant can break the
property.

The runs set `CHECK_DEADLOCK FALSE` where the modelled computation really
stops: `setup` after its bounded runs, and
`go_install` once it returns or raises.

## Proofs

Seven modules hold TLAPS proofs. Each extends its component's module and
`TLAPS`.

### `SetupProofs`

TLAPS checks these theorems for every `Order \in Seq(SetupTools)` and every
`MaxRuns \in Nat`:

- `TypeCorrect`: `Spec => []TypeOK`.
- `InstalledUntouched`: `Spec => InstalledToolsUntouched`. It rests on
  `TypeOK` and a per-action lemma. That lemma says an installer either skips
  a tool `which()` finds or works on its own tool, which was not found.
  `Whichable` is itself stable under the step.
- `CleanRunCorrect`: `Spec => []CleanRunInstallsAll`.

`CleanRunInstallsAll` is not inductive. It is proved through `IInv`, which
adds two facts:

- `RunInv`: during a run that is still clean with the Go bin directory on
  `PATH`, every tool before `pc` is findable.
- `running => ~lastClean`.

Each installer action preserves `RunInv`, because a clean step leaves its
tool findable (`GoInstallInstalls`, `InstallDownloadInstalls`, ...).
`DownloadHome` (with `LeastIndex`) shows that the selected directory is on
`PATH`. `WhichableStable` shows that earlier tools stay findable. `Finish`
turns `RunInv` at `pc = N+1` into the invariant.

### `GoVersionProofs`

These theorems hold for every `MaxSegments \in Nat`:

- `GoVersionTypeCorrect`: `Spec => []TypeOK`.
- `FirstSuccessCorrect`: `Spec => []FirstSuccessUsed`.

The invariant is `IInv`. With an explicit version, nothing is probed and the
phase is `install`. Without one, `SearchInv` holds. It says:

- the loop variable never exceeds `n-1`;
- no prefix above `i` resolved;
- the probed prefixes are exactly the interval from `i` (or `i+1` before a
  success) up to `n-1`;
- a found version is `i`, resolved, and at least 3;
- while probing, nothing is found yet, and a search that ended with nothing
  found has `i <= 2`.

Two more conjuncts say when the version is still None: exactly while the
loop variable has not moved. They also say that the loop variable stays at
2 or above once it moves.

The interval is what makes the property inductive. From it, "the version is
the longest resolved prefix" follows, because every longer prefix was probed
and failed. `FirstSuccessUsed` alone says nothing about the prefixes still
to be probed, so it is not preserved by `Probe`.

`LookupRefinement` proves `Spec => Abstract!Spec`, the safety part of
`LookupRefined`:

- `Init` maps to `VersionLookup!Init`.
- Under `IInv`, `Probe` and `LoopEnd` leave the mapped state unchanged.
- `CheckVersion` is a `Lookup` step, because at the None check `version`
  equals `Answer` (`CheckAnswer`). `CheckAnswer` uses the interval and the
  two None conjuncts. `CHOOSE` in `Greatest` is pinned down by showing that
  the found prefix is the unique greatest element.

### `ClusterProofs`

These theorems hold for every set `UserImages` that contains the default
image, and for either value of `DefaultHasCrds`:

- `ClusterTypeCorrect`: `Spec => []TypeOK`.
- `DeployCorrect`: `Spec => []DeployRunsRequestedImage`.
- `UndeployCorrect`: `Spec => []UndeployRemovesController`.

Here the invariant is the two properties together with `TypeOK`. Both
properties are about the last invocation only, so each command is one
lemma:

- A command other than `deploy`/`undeploy` makes both properties vacuous
  (`OtherCommand`).
- `deploy` and `undeploy` re-establish theirs from the outcomes of their own
  steps. A clean deploy edits the kustomization before it renders it, so the
  applied controller runs `kimage'`, which is the requested image.

The trace lemmas (`TraceFacts`, `DeployTrace`, `UndeployTrace`) give the
length and per-step success of the recorded steps. The step lists are named
definitions (`DeploySteps`, `DeleteSteps`, ...) so that the SMT back-end
never sees their string literals. It cannot encode strings that contain
spaces.

### `ImagesProofs`

These theorems hold for every set of tags and every `MaxRev >= 1`, under
`DotAssumption`: no tag is another tag followed by a dot. TLC evaluates
the assumption in `MCImages`.

- `ImagesTypeCorrect`: `Spec => []TypeOK`.
- `PushPublishesOperatorCorrect`: `Spec => []PushImagePublishesOperator`.

The invariant adds `OperatorRefs`. Under every reference a push can name,
both the local storage and the registry hold an operator image or nothing:

- `build image` writes an operator image there.
- `build bundle-image` writes only under the dotted reference, which is
  none of those (`DotAssumption`).
- A push copies a local image into the registry, and succeeds only when
  there is one.

Some lemmas work around a limit of the SMT back-end. It cannot encode a
string literal with a space under a quantifier, and the command names have
spaces. So `CommandNames` states their facts one by one, and one frame fact
is proved with Zenon.

### `SetupContractProofs`

`ContractRefinement`: `Spec => ContractRefined`, for every order of
installers and every bound on runs. The invariant is `CInv`: `TypeOK`,
`running => ~lastClean`, and `ReqInv`. `ReqInv` is `RunInv` without its
premise that GOBIN is on `PATH`: during a clean run, every tool before `pc`
that is required is findable. A `go install` tool is required only when
GOBIN is on `PATH` (`RequiredGo`), so the installer lemmas of `SetupProofs`
still apply. TLC checked `CInv` on `MCSetup` before it was proved.

The step lemmas:

- An installer that continues is a contract `Install`, because `which()`
  never stops finding a tool (`FoundGrows`, from `WhichableStable`).
- An exception is a `Return` that is not clean.
- `Finish` is a `Return` whose cleanliness is justified by `ReqInv` at
  `pc = N+1` (`FinishRefines`).
- `Start` and `InstallGo` keep `Found` (`FoundKept`).

### `ImageStoreProofs`

`StoreRefinement`: `Spec => StoreRefined`, for every set of tags under
`DotAssumption` and every `MaxRev`. It needs only `IInv` of `ImagesProofs`,
for the types of the storages. `ViewWrite` and `ViewHidden` say how a write
under a reference changes the restriction of a storage to `PushRefs`.
`PushRefFacts` says that the dotted reference is not a push reference
(from `DotAssumption`). So a bundle build is a stutter step, an image build
is `Build`, and a push is `Push`.

### `ClusterContractProofs`

`ClusterRefinement`: `Spec => ClusterRefined`, for every set of user images
and either value of `DefaultHasCrds`. `ApplyMoves`, `DeleteMoves` and
`EditMoves` bound what one `kubectl apply`, `kubectl delete` or `kustomize
edit` can do, whatever the outcomes and wherever the command stopped. Each
command lemma combines them. The `deploy` lemma rests on the order of its
steps: the objects are rendered from `kimage'`, after the edit. Only
`TypeOK` (from `IInv` of `ClusterProofs`) is needed.

### What stays with TLC

- The liveness part of `LookupRefined`: every search ends. It needs weak
  fairness and `ENABLED`, which TLAPS does not handle here.
- Liveness and `ENABLED` are beyond TLAPS here.
- Facts about what a recursive definition computes for all inputs are also
  beyond it. No module uses recursion.
- The violation runs are counterexamples, so there is nothing to prove.

## Not modelled

- `test`: one pass-through command.
- The log formatter.
- The logging set-up of `dev.py`.
- The commands whose sources are not in the snapshot: `ci-job`, `clean`,
  `fmt`, `lint`, `run`, `update`, `vet`, and `versions.py`.
- Generated Go sources and CRD bases, and the URLs and version strings that
  installers build. These are data no property distinguishes.

## Plan for later work

1. **Prove the liveness of `setup`'s contract.** Today only the safety part
   of each refinement is stated. Under fairness, an invocation that started
   returns. That stays with TLC, so it needs a run.
2. **Compose `Setup` with `Cluster`.** `generate` and `deploy` need the
   tools that `setup` installs, so a model can check that their steps fail
   when a tool is missing.
3. **Model the log formatter's `%` interpolation** (hazard at
   `formatter.py:25`). This needs messages as short sequences over a small
   alphabet (`%`, a conversion character, other text), checked against the
   standard library's rule of interpolating only when there are arguments.
