# KTIR MLIR frontend: specifications

TLA+ specifications, model-checking configurations and machine-checked proofs kept beside
the KTIR MLIR frontend. Paths below are relative to the repository (`lib/...`,
`scripts/...`); modules are in this directory.

## 1. Inventory

The repository is an MLIR frontend: two dialects (KTDP, SpyreOp), one checking pass, C and
Python bindings, command-line tools, and the scripts and workflows that supply the pinned
MLIR it is built against. Most of it is declarative or a pure function of its input. The
parts that keep state, loop, fail part-way or overlap with others are the checking pass and
the MLIR supply chain; the intricate pure parts are the custom text of the tile operations
and the values that C++, C, Python and text hand to each other.

| Component | State and operations | What is hard | What makes it correct | Status |
|---|---|---|---|---|
| Inter-tile enumeration helpers, `KTDPInterTileHelpers.cpp` | pure: `groupValues`, `tilesOf`, `depTilesOf` from an affine set and symbol values to integers | rounding of bounds, negative groups, order of symbols | returns exactly the points of the set | modelled, proved |
| Inter-tile op and type verifiers, `KTDPOps.cpp` 1226-1341, `KTDPTypes.cpp` 161-174 | pure: accept or reject one op | disjointness is given up when one group is not enumerable | groups are separated | modelled |
| `ktir-check-legality`, `KTIRCheckLegality.cpp` | `failed`, the diagnostics, positions of two walks and of nested loops over groups and consumers | early returns and `continue`s, hash order of consumers, checks split between verifier and pass | diagnoses exactly the illegal ops; accepted modules have isolated groups | modelled, proved |
| MLIR resolution, `scripts/setup_mlir.py` | the cache directory, stdout and the exit status; five sources with fall-through | kills, truncated downloads, overlapping extractions without a lock | what is printed is a usable installation; no silent wheel | modelled, proved |
| LLVM build workflow, `.github/workflows/llvm-build.yml` | release, assets, artifacts; state of the jobs of a run | runs without a concurrency group, checks an hour before their use, clobbering uploads, skipped and cancelled jobs | CI only on published builds; a source at every moment; no artifact refreshed twice | modelled, proved |
| CI workflow, `.github/workflows/ci.yml` | the job that uses the script | store changes between the script's requests | MLIR is resolved | the *Set up MLIR* step |
| Access tile construction, `KTDPOps.cpp` 42-255, 271-523, 552-1041 | pure: build, parse, print, verify; an operation goes through all of them | printer and parser must agree although positions, captured operands and domains are rebuilt on every parse; operands are told apart by name | round trip; a text's subscripts read what it names; builder, parser and verifier fit together | modelled, proved |
| Types and attributes, `KTDPTypes.{cpp,h}`, `KTDPAttrs.{cpp,td}` | values of `access_tile`, `runtime_arg`, `memory_space`; verify, parse, print, C++ Builders, `clone` | items in any order, defaults left out, `get` that verifies only where asserts exist | a held value is verified; a text reads as the value it was printed from | modelled, proved |
| C API and Python bindings, `CAPI/Dialect/KTDP.cpp`, `ktir-c/Dialect/KTDP.h`, `KTIRModule.cpp`, `Utils.h` | constructors and accessors of the same values | absent is `None`, -1 and `nullopt` on the three sides | what is read makes the same value again | values; registration is left out |
| Memory views, load, store, tile id, `runtime_arg_extract`, `KTDPOps.cpp` 1047-1220 | pure: verify, and builders that derive a type | views of views, each op compared with its neighbours only; builder and verifier written apart | composed views agree at any depth; what is extracted exists; builders fit verifiers | modelled, proved |
| SpyreOp dialect, `SpyreOpOps.cpp`, `SpyreOp.td` | pure: result-type inference of the fused ops | two switches that must be inverses | scaling gives back the float that was fused | the inferences; the rest are declarations |
| Inter-tile runtime, `docs/inter-tile-communication.md` | described only | barriers, deadlock | - | no code in the repository |
| Tools, CMake, packaging | registration, build rules | - | - | not modelled |

**Interactions.** `ktir-opt` runs the op verifiers over a module and then the pass, which
calls the helpers and relies on what the verifiers of `inter_tile_produce` have
established. `llvm-build.yml` publishes builds that `setup_mlir.py` fetches; its
`trigger-ci` job starts the CI that calls the script. Script and workflow share only what
is at GitHub: the assets of the release and the Actions artifacts. A value of a type or an
attribute wanders between text, Python, C and C++ and ends up in the types of a function's
arguments and operations, whose verifiers rely on what the value's own verifier demands.

## 2. Modules

```
InterTileHelpers <- InterTileOps <- KTIRCheckLegality <- EnumeratedTiles <- KTIRCheckLegalityProofs
                                      | refines
                                    LegalityOracle
LlvmBuild <- LlvmBuildProofs --.
CIJob <- MlirSupply            |
      <------------------------'-- MlirSupplyProofs (INSTANCE of MlirSupply)
MlirSupply (INSTANCE of LlvmBuild and SetupMlir)
SetupMlir <- SetupMlirProofs
SSAText <- AccessTile         --.
        <- IndirectAccessTile --'-- TileText (INSTANCE of both) <- TileTextProofs
KTDPTypes <- KTDPValues ---.
          <- KTDPOperations -'-- KTDPProgram
KTDPValues <- KTDPValuesProofs --.
KTDPProgram ----------------------'-- KTDPProgramProofs
EnumerationLemmas <- KTIRCheckLegalityProofs, KTDPProgramProofs, TileTextProofs
```

**InterTileHelpers.** An affine set is a set of constraints over one dimension and up to
two symbols. `HasUpperBound`, `UpperBound` stand for `getConstantBound64`, which the code
uses and the repository does not hold; `groupValues`, `tilesOf`, `depTilesOf` are the three
functions. Left out: sets with `mod` or `floordiv`, equalities with a coefficient other
than 1 or -1, and 64-bit overflow in the enumeration. A set has finitely many constraints and
is arbitrary otherwise.

**EnumeratedTiles.** What the pass takes the helpers for, as properties of the module it
looks at. `Window` and `SymbolValues` are the points and the symbols at which a result is
compared with its set: what is looked at, not bounds of the helpers.

**InterTileOps.** A module is a sequence of ops in walk order; a reduce names the position
of the produce that defines its future, or 0 for a block argument. `ProduceVerified` and
`ReduceVerified` are the verifiers, region verifiers and type traits. `ModeLegal`,
`DepsLegal`, `OpLegal` say what legality means without any loop.

**KTIRCheckLegality.** One step per iteration of the innermost loop of the pass.

| Action | Code |
|---|---|
| `VerifyOp`, `VerifierDone` | MLIR's verifier, which runs before the pass and stops at the first bad op it meets |
| `Convert` | `applyPartialConversion` with no patterns (63-74) |
| `CheckUse`, `ProducesDone` | the walk over `inter_tile_produce` (78-83) |
| `Skip`, `Enter` | the early returns of the reduce callback (88-98) |
| `CheckMode` | one group: subset check and mode gate (100-128) |
| `ModesDone` | the dependency attribute and its symbols (130-140) |
| `NextDepGroup`, `CheckConsumer`, `CheckCoverage`, `DepsDone` | the dependency loop (142-174) |
| `Finish` | `signalPassFailure` (177) |

Groups are visited in ascending order (a vector), consumers in any order (a `DenseSet`).
`LegalityOracle` is the abstract specification: one step from "none" to "invalid", "fail"
or "pass", on a module that does not change.

**SetupMlir.** Any number of overlapping invocations, each with its command line, over one
cache directory. `pc` follows `main` (306-442); `dir` is what `_mlir_dir_from_cache` looks
at, `whole` the set of archive members that are completely written, `intact` how much of
the archive arrived. An archive is extracted member by member, and opening a member
truncates what another extraction left there. `cutShort` records that some extraction
ended early. `StoreChanges` is the outside world: builds appear and disappear at any time.

**LlvmBuild.** Runs of the workflow with their event and the state of each job.
`create-release` looks and then creates; the `build` jobs check the asset, check the
artifact, build, delete and upload the asset (`--clobber` is two steps), upload the
artifact; a failing platform cancels the others (`fail-fast`); `trigger-ci` needs all of
them; the `refresh` jobs find, download, re-upload and delete. The re-upload takes its name
from a step the job does not have, so it stores nothing. `get-hash` may fail, which skips all
the rest. `CancelRun` is a run cancelled by hand, at any point up to `trigger-ci`: jobs under
way stop between two steps or in the middle of a clobber, jobs that wait are skipped. A job
whose `needs` or `if` is not met is skipped too, as GitHub does; nothing ever waits for it.

**MlirSupply.** Both together: `Workflow` is an instance of `LlvmBuild` and `Script` one of
`SetupMlir`, whose `asset` and `artifact` are what the workflow has at GitHub. The CI job
starts once a run has triggered it. `CIJob` holds what both this module and its proofs
say of the job: its variables, its command line, and the property that it resolves MLIR.

**SSAText, AccessTile, IndirectAccessTile.** The text of `construct_access_tile` and
`construct_indirect_access_tile`. A token is an SSA id with its result number; an affine
map keeps, for every result, the sequence of the inputs it reads, since the rest of the
expression goes through unchanged; a view stands for a memref or tensor and its type is its
rank; sets and orders are their numbers of dimensions, symbols and results.
`SSAText` models how MLIR prints a map over its operands and reads it back (external), down to
a result number behind an id that was already read, which is a syntax error there.
The other two have an operator per hook: `MayBuild` (the asserts), `Built`, `Verified`,
`Printed`, `Parses`, `Parsed`, with `collectExclusiveCapturedVariables`,
`fillCapturedVariables` and `Canonical` for the helpers that renumber the subscripts.
`Meaning` is what an operation says whatever its positions, for the properties.

**TileText.** One operation on its way: a pass builds it (a failing assert aborts, or does
not exist in a build without asserts) or a user writes a text; `Parse`, `Verify` and
`PrintOut` follow each other as in `ktir-opt | ktir-opt`. `printed` remembers the operation
that the text was printed from. Its constants are any names, as long as distinct values and
arguments have distinct ones (`NamesAssumption`, `ArgumentNamesAssumption`: MLIR's printer
sees to that), any ranks of views, and any well-typed builder arguments and user's texts
(`ViewsAssumption`, `InputsAssumption`).

**KTDPTypes, KTDPValues.** `KTDPTypes` holds the pure part of the three kinds of value:
`Verified` stands for the three `verify`, `Printed`, `Parses` and `Parsed`
are `print` and `parse`, and the operators named `mlir...` and `Py...` are the C functions
and the lambdas of `KTIRModule.cpp`. A text is a record of what the parser distinguishes: a
`runtime_arg` is a sequence of items `key=value`, a dimension is present or `?`. `KTDPValues`
lets a program hold one value and do anything to it, in any order and any number of times.

| Action | Code |
|---|---|
| `Get`, `GetChecked` (parts of the others) | MLIR's two constructors: `get` asserts the verifier, so a build without asserts keeps any value; `getChecked` refuses |
| `Write`, `Parse`, `PrintOut` | a user's text; `parse`, ending in `getChecked`; `print` |
| `PyGetTile`, `PyGetArg`, `PyGetSpace`, `PyGetSpaceUnchecked` | the Python class methods `get` and `get_unchecked` over the C functions; the enum caster accepts any integer, whose `unwrap` is then unreachable |
| `PyCopy` | a value made again from the properties Python reads of it |
| `StartBuilder`, `SetTile`, `DropDim`, `InsertDim`, `SetArg`, `Convert` | the C++ Builders and their conversion |
| `Clone` | `clone`, `cloneWith` |

`original` remembers what a text or a copy was made from, for the properties.

**KTDPOperations, KTDPProgram.** `KTDPOperations` has the verifiers and the builders that
derive a type, and SpyreOp's inference. `KTDPProgram` takes the value that `KTDPValues` has
made into a function: `Start` gives its arguments, then one action per operation appends it,
once with any type that a text states and once with the type its builder derives (`Load`
and `LoadBuilt`, `Fused` and `FusedBuilt`, the `built` of `RuntimeArgExtract`).
`verdict` ends the function at the first operation that is refused. `leaves` records the
views that a view is composed of in the end, for `PartsAgree`.

## 3. What the runs check

| Run | Instance | Shows |
|---|---|---|
| `legality` | 1024 modules with one future in every combination of 4 group, 4 producer, 8 consumer sets and 8 dependency attributes; 432 with two futures, other uses, block-argument futures and foreign dialects; 11 malformed ones; 210 with stretched sets, whose bounds need rounding. The helpers for every pair of constraints with coefficients in -2..3 and offsets in -3..4, groups 0..4 | `DiagnosedExactly`, `FailedIffDiagnosed`, `OneErrorPerOp`, `ErrorNamesFirstGroup`, `AcceptedGroupsAreIsolated`, `Terminates`, and that the pass implements `LegalityOracle`; `GroupValuesExact`, `TilesOfExact`, `DepTilesOfExact`: the enumerations return exactly the points of a set |
| `setup` | two overlapping invocations, restarted any number of times, six command lines, an archive of three members of which the second creates `lib/cmake/mlir` | `PartialOnlyIfCutShort`, `PrintsIffSucceeds`, `WheelOnlyOnRequest`, `DryRunWritesNothing` |
| `llvm_build` | two overlapping runs, two platforms, pushes and pull requests | `SuccessMeansPublished`, `UploadsFindRelease`, `CIHasBuilds`, `AlwaysASource` |
| `llvm_refresh` | two runs, one platform, all events, artifacts that expire | `RefreshedOnce`: no artifact is refreshed by two runs |
| `supply` | two runs, one platform, one CI job, no faults | `TriggeredCIResolves`, `TriggeredCIEnds` |
| `tile_text` | two values, five views of rank 0 to 2, operations with up to two captured and one or two intermediate variables, of every small shape, built wrongly or rightly; texts with missing attributes, unknown ids, symbols, repeated intermediate names | `TypeOK`, `PrintedTextReads`, `RoundTrip`, `PrintStaysInBounds`, `SubscriptsReadWhatTheyName`, `CapturesEveryValue`, `ParserBuildsWhatVerifierExpects` |
| `program` | texts of up to two dimensions or items with right and wrong keywords, signs and element types; shapes of rank 0 to 3; integers -5, -1, 0, 3; kinds 0, 1 and the invalid 7; eleven functions of up to five arguments and operations; with and without asserts: over a million states | `HeldIsVerified`, `TextIsFaithful`, `AccessorsMirrorValue`, `PartsAgree`, `DynamicPartsHaveOperands`, `ExtractionFindsConstraint`, `BuildersFitVerifiers`, `ScalingUndoesFusing` |

Why the bounds are enough. The pass looks at one op, one group and one pair of a consumer
and its dependencies at a time; two groups with an overlap, three tiles and two deliveries
reach every branch and every order of errors, and the theorems of section 4 hold for all
modules. Two invocations are the fewest that disturb each other's extraction, and three
members have one before, one at and one after the directory the lookup asks for; the
theorems hold for any number. Two captured values and two subscripts are the fewest that
can be exchanged, merged, repeated or left unused. -1 and -5 tell the sentinel of the C API
from any other negative integer, 0 the boundary of every check, and two items the order and
the repetition of keywords; `MaxRank`, the rank a Builder may reach, is 3, one more than any
text has; `MaxOps` is 5, the length of an argument, a view, a view of views of it, a tile
and a load, and more than fusing and scaling need. Two runs of the workflow are the fewest
that race for a release, an asset or an artifact; two platforms the fewest that `fail-fast`
and the refresh can separate. With two platforms and schedules the state space is beyond a few
minutes, so schedules are checked on one platform: a refresh job looks at its own platform only
and, with `fail-fast: false`, its failure cancels no other.

Five runs refute what the documentation or the code's own comments say:

| Run | Statement | What happens |
|---|---|---|
| `unknown_dialect` | `Passes.td`: "static op/dialect constraints via ConversionTarget" | the partial conversion only records an op of an unknown dialect in a set nobody reads; the module passes |
| `store_type` | `KTDP.td` 648: "The destination element type must match the element type of the data tile" | a tile has element type `index` whatever its view holds, and the verifier compares shapes only: f32 data is stored into an f16 view |
| `cache_hit` | `setup_mlir.py`: "Return MLIR_DIR if the artifact is already cached" | an extraction cut off past the first member under `lib/cmake/mlir` is a cache hit for ever |
| `refresh_loses` | `ci.md`: the refresh "downloads the existing artifact zip and re-uploads it" | the re-upload matches no file and warns, then the artifact is deleted |
| `multi_result` | `KTDPOps.cpp` 268: "ordered list of unique Values that are" in the operands and not intermediate | of `%id#0` and `%id#1` in two subscripts the parser captures the first and reads it twice, so a verified operation prints as the text of another one |

Further divergences met while modelling, which are not runs: `setup_mlir.py` line 22 and
`docs/ci.md` line 21 fall back to the wheel without a hash file, the code exits (346-351);
`docs/ci.md` lines 72 and 144 let the schedule drive the refresh only and never CI, but neither
the `if` of `build` nor the `needs` of `trigger-ci` looks at the event, so a scheduled run
builds, publishes and triggers CI; the design document's dependency set `(p)[c]` (lines 190,
985) is rejected for its number of symbols; its section on reduce-to-subset calls it supported,
the mode gate rejects it; a future's one use may be any op, not only a delivery; the purity of
the combiner is not checked; an empty consumer set is reported as "more than one tile";
`construct_access_tile`'s builder asserts that the set has as many dimensions as the base map
has inputs (48), its parser and verifier compare the results (129, 204) although the message
speaks of the base input dimensions, so `%v[%c0, %c0]`, one input and two results, cannot be
built but is what every test parses; `verify` accepts a subscript map with symbols, over which
`print` reads past its operands (`PrintStaysInBounds` names this exception). The subset
invariant of `inter-tile-communication.md` 388 ("Referencing a non-producer tile is a verifier
error") holds for tiles from 0 on only, since `depTilesOf` never enumerates negative ones
(`DepTilesOfExact` says so). `load` takes any element type although `KTDP.td` 603-604 says it
"matches the source element type"; the coordinate sets of the views are not compared with
`sizes`; the grammar of `runtime_arg` (`KTDPTypes.td` 145-146) fixes an order of its items, the
parser takes any; Python's `granularity=-5` is dropped silently and `granularity=0` is refused
only where asserts are; the enum caster of `Utils.h` takes any integer for a kind; a
`access_tile_set` that is present but of another attribute kind is dereferenced as a null
(`KTDPOps.cpp` 126).

**Fairness.** `KTIRCheckLegality!FairSpec` is weak fairness of the whole next-state relation: a
pass is a loop nobody interrupts. `MlirSupply!FairSpec` is weak fairness of the runner of the CI
job: it starts a job that was triggered and goes on with its steps, up to the job's time limit.
`LlvmBuild` and `SetupMlir` are checked without fairness. Deadlock is checked in `SetupMlir`,
where an invocation can always be started; the other systems really stop. `TileText` has no
liveness: it is a pipeline that ends in an error, an abort or a fixed point. `KTDPProgram` has
none either: what a program does with a value is its own choice.

## 4. What is proved

TLAPS proves these for every value of the constants.

*KTIRCheckLegalityProofs*, from `TypesAssumption` and `ProgramsAssumption` (programs are
well-formed modules): `TypeCorrect`, `DiagnosesExactly`, `FailsIffDiagnosed`, `OneErrorEach`,
`ErrorsNameFirstGroup`, `GroupsAreIsolated`, `ImplementsTheOracle`. `DiagnosedExactly` is not
inductive: it speaks of the end only. `IInv` has a conjunct per loop. `InvWalks` says that
the walks have diagnosed exactly the illegal ops behind `cursor`; to keep it, `InvGroups`
says that inside a callback the groups behind are legal, in the mode loop and then in the
dependency loop; and `InvConsumers` that `covered` is the union of the dependencies of the
consumers visited so far and lies within the producers, so that the coverage test decides
`DepsLegal`. `InvLog` adds, for `OneErrorPerOp`, which positions can have an error yet. An
error names the first group at fault because `InvGroups` knows every group behind to be
legal. `GroupsAreIsolated` combines the verifier's disjointness with the pass's subset check.
The refinement maps the verdict to `phase` and `failed`.

The same module proves, with `WindowAssumption`, that the enumerations are exact:
`GroupValuesAreExact`, `TilesOfIsExact` and `DepTilesOfIsExact`, for sets of any finite number
of constraints with any coefficients of the modelled kind. A tile of the set lies within the
bounds, since each rounded quotient bounds the solutions of its own constraint, and the code
takes the least of them; that a finite set of integers has a least element is an induction
over its size (`MinOfValues` of `EnumerationLemmas`). The library states induction for an
operator, which the provers cannot instantiate; `EnumerationLemmas` states it for a set of
numbers (`NatSetInduction`), and from it what the other modules need of counting and
choosing.

*SetupMlirProofs*, from `MembersAssumption` and `ArgumentsAssumption`, for any number of
overlapping invocations, members and command lines: `TypeCorrect`, `PartialTrees`,
`OutputAndStatus`, `WheelOnRequest`, `DryRunIsReadOnly`. `PartialOnlyIfCutShort` is not
inductive: it says nothing while somebody extracts. `InvExtraction` says that an
extraction has, for every member up to its position, a complete copy or somebody who is
writing that member right now; the last one to leave then leaves everything complete.
`DryRunWritesNothing` and `PrintsIffSucceeds` rest on `InvDry`: a dry invocation never
reaches a download or the extraction.

*LlvmBuildProofs*, from `EventsAssumption` and `PlatformsAssumption`, for any number of
overlapping runs and platforms, any events: `TypeCorrect`, `UploadsFindReleaseHolds`,
`SuccessMeansPublishedHolds`, `CIHasBuildsHolds`, `AlwaysASourceHolds`, `RefreshedOnceHolds`.
The invariant is `TypeOK` and five parts. `JobsInOrder` ties the jobs of a run together:
`create-release` is skipped on pull requests or with the whole run, a build that does anything
comes after a `create-release` that neither failed nor was cancelled, a refresh runs on a
schedule only. `SeenArePublished` strengthens
`SuccessMeansPublished` to assets a job has only seen, since it is on this answer, by then an
hour old, that the job later skips its upload. `SeenAreStored` does the same for artifacts
while nothing deletes them, and `TriggeredSucceeded` remembers what `trigger-ci` looked at.
`DeletedAreGone` says that an artifact that exists, or was found by a refresh, is the work of a
build job that ended well, and that a deleted one never comes back: a job uploads once.
Relative to it `RefreshedOnce` is inductive: a second deletion of an id finds nothing.

*MlirSupplyProofs*: `TriggeredCIResolvesHolds`, under the conditions its property names: no
faults, no expiry, no schedules. A lemma carries the invariants of `LlvmBuild` over to the
composition, whose steps are the workflow's or leave it alone. The module's own invariant says
that the script only runs for a triggered run; `TriggeredSucceeded` and `SeenAreStored` then
give an artifact to fall back to at every later moment, whatever happens to the asset.

*KTDPValuesProofs* and *KTDPProgramProofs*, from `TypesAssumption`, `ArgumentsAssumption`,
`FloatsAssumption` and `SignaturesAssumption`, for all texts, shapes, integers, functions and
bounds. Pure facts first: `RoundTrip` (a printed value reads as itself, and fails to read
only where it is not verified), `PyArgRoundTrip`, `PySpaceRoundTrip`. Then `HeldIsVerified`,
`TextIsFaithful` and `AccessorsMirrorValue` of every program: `ValuesInv` adds
`OriginalKept`, that between a print and the parse of it the text still is the original's,
and that every other step has forgotten the original. For the functions, `OpsInv` says what
each accepted operation was accepted for, over the types as they were then, which appending
does not change (`TypesKept`). `LeavesAgree` carries the agreement of views through any
depth of composition, `RuntimeArgsAreTheValue` brings the verifier of the value to the
extraction, and `ScalingUndoesFusingHolds` combines two accepted operations with
`InferencesInverse`. The theorems are `TypeCorrect`, and those named after
`PartsAgree`, `DynamicPartsHaveOperands`, `ExtractionFindsConstraint`, `ScalingUndoesFusing`
and `BuildersFitVerifiers`. `DynamicPartsHaveOperands` is about counting: the verifier compares
numbers, the property says that the n-th dynamic entry and the n-th operand belong together;
`RanksCount` shows that the ranks of the members of a finite set are 1, 2, ... up to its size.

*TileTextProofs*, from the four assumptions of `TileText`, for any maps, operand lists, views,
names, builder arguments and texts: `TypeCorrect`, `PrinterInBounds`,
`ParserAgreesWithVerifier`, `SubscriptsReadTheirNames`, `ParserCapturesEveryValue`,
`PrintedTextIsRead` and `RoundTripKeepsMeaning`. None of the properties is inductive: each
relates an operation to the text or the operation it came from. `History` says where things
come from at every stage: an operation after a text is what that text parses to, a text
after an operation is what that operation prints as, and what was printed had been verified
and printed within bounds. All else is then a fact about the operators. The order in which
the parser collects operands (flattening the subscripts, dropping the intermediate ones and
repetitions) is characterised first; so a subscript's new position holds the operand that it
named. For the round trip, the positions of the verified operation and of the one parsed from
its text are related by name (`WellRead`), and distinct values have distinct names.

Two hypotheses are conditions of the properties, not of the model. `SingleResults`: every value
is the only result of its operation. The parser tells operands apart by their ids alone, so
without it operations change their meaning, as run `multi_result` shows. `PlainPrograms`, for
the two theorems about subscripts: a user's text has no result numbers either. The constants
of `tile_text` satisfy both.
`TypeCorrect`, `PrinterInBounds` and `ParserAgreesWithVerifier` need neither.

Every invariant and every action property of the runs that pass has a theorem. Only
model-checked is liveness (`Terminates`, `TriggeredCIEnds`): fairness is out of the
prover's reach. The theorems are about the models: mathematical integers, and the external
definitions of MLIR and GitHub as the map lists them.

## 5. Plan

1. Done, with proofs: helpers, verifiers, pass and oracle.
2. Done, with proofs: script, workflow and their composition.
3. Done, with proofs: the text of the access tile operations and their way through the tools.
4. Done, with proofs: `access_tile`, `runtime_arg` and `memory_space` in text, C++, C and
   Python.
5. Done, with proofs: views, load, store, extraction and SpyreOp's inferences in functions.
6. Left: sets with `mod` and `floordiv` and 64-bit overflow in the helpers; that `SetupMlir`
   implements a one-answer resolver.

## 6. Not modelled

- Inter-tile runtime: `docs/inter-tile-communication.md` describes how tiles produce, wait
  and reduce, but nothing under `lib/` does it; only its verifiers and the pass exist.
- SpyreOp's other operations: declarations in `SpyreOp.td` with generated code; its types and
  attributes have no verifier and no text of their own.
- Of the C API and the Python module, the registration of dialects and passes: calls that
  hand over to MLIR once, at load time.
- Of the CI workflow, everything after *Set up MLIR*: it builds and runs the tests.
- Tools, CMake and packaging: option parsing and registration handed to MLIR, and
  declarative build rules.
- Generated accessors, pure syntax errors, attributes of the wrong kind, and what MLIR itself
  does beyond the external definitions named in the map of `PROJECT.json`.
- Bounds of an enumeration near 2^63 (`KTDPInterTileHelpers.cpp` 59), where the verifier in
  effect does not end: the model's integers are mathematical and its sets small.
