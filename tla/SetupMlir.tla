----------------------------- MODULE SetupMlir -----------------------------
(***************************************************************************)
(* scripts/setup_mlir.py: resolving the pinned MLIR installation for one   *)
(* platform.  Invocations share the cache directory                        *)
(* ~/.cache/ktir-mlir/<artifact-name> and the two places a build is        *)
(* published at: the release asset, which anyone can fetch, and the Actions*)
(* artifact, which needs a token.                                          *)
(*                                                                         *)
(* A tarball is extracted in place, member by member, in archive order.    *)
(* Member MlirMember is the first under lib/cmake/mlir, the directory that *)
(* the cache lookup asks for.  A download that is cut off is noticed only  *)
(* when the extraction reaches the missing bytes.                          *)
(***************************************************************************)
EXTENDS Naturals

CONSTANTS Procs,        \* invocations that may overlap
          Arguments,    \* the command lines and environments of an invocation
          Members,      \* number of members of the tarball
          MlirMember,   \* the member that creates lib/cmake/mlir
          Faults        \* requests, writes and invocations may fail by themselves

ASSUME FaultsAssumption == Faults \in BOOLEAN
ASSUME MembersAssumption == Members \in Nat /\ MlirMember \in 1 .. Members

\* hash: --hash or cmake/llvm-hash.txt gives one; repo: --repo or the git remote does;
\* supported: detect_os_arch knows the platform.
CommandLine == [wheel : BOOLEAN, dry : BOOLEAN, hash : BOOLEAN,
                supported : BOOLEAN, repo : BOOLEAN, token : BOOLEAN]

ASSUME ArgumentsAssumption == Arguments \subseteq CommandLine

VARIABLES
  pc, args,     \* where an invocation is, and how it was called
  source,       \* what it is extracting: the release asset or the artifact
  intact,       \* members of its downloaded tarball before the cut, if any
  at,           \* the member it is writing
  exit, out,    \* its exit status and what it printed to stdout
  dir,          \* the cache holds lib/cmake/mlir
  whole,        \* members of the cache tree that are completely written
  cutShort,     \* some extraction into the cache has ended early
  asset,        \* the release asset can be fetched
  artifact      \* the Actions artifact can be fetched

cache == <<dir, whole, cutShort>>
store == <<asset, artifact>>
run == <<pc, args, source, intact, at, exit, out>>
vars == <<run, cache, store>>

Stages == {"idle", "main", "cache", "repo", "release", "fetch release",
           "token", "query", "fetch artifact", "extract", "end"}

TypeOK ==
  /\ pc \in [Procs -> Stages]
  /\ args \in [Procs -> CommandLine]
  /\ source \in [Procs -> {"release", "artifact"}]
  /\ intact \in [Procs -> 0 .. Members]
  /\ at \in [Procs -> 0 .. Members]
  /\ exit \in [Procs -> {"none", "ok", "error", "killed"}]
  /\ out \in [Procs -> {"none", "cache", "wheel"}]
  /\ dir \in BOOLEAN /\ whole \in SUBSET (1 .. Members) /\ cutShort \in BOOLEAN
  /\ asset \in BOOLEAN /\ artifact \in BOOLEAN

Init ==
  /\ pc = [p \in Procs |-> "idle"]
  /\ args \in [Procs -> Arguments]
  /\ source = [p \in Procs |-> "release"]
  /\ intact = [p \in Procs |-> 0]
  /\ at = [p \in Procs |-> 0]
  /\ exit = [p \in Procs |-> "none"]
  /\ out = [p \in Procs |-> "none"]
  /\ dir = FALSE /\ whole = {} /\ cutShort = FALSE
  /\ asset \in BOOLEAN /\ artifact \in BOOLEAN

Extracting(p) == pc[p] = "extract"
Complete == whole = 1 .. Members

\* Go on to another stage; end with a status and an output.
Goto(p, stage) == pc' = [pc EXCEPT ![p] = stage] /\ UNCHANGED <<exit, out>>

End(p, status, printed) ==
  /\ pc' = [pc EXCEPT ![p] = "end"]
  /\ exit' = [exit EXCEPT ![p] = status]
  /\ out' = [out EXCEPT ![p] = printed]

Fail(p) == End(p, "error", "none")
Available(p) == End(p, "ok", "none")

----------------------------------------------------------------------------
\* An invocation is started, with new arguments when it is not the first.
Start(p) ==
  /\ pc[p] \in {"idle", "end"}
  /\ pc' = [pc EXCEPT ![p] = "main"]
  /\ \E a \in Arguments : args' = [args EXCEPT ![p] = a]
  /\ source' = [source EXCEPT ![p] = "release"]
  /\ intact' = [intact EXCEPT ![p] = 0]
  /\ at' = [at EXCEPT ![p] = 0]
  /\ exit' = [exit EXCEPT ![p] = "none"]
  /\ out' = [out EXCEPT ![p] = "none"]
  /\ UNCHANGED <<cache, store>>

\* Path 1, --wheel: install_mlir_wheel may fail in uv.
ForcedWheel(p) ==
  /\ pc[p] = "main" /\ args[p].wheel
  /\ \/ args[p].dry /\ Available(p)
     \/ ~args[p].dry /\ (End(p, "ok", "wheel") \/ (Faults /\ Fail(p)))
  /\ UNCHANGED <<args, source, intact, at, cache, store>>

\* Mutant: without a hash the wheel is installed.
ResolveHashOrWheel(p) ==
  /\ pc[p] = "main" /\ ~args[p].wheel
  /\ \/ ~args[p].hash /\ ~args[p].dry /\ End(p, "ok", "wheel")
     \/ args[p].hash /\ Goto(p, "cache")
  /\ UNCHANGED <<args, source, intact, at, cache, store>>

\* Path 2: the hash names the artifact of this platform.
ResolveHash(p) ==
  /\ pc[p] = "main" /\ ~args[p].wheel
  /\ \/ ~(args[p].hash /\ args[p].supported) /\ Fail(p)
     \/ args[p].hash /\ args[p].supported /\ Goto(p, "cache")
  /\ UNCHANGED <<args, source, intact, at, cache, store>>

\* Path 3: the lookup asks for the directory and for nothing in it.
LookupCache(p) ==
  /\ pc[p] = "cache"
  /\ \/ dir /\ args[p].dry /\ Available(p)
     \/ dir /\ ~args[p].dry /\ End(p, "ok", "cache")
     \/ ~dir /\ Goto(p, "repo")
  /\ UNCHANGED <<args, source, intact, at, cache, store>>

ResolveRepo(p) ==
  /\ pc[p] = "repo"
  /\ \/ ~args[p].repo /\ Fail(p)
     \/ args[p].repo /\ Goto(p, "release")
  /\ UNCHANGED <<args, source, intact, at, cache, store>>

\* Mutant: --dry-run is not looked at.
CheckReleaseAlways(p) ==
  /\ pc[p] = "release"
  /\ \/ asset /\ Goto(p, "fetch release")
     \/ Goto(p, "token")
  /\ UNCHANGED <<args, source, intact, at, cache, store>>

\* Path 4: a HEAD request.  Any HTTP or URL error counts as absent; another exception,
\* as of a connection that closes without an answer, ends the script.
CheckRelease(p) ==
  /\ pc[p] = "release"
  /\ \/ asset /\ args[p].dry /\ Available(p)
     \/ asset /\ ~args[p].dry /\ Goto(p, "fetch release")
     \/ (Faults \/ ~asset) /\ Goto(p, "token")
     \/ Faults /\ Fail(p)
  /\ UNCHANGED <<args, source, intact, at, cache, store>>

\* A body that was received, cut off anywhere or not at all, is unpacked.
Received(p, from) ==
  /\ Goto(p, "extract")
  /\ source' = [source EXCEPT ![p] = from]
  /\ \E k \in (IF Faults THEN 0 .. Members ELSE {Members}) : intact' = [intact EXCEPT ![p] = k]
  /\ at' = [at EXCEPT ![p] = 0]
  /\ UNCHANGED args

\* Mutant: a failing download ends the script.
FetchReleaseOrExit(p) ==
  /\ pc[p] = "fetch release"
  /\ \/ asset /\ Received(p, "release")
     \/ (Faults \/ ~asset) /\ Fail(p) /\ UNCHANGED <<args, source, intact, at>>
  /\ UNCHANGED <<cache, store>>

\* Mutant: the download is tried again until it works.
FetchReleaseRetry(p) ==
  /\ pc[p] = "fetch release"
  /\ \/ asset /\ Received(p, "release")
     \/ (Faults \/ ~asset) /\ Goto(p, "fetch release") /\ UNCHANGED <<args, source, intact, at>>
  /\ UNCHANGED <<cache, store>>

\* The download of the release asset; any exception falls back to the artifact.
FetchRelease(p) ==
  /\ pc[p] = "fetch release"
  /\ \/ asset /\ Received(p, "release")
     \/ (Faults \/ ~asset) /\ Goto(p, "token") /\ UNCHANGED <<args, source, intact, at>>
  /\ UNCHANGED <<cache, store>>

\* Path 5: the artifact API needs a token.
CheckToken(p) ==
  /\ pc[p] = "token"
  /\ \/ ~args[p].token /\ Fail(p)
     \/ args[p].token /\ Goto(p, "query")
  /\ UNCHANGED <<args, source, intact, at, cache, store>>

\* query_artifact_id: an error of the API is an artifact that does not exist.
QueryArtifact(p) ==
  /\ pc[p] = "query"
  /\ \/ (Faults \/ ~artifact) /\ Fail(p)
     \/ artifact /\ args[p].dry /\ Available(p)
     \/ artifact /\ ~args[p].dry /\ Goto(p, "fetch artifact")
  /\ UNCHANGED <<args, source, intact, at, cache, store>>

\* Mutant: a failing download is logged and the script goes on to its end.
FetchArtifactSilent(p) ==
  /\ pc[p] = "fetch artifact"
  /\ \/ artifact /\ Received(p, "artifact")
     \/ Available(p) /\ UNCHANGED <<args, source, intact, at>>
  /\ UNCHANGED <<cache, store>>

\* Downloading the zip and taking the tarball out of it may raise.  A zip that is cut
\* off does not open; the tarball inside is what was published.
FetchArtifact(p) ==
  /\ pc[p] = "fetch artifact"
  /\ \/ artifact /\ Received(p, "artifact") /\ intact'[p] = Members
     \/ (Faults \/ ~artifact) /\ Fail(p) /\ UNCHANGED <<args, source, intact, at>>
  /\ UNCHANGED <<cache, store>>

----------------------------------------------------------------------------
\* Mutant: a member past the last one is opened.
WriteMemberPastEnd(p) ==
  /\ Extracting(p) /\ at[p] <= intact[p]
  /\ at' = [at EXCEPT ![p] = @ + 1]
  /\ whole' = (whole \cup ({at[p]} \ {0})) \ {at[p] + 1}
  /\ dir' = (dir \/ at[p] + 1 >= MlirMember)
  /\ UNCHANGED <<pc, args, source, intact, exit, out, cutShort, store>>

\* extractall: finish the member being written and open the next one, truncating
\* what an earlier extraction left there.
WriteMember(p) ==
  /\ Extracting(p) /\ at[p] <= intact[p] /\ at[p] < Members
  /\ at' = [at EXCEPT ![p] = @ + 1]
  /\ LET finished == IF \E q \in Procs \ {p} : Extracting(q) /\ at[q] = at[p]
                       THEN {} ELSE {at[p]} \ {0}
     IN  whole' = (whole \cup finished) \ {at[p] + 1}
  /\ dir' = (dir \/ at[p] + 1 >= MlirMember)
  /\ UNCHANGED <<pc, args, source, intact, exit, out, cutShort, store>>

\* Mutant: the end of the received bytes is taken for the end of the archive.
ExtractedUnchecked(p) ==
  /\ Extracting(p) /\ at[p] > 0 /\ (at[p] = Members \/ at[p] > intact[p])
  /\ whole' = whole \cup {at[p]}
  /\ IF dir THEN End(p, "ok", "cache") ELSE Fail(p)
  /\ UNCHANGED <<args, source, intact, at, dir, cutShort, store>>

\* The last member is written: the directory is there, so its path is printed.
Extracted(p) ==
  /\ Extracting(p) /\ at[p] = Members /\ at[p] <= intact[p]
  /\ whole' = IF \E q \in Procs \ {p} : Extracting(q) /\ at[q] = at[p]
                THEN whole ELSE whole \cup {at[p]}
  /\ End(p, "ok", "cache")
  /\ UNCHANGED <<args, source, intact, at, dir, cutShort, store>>

\* extractall raises: the bytes end too early or the disk is full.  The tree stays as
\* it is; after a release asset the artifact is tried.
ExtractFails(p) ==
  /\ Faults /\ Extracting(p)
  /\ cutShort' = TRUE
  /\ \/ source[p] = "release" /\ Goto(p, "token")
     \/ source[p] = "artifact" /\ Fail(p)
  /\ UNCHANGED <<args, source, intact, at, dir, whole, store>>

\* The invocation is interrupted or killed.
Kill(p) ==
  /\ Faults /\ pc[p] \notin {"idle", "end"}
  /\ End(p, "killed", "none")
  /\ cutShort' = (cutShort \/ Extracting(p))
  /\ UNCHANGED <<args, source, intact, at, dir, whole, store>>

\* Builds are published, deleted and expire.
StoreChanges ==
  /\ asset' \in BOOLEAN /\ artifact' \in BOOLEAN
  /\ UNCHANGED <<run, cache>>

Step(p) ==
  \/ Start(p) \/ ForcedWheel(p) \/ ResolveHash(p) \/ LookupCache(p) \/ ResolveRepo(p)
  \/ CheckRelease(p) \/ FetchRelease(p)
  \/ CheckToken(p) \/ QueryArtifact(p) \/ FetchArtifact(p)
  \/ WriteMember(p) \/ Extracted(p) \/ ExtractFails(p) \/ Kill(p)

Next == StoreChanges \/ \E p \in Procs : Step(p)

Spec == Init /\ [][Next]_vars

----------------------------------------------------------------------------
\* As long as no extraction was cut short, a directory that the lookup finds belongs
\* to a complete tree, unless it is being written right now; overlapping invocations
\* that rewrite each other's members do not leave a torn one (_extract_tar_to_cache).
PartialOnlyIfCutShort ==
  dir /\ ~cutShort /\ (\A p \in Procs : ~Extracting(p)) => Complete

\* MLIR_DIR=$(setup_mlir.py) gets a directory exactly from the invocations that
\* succeed and are not dry: no path ends with status 0 and an empty output, or prints
\* and then fails (main).
PrintsIffSucceeds ==
  \A p \in Procs : pc[p] = "end" =>
    (out[p] # "none" <=> exit[p] = "ok" /\ ~args[p].dry)

\* The bleeding-edge wheel is never a silent substitute for the pinned build, whatever
\* fails on the way to it (main's exits; the module docstring's 2d).
WheelOnlyOnRequest == \A p \in Procs : out[p] = "wheel" => args[p].wheel

\* A dry run leaves the cache alone, whatever it finds and whatever else runs
\* (main's --dry-run returns).
DryRunWritesNothing ==
  [][\A p \in Procs : Step(p) /\ args[p].dry => UNCHANGED cache]_vars

\* _mlir_dir_from_cache: "Return MLIR_DIR if the artifact is already cached".  What a
\* successful invocation prints is the whole artifact.
PrintsCompleteTree ==
  \A p \in Procs : pc[p] = "end" /\ out[p] = "cache" => Complete

----------------------------------------------------------------------------
(* The inductive invariant behind these properties. *)

\* An extraction that is under way has written every member behind it, or somebody is
\* rewriting it.
Written(k) == k \in whole \/ \E q \in Procs : Extracting(q) /\ at[q] = k

InvExtraction ==
  ~cutShort =>
    /\ \A p \in Procs : Extracting(p) => \A k \in 1 .. at[p] : Written(k)
    /\ (\A p \in Procs : ~Extracting(p)) => ~dir \/ Complete

\* A dry invocation never gets to where something is downloaded or unpacked.
InvDry ==
  \A p \in Procs :
    args[p].dry => pc[p] \notin {"fetch release", "fetch artifact", "extract"}

IInv == TypeOK /\ InvExtraction /\ InvDry /\ PrintsIffSucceeds /\ WheelOnlyOnRequest
=============================================================================
