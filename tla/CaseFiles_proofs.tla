-------------------------- MODULE CaseFiles_proofs --------------------------
(***************************************************************************)
(* What the loaders of case.rs and the verifier of main.rs promise about   *)
(* files that were edited any number of times: the verdicts on a capsule   *)
(* (Capsule), for every set of recordings, deliveries, cells and heartbeat *)
(* files, and the programs that are started for a case (Builds).           *)
(*                                                                         *)
(* A capsule.  A verdict is a function of the capsule, and no edit follows *)
(* a verdict: so a verdict once given stays what the program would say     *)
(* again (SaidOfTheCapsule).  The rest is the shape of a capsule that the  *)
(* edits cannot leave: the names of its files are those of the kind it was *)
(* packed as (Shape), whatever its first line is relabelled to.            *)
(*                                                                         *)
(* Builds.  What run_case accepted stays as it was accepted (Decided), and *)
(* a description keeps its three programs (Described).                     *)
(***************************************************************************)
EXTENDS Capsule, Builds, TLAPS

NativeForms ==
    [raw_record : Recording, effects_captured : Effects, hashes : {"whole"} \X Recording,
     form : {"whole", "overclaims", Bad}]

\* A capsule packed as a native case, then edited.
NativeShape ==
    /\ DOMAIN files = NATIVE_ADAPTER_FILES /\ DOMAIN original = NATIVE_ADAPTER_FILES
    /\ files["expected"] \in NativeForms
    /\ files["events.bin"] \in Recording \cup {Bad}
    /\ \E r \in Recording :
          /\ original["events.bin"] = r /\ original["effects_captured.bin"] = EffectsOf[r]
          /\ original["expected"] = NativeExpected(r, EffectsOf[r])
          /\ original["case"] = "whole"

\* A capsule packed as a Wasm case, then edited.
WasmShape ==
    /\ DOMAIN files = WASM_RMF_BLOCKADE_FILES /\ DOMAIN original = WASM_RMF_BLOCKADE_FILES
    /\ files["deliveries.bin"] \in Deliveries \cup {Bad}
    /\ files["rmf_blockade_cell.wasm"] \in Cell \cup {Bad}
    /\ files["heartbeats_recorded.bin"] \in Heartbeats \cup {Bad}
    /\ files["params"] \in Params \cup {Bad}
    /\ \E d \in Deliveries, h \in Heartbeats :
          /\ original["deliveries.bin"] = d /\ original["heartbeats_recorded.bin"] = h
          /\ original["expected"] = WasmExpected(d, StreamOf[h], h)
          /\ Decides[DecisionInputs(original)] = StreamOf[h]

Shape == NativeShape \/ WasmShape

LoadResults == IF kind # "native-adapter" THEN {"refused"}
               ELSE IF FailedLines # {} THEN FailedLines ELSE {LoadCase}

SaidOfTheCapsule == verdict \in {"none", run} /\ loaded \in {"none"} \cup LoadResults

\* The inductive invariant.
IInv == Shape /\ DOMAIN manifest \subseteq DOMAIN files /\ SaidOfTheCapsule


-----------------------------------------------------------------------------
(***************************************************************************)
(* The invariant is inductive.                                             *)
(***************************************************************************)
LEMMA PackedShape == Init => IInv
  <1>. SUFFICES ASSUME Init  PROVE IInv
    OBVIOUS
  <1>0. verdict = "none" /\ loaded = "none" /\ manifest = files /\ original = files
    BY DEF Init
  <1>1. CASE \E r \in Recording :
          /\ kind = "native-adapter"
          /\ files = [name \in NATIVE_ADAPTER_FILES |->
                CASE name = "events.bin" -> r
                  [] name = "effects_captured.bin" -> EffectsOf[r]
                  [] name = "expected" -> NativeExpected(r, EffectsOf[r])
                  [] OTHER -> "whole"]
    <2>1. PICK r \in Recording :
             files = [name \in NATIVE_ADAPTER_FILES |->
                CASE name = "events.bin" -> r
                  [] name = "effects_captured.bin" -> EffectsOf[r]
                  [] name = "expected" -> NativeExpected(r, EffectsOf[r])
                  [] OTHER -> "whole"]
      BY <1>1
    <2>2. /\ DOMAIN files = NATIVE_ADAPTER_FILES
          /\ files["events.bin"] = r /\ files["effects_captured.bin"] = EffectsOf[r]
          /\ files["expected"] = NativeExpected(r, EffectsOf[r]) /\ files["case"] = "whole"
      BY <2>1 DEF NATIVE_ADAPTER_FILES
    <2>3. NativeExpected(r, EffectsOf[r]) \in NativeForms
      BY DEF NativeForms, NativeExpected, Effects
    <2>4. NativeShape
      BY <1>0, <2>2, <2>3 DEF NativeShape
    <2>. QED  BY <1>0, <2>4 DEF IInv, Shape, SaidOfTheCapsule
  <1>2. CASE \E d \in Deliveries, c \in Cell, p \in Params, h \in Heartbeats :
          /\ <<c, AngleOf[p], d>> \in DOMAIN Decides /\ Decides[<<c, AngleOf[p], d>>] = StreamOf[h]
          /\ kind = "wasm-rmf-blockade"
          /\ files = [name \in WASM_RMF_BLOCKADE_FILES |->
                CASE name = "deliveries.bin" -> d
                  [] name = "rmf_blockade_cell.wasm" -> c
                  [] name = "heartbeats_recorded.bin" -> h
                  [] name = "expected" -> WasmExpected(d, StreamOf[h], h)
                  [] name = "params" -> p]
    <2>1. PICK d \in Deliveries, c \in Cell, p \in Params, h \in Heartbeats :
          /\ Decides[<<c, AngleOf[p], d>>] = StreamOf[h]
          /\ files = [name \in WASM_RMF_BLOCKADE_FILES |->
                CASE name = "deliveries.bin" -> d
                  [] name = "rmf_blockade_cell.wasm" -> c
                  [] name = "heartbeats_recorded.bin" -> h
                  [] name = "expected" -> WasmExpected(d, StreamOf[h], h)
                  [] name = "params" -> p]
      BY <1>2
    <2>2. /\ DOMAIN files = WASM_RMF_BLOCKADE_FILES
          /\ files["deliveries.bin"] = d /\ files["rmf_blockade_cell.wasm"] = c
          /\ files["heartbeats_recorded.bin"] = h /\ files["params"] = p
          /\ files["expected"] = WasmExpected(d, StreamOf[h], h)
      BY <2>1 DEF WASM_RMF_BLOCKADE_FILES
    <2>3. Decides[DecisionInputs(original)] = StreamOf[h]
      BY <1>0, <2>1, <2>2 DEF DecisionInputs
    <2>4. WasmShape
      BY <1>0, <2>2, <2>3 DEF WasmShape
    <2>. QED  BY <1>0, <2>4 DEF IInv, Shape, SaidOfTheCapsule
  <1>. QED  BY <1>1, <1>2 DEF Init, Packed

\* An edit comes before any verdict, so only the shape is at stake.
LEMMA EditKeeps ==
    ASSUME Editing, Shape', DOMAIN manifest' \subseteq DOMAIN files'
    PROVE  IInv'
  BY DEF Editing, IInv, SaidOfTheCapsule

LEMMA RewriteKeeps == ASSUME IInv, Rewrite  PROVE IInv'
  <1>0. PICK name \in DOMAIN files \ {"expected"} : \E content \in ContentsOf(name) :
           files' = [files EXCEPT ![name] = content]
    BY DEF Rewrite
  <1>1. PICK content \in ContentsOf(name) : files' = [files EXCEPT ![name] = content]
    BY <1>0
  <1>2. original' = original /\ manifest' = manifest /\ Editing
    BY DEF Rewrite, Editing
  <1>3. DOMAIN files' = DOMAIN files /\ files'["expected"] = files["expected"]
    BY <1>1
  <1>4. ASSUME NativeShape  PROVE NativeShape'
    <2>1. files["expected"] \in NativeForms
      BY <1>4 DEF NativeShape
    <2>2. files'["events.bin"] \in Recording \cup {Bad}
      BY <1>1, <1>4 DEF NativeShape, NATIVE_ADAPTER_FILES, ContentsOf
    <2>. QED  BY <1>2, <1>3, <1>4, <2>1, <2>2 DEF NativeShape
  <1>5. ASSUME WasmShape  PROVE WasmShape'
    <2>1. /\ files'["deliveries.bin"] \in Deliveries \cup {Bad}
          /\ files'["rmf_blockade_cell.wasm"] \in Cell \cup {Bad}
          /\ files'["heartbeats_recorded.bin"] \in Heartbeats \cup {Bad}
          /\ files'["params"] \in Params \cup {Bad}
      BY <1>1, <1>5 DEF WasmShape, WASM_RMF_BLOCKADE_FILES, ContentsOf
    <2>. QED  BY <1>2, <1>3, <1>5, <2>1 DEF WasmShape
  <1>. QED  BY <1>2, <1>3, <1>4, <1>5, EditKeeps DEF IInv, Shape

\* expected keeps the keys of the kind it was packed as, and its hashes the case's.
LEMMA RewriteExpectedKeeps == ASSUME IInv, RewriteExpected  PROVE IInv'
  <1>1. original' = original /\ manifest' = manifest /\ Editing
    BY DEF RewriteExpected, Editing
  <1>2. PICK expected : files' = [files EXCEPT !["expected"] = expected]
    BY DEF RewriteExpected
  <1>3. /\ DOMAIN files' = DOMAIN files
        /\ \A name \in DOMAIN files \ {"expected"} : files'[name] = files[name]
    BY <1>2
  <1>4. ASSUME NativeShape  PROVE NativeShape'
    <2>1. "expected" \in DOMAIN files /\ "deliveries.bin" \notin DOMAIN files
      BY <1>4 DEF NativeShape, NATIVE_ADAPTER_FILES
    <2>2. ASSUME NEW form \in {"overclaims", Bad},
                 files' = [files EXCEPT !["expected"].form = form]
          PROVE  files'["expected"] \in NativeForms
      <3>1. files'["expected"] = [files["expected"] EXCEPT !.form = form]
        BY <2>1, <2>2
      <3>2. files["expected"] \in NativeForms
        BY <1>4 DEF NativeShape
      <3>. QED  BY <3>1, <3>2 DEF NativeForms
    <2>3. ASSUME NEW r \in Recording, NEW e \in Effects,
                 files' = [files EXCEPT !["expected"] = NativeExpected(r, e)]
          PROVE  files'["expected"] \in NativeForms
      BY <2>1, <2>3 DEF NativeForms, NativeExpected
    <2>4. files'["expected"] \in NativeForms
      BY <2>1, <2>2, <2>3 DEF RewriteExpected
    <2>5. files'["events.bin"] = files["events.bin"]
      BY <1>3, <1>4 DEF NativeShape, NATIVE_ADAPTER_FILES
    <2>. QED  BY <1>1, <1>3, <1>4, <2>4, <2>5 DEF NativeShape
  <1>5. ASSUME WasmShape  PROVE WasmShape'
    <2>1. \A name \in WASM_RMF_BLOCKADE_FILES \ {"expected"} : files'[name] = files[name]
      BY <1>3, <1>5 DEF WasmShape
    <2>. QED  BY <1>1, <1>3, <1>5, <2>1 DEF WasmShape, WASM_RMF_BLOCKADE_FILES
  <1>. QED  BY <1>1, <1>3, <1>4, <1>5, EditKeeps DEF IInv, Shape

LEMMA OtherEditsKeep ==
    ASSUME IInv, Repin \/ Unlist \/ Delete \/ List \/ Relabel
    PROVE  IInv'
  <1>1. original' = original /\ files' = files /\ Editing
    BY DEF Repin, Unlist, Delete, List, Relabel, Editing
  <1>2. DOMAIN manifest' \subseteq DOMAIN manifest
    BY DEF Repin, Unlist, Delete, List, Relabel, Restrict
  <1>3. Shape'
    BY <1>1 DEF IInv, Shape, NativeShape, WasmShape
  <1>. QED  BY <1>1, <1>2, <1>3, EditKeeps DEF IInv

\* What either program says depends on the capsule alone.
LEMMA SameCapsule ==
    ASSUME IInv, UNCHANGED <<capsule, original>>
    PROVE  /\ Shape' /\ DOMAIN manifest' \subseteq DOMAIN files'
           /\ run' = run /\ LoadResults' = LoadResults
  <1>0. kind' = kind /\ files' = files /\ missing' = missing /\ manifest' = manifest
        /\ extra' = extra /\ original' = original
    BY DEF capsule
  <1>1. Shape' /\ DOMAIN manifest' \subseteq DOMAIN files'
    BY <1>0 DEF IInv, Shape, NativeShape, WasmShape
  <1>2. hash_frames' = hash_frames /\ verify_manifest' = verify_manifest
        /\ RequiredCovered' = RequiredCovered
    BY <1>0 DEF hash_frames, verify_manifest, AllPinned, Pinned, RequiredCovered
  <1>3. VerifyNative' = VerifyNative
    BY <1>0, <1>2 DEF VerifyNative, Readable
  <1>4. VerifyWasm' = VerifyWasm
    BY <1>0 DEF VerifyWasm, Readable, HeartbeatsPinned
  <1>5. run' = run
    BY <1>0, <1>2, <1>3, <1>4 DEF run
  <1>6. LoadCase' = LoadCase
    BY <1>0, <1>2 DEF LoadCase, HashesPinned, CapturedEffectsAgree
  <1>7. FailedLines' = FailedLines
    BY <1>0 DEF FailedLines, Pinned
  <1>8. LoadResults' = LoadResults
    BY <1>0, <1>6, <1>7 DEF LoadResults
  <1>. QED  BY <1>1, <1>5, <1>8

LEMMA StepKeeps == IInv /\ [Next]_vars => IInv'
  <1>. SUFFICES ASSUME IInv, [Next]_vars  PROVE IInv'
    OBVIOUS
  <1>1. CASE Verify
    <2>1. verdict' = run /\ loaded' = loaded /\ UNCHANGED <<capsule, original>>
      BY <1>1 DEF Verify
    <2>. QED  BY <2>1, SameCapsule DEF IInv, SaidOfTheCapsule
  <1>2. CASE Load
    <2>1. loaded' \in LoadResults /\ verdict' = verdict /\ UNCHANGED <<capsule, original>>
      BY <1>2 DEF Load, LoadResults
    <2>. QED  BY <2>1, SameCapsule DEF IInv, SaidOfTheCapsule
  <1>3. CASE UNCHANGED vars
    <2>1. loaded' = loaded /\ verdict' = verdict /\ UNCHANGED <<capsule, original>>
      BY <1>3 DEF vars
    <2>. QED  BY <2>1, SameCapsule DEF IInv, SaidOfTheCapsule
  <1>. QED  BY <1>1, <1>2, <1>3, RewriteKeeps, RewriteExpectedKeeps, OtherEditsKeep DEF Next

THEOREM Invariance == Spec => []IInv
  BY PackedShape, StepKeeps, PTL DEF Spec


-----------------------------------------------------------------------------
(***************************************************************************)
(* What the verdicts mean in a capsule of either shape.                    *)
(***************************************************************************)

\* integrity is said of a capsule that was packed as a native case.
LEMMA IntegrityMeans ==
    ASSUME IInv, verdict = "integrity"
    PROVE  /\ kind = "native-adapter" /\ NativeShape /\ AllPinned /\ RequiredCovered
           /\ extra \in {"none", "plain"}
           /\ HashesPinned /\ hash_frames = files["expected"].hashes
  <1>1. run = "integrity"
    BY DEF IInv, SaidOfTheCapsule
  <1>2. VerifyWasm # "integrity"
    BY DEF VerifyWasm
  <1>3. /\ verify_manifest /\ RequiredCovered /\ kind = "native-adapter"
        /\ VerifyNative = "integrity"
    BY <1>1, <1>2 DEF run, Kinds
  <1>4. HashesPinned /\ hash_frames = files["expected"].hashes
    BY <1>3 DEF VerifyNative, HashesPinned
  <1>5. NativeShape
    BY <1>3 DEF IInv, Shape, WasmShape, RequiredCovered, Required, NATIVE_ADAPTER_FILES,
                WASM_RMF_BLOCKADE_FILES
  <1>. QED  BY <1>3, <1>4, <1>5 DEF verify_manifest

\* verified is said of a capsule that was packed as a Wasm case, of the pinned
\* heartbeats and of a replay that differs from them nowhere.
LEMMA VerifiedMeans ==
    ASSUME IInv, verdict = "verified"
    PROVE  LET replayed == Decides[DecisionInputs(files)]
           IN  /\ kind = "wasm-rmf-blockade" /\ WasmShape /\ AllPinned /\ RequiredCovered
               /\ HeartbeatsPinned /\ DecisionInputs(files) \in DOMAIN Decides
               /\ Readable(WASM_RMF_BLOCKADE_FILES \ {"expected"})
               /\ <<files["deliveries.bin"], replayed>> = files["expected"].bag_run_hash
               /\ ~first_payload_divergence(StreamOf[files["heartbeats_recorded.bin"]], replayed)
  <1>1. run = "verified"
    BY DEF IInv, SaidOfTheCapsule
  <1>2. VerifyNative # "verified"
    BY DEF VerifyNative
  <1>3. /\ verify_manifest /\ RequiredCovered /\ kind = "wasm-rmf-blockade"
        /\ VerifyWasm = "verified"
    BY <1>1, <1>2 DEF run, Kinds
  <1>4. WasmShape
    BY <1>3 DEF IInv, Shape, NativeShape, RequiredCovered, Required, NATIVE_ADAPTER_FILES,
                WASM_RMF_BLOCKADE_FILES
  <1>. QED  BY <1>3, <1>4 DEF verify_manifest, VerifyWasm

\* Two sequences without a divergence are the same sequence.
LEMMA NoDivergence ==
    ASSUME NEW S, NEW s \in Seq(S), NEW t \in Seq(S), ~first_payload_divergence(s, t)
    PROVE  s = t
  <1>1. Len(s) = Len(t)
    BY DEF first_payload_divergence
  <1>2. \A i \in 1..Len(s) : s[i] = t[i]
    BY <1>1 DEF first_payload_divergence
  <1>. QED  BY <1>1, <1>2

\* loaded is said of a capsule that was packed as a native case.
LEMMA LoadedMeans ==
    ASSUME IInv, loaded = "loaded"
    PROVE  /\ kind = "native-adapter" /\ NativeShape /\ AllPinned /\ RequiredCovered
           /\ files["expected"].form = "whole" /\ HashesPinned /\ CapturedEffectsAgree
           /\ hash_frames = files["expected"].hashes
  <1>1. kind = "native-adapter" /\ loaded \in LoadResults
    BY DEF IInv, SaidOfTheCapsule, LoadResults
  <1>2. "loaded" \notin FailedLines
    BY DEF FailedLines
  <1>3. FailedLines = {} /\ LoadCase = "loaded"
    BY <1>1, <1>2 DEF LoadResults
  <1>4. AllPinned
    BY <1>3 DEF FailedLines, AllPinned
  <1>5. /\ RequiredCovered /\ files["expected"].form = "whole" /\ HashesPinned
        /\ CapturedEffectsAgree /\ hash_frames = files["expected"].hashes
    BY <1>3 DEF LoadCase
  <1>6. NativeShape
    BY <1>1, <1>5 DEF IInv, Shape, WasmShape, RequiredCovered, Required, NATIVE_ADAPTER_FILES,
                      WASM_RMF_BLOCKADE_FILES
  <1>. QED  BY <1>1, <1>4, <1>5, <1>6

\* diverged, too, is said of pinned bytes.
LEMMA DivergedMeans ==
    ASSUME IInv, verdict = "diverged"
    PROVE  /\ AllPinned /\ RequiredCovered
           /\ kind = "native-adapter" =>
                 ~HashesPinned \/ hash_frames # files["expected"].hashes
  <1>1. run = "diverged"
    BY DEF IInv, SaidOfTheCapsule
  <1>2. verify_manifest /\ RequiredCovered
    BY <1>1 DEF run
  <1>3. ASSUME kind = "native-adapter"
        PROVE  ~HashesPinned \/ hash_frames # files["expected"].hashes
    <2>1. VerifyNative = "diverged"
      BY <1>1, <1>2, <1>3 DEF run
    <2>. QED  BY <2>1 DEF VerifyNative, HashesPinned
  <1>. QED  BY <1>2, <1>3 DEF verify_manifest

LEMMA VerifiedReplays ==
    ASSUME IInv, verdict = "verified"
    PROVE  StreamOf[files["heartbeats_recorded.bin"]] = Decides[DecisionInputs(files)]
  <1>1. files["heartbeats_recorded.bin"] \in Heartbeats /\ DecisionInputs(files) \in DOMAIN Decides
    BY VerifiedMeans DEF WasmShape, Readable, WASM_RMF_BLOCKADE_FILES
  <1>2. /\ StreamOf[files["heartbeats_recorded.bin"]] \in Seq(Payload)
        /\ Decides[DecisionInputs(files)] \in Seq(Payload)
    BY <1>1, CapsuleAssumption
  <1>. QED  BY <1>2, VerifiedMeans, NoDivergence

\* With expected as it was packed the pinned contents are the packed ones.
LEMMA SameNativeRun ==
    ASSUME IInv, verdict = "integrity", files["expected"] = original["expected"],
           NEW name \in DOMAIN files \ {"rmf_blockade_cell.wasm", "params", "identity"}
    PROVE  files[name] = original[name]
  <1>1. PICK r \in Recording :
          /\ original["events.bin"] = r /\ original["effects_captured.bin"] = EffectsOf[r]
          /\ original["expected"] = NativeExpected(r, EffectsOf[r])
          /\ original["case"] = "whole"
    BY IntegrityMeans DEF NativeShape
  <1>2. files["events.bin"] = r /\ files["effects_captured.bin"] = EffectsOf[r]
    BY <1>1, IntegrityMeans DEF HashesPinned, NativeExpected
  <1>3. files["case"] = "whole"
    BY <1>1, IntegrityMeans DEF hash_frames, NativeExpected
  <1>4. name \in {"expected", "events.bin", "effects_captured.bin", "case"}
    BY IntegrityMeans DEF NativeShape, NATIVE_ADAPTER_FILES
  <1>. QED  BY <1>1, <1>2, <1>3, <1>4

\* The decisions are then the packed ones, whatever cell and angle they come from.
LEMMA SameWasmRun ==
    ASSUME IInv, verdict = "verified", files["expected"] = original["expected"]
    PROVE  /\ \A name \in DOMAIN files \ {"rmf_blockade_cell.wasm", "params", "identity"} :
                 files[name] = original[name]
           /\ Decides[DecisionInputs(files)] = Decides[DecisionInputs(original)]
  <1>1. PICK d \in Deliveries, h \in Heartbeats :
          /\ original["deliveries.bin"] = d /\ original["heartbeats_recorded.bin"] = h
          /\ original["expected"] = WasmExpected(d, StreamOf[h], h)
          /\ Decides[DecisionInputs(original)] = StreamOf[h]
    BY VerifiedMeans DEF WasmShape
  <1>2. files["expected"].bag_run_hash = <<d, StreamOf[h]>>
        /\ files["expected"].heartbeats_recorded = h
    BY <1>1 DEF WasmExpected
  <1>3. files["deliveries.bin"] = d /\ Decides[DecisionInputs(files)] = StreamOf[h]
    BY <1>2, VerifiedMeans
  <1>4. files["heartbeats_recorded.bin"] = h
    BY <1>2, VerifiedMeans DEF HeartbeatsPinned
  <1>5. ASSUME NEW name \in DOMAIN files \ {"rmf_blockade_cell.wasm", "params", "identity"}
        PROVE  files[name] = original[name]
    <2>1. name \in {"expected", "deliveries.bin", "heartbeats_recorded.bin"}
      BY VerifiedMeans DEF WasmShape, WASM_RMF_BLOCKADE_FILES
    <2>. QED  BY <1>1, <1>3, <1>4, <2>1
  <1>. QED  BY <1>1, <1>3, <1>5

-----------------------------------------------------------------------------
\* For all recordings, cells and bags and any number of edits: what either program
\* says is said of pinned bytes, verified means that the replay made the recorded
\* decisions, and with expected as it was packed no verdict of agreement is given
\* on other evidence or other decisions, though the angle of params and the cell are
\* not committed (main.rs, run_native and run; case.rs, Case::load).
THEOREM ExpectedCommits == Spec => []ExpectedCommitsTheRun
  <1>1. IInv => ExpectedCommitsTheRun
    <2>. SUFFICES ASSUME IInv  PROVE ExpectedCommitsTheRun
      OBVIOUS
    <2>1. SaidOfPinnedBytes
      BY IntegrityMeans, VerifiedMeans, DivergedMeans, LoadedMeans DEF SaidOfPinnedBytes
    <2>2. VerifiedMeansReplayed
      BY VerifiedMeans, VerifiedReplays DEF VerifiedMeansReplayed
    <2>. QED  BY <2>1, <2>2, SameNativeRun, SameWasmRun DEF ExpectedCommitsTheRun
  <1>. QED  BY <1>1, Invariance, PTL

\* For all recordings and any number of edits: what rook loads is consistent and is
\* not diverged to rook-verify, and what rook-verify finds intact mismatches for
\* rook only in the captured effects (main.rs, run_native; case.rs, Case::load).
THEOREM TwoPrograms == Spec => []ProgramsAgree
  <1>1. IInv => ProgramsAgree
    <2>. SUFFICES ASSUME IInv  PROVE ProgramsAgree
      OBVIOUS
    <2>1. LoadedMeansConsistent
      <3>. SUFFICES ASSUME loaded = "loaded"
                    PROVE  /\ CapturedEffectsAgree /\ files["case"] = "whole"
                           /\ files["expected"] = NativeExpected(files["events.bin"],
                                                      files["effects_captured.bin"])
        BY DEF LoadedMeansConsistent, CapturedEffectsAgree
      <3>1. /\ files["expected"] \in NativeForms /\ files["expected"].form = "whole"
            /\ hash_frames = files["expected"].hashes /\ HashesPinned /\ CapturedEffectsAgree
        BY LoadedMeans DEF NativeShape
      <3>2. files["case"] = "whole" /\ files["expected"].hashes = <<"whole", files["events.bin"]>>
        BY <3>1 DEF NativeForms, hash_frames
      <3>. QED  BY <3>1, <3>2 DEF NativeForms, NativeExpected, HashesPinned
    <2>2. ~(loaded = "loaded" /\ verdict = "diverged")
      BY LoadedMeans, DivergedMeans
    <2>3. ASSUME verdict = "integrity", loaded = "mismatch"
          PROVE  EffectsOf[files["events.bin"]] # files["effects_captured.bin"]
      <3>1. FailedLines = {}
        BY <2>3, IntegrityMeans DEF FailedLines, AllPinned
      <3>2. LoadCase = "mismatch"
        BY <2>3, <3>1, IntegrityMeans DEF IInv, SaidOfTheCapsule, LoadResults
      <3>. QED  BY <2>3, <3>2, IntegrityMeans DEF LoadCase, CapturedEffectsAgree
    <2>. QED  BY <2>1, <2>2, <2>3 DEF ProgramsAgree
  <1>. QED  BY <1>1, Invariance, PTL


-----------------------------------------------------------------------------
(***************************************************************************)
(* Builds.                                                                 *)
(***************************************************************************)
Both == {"baseline", "candidate"}
Maps(K) == UNION {[D -> Value] : D \in SUBSET K}
Descriptions == [identity : Maps(Key), artifacts : Maps(Artifact), args : {0, 1, 2}]

\* A description never loses one of its programs.
Described ==
    /\ case_identity \in Maps(Key) /\ build \in [Both -> Descriptions]
    /\ \A b \in Both : Programs \subseteq DOMAIN build[b].artifacts

Ran == IF external THEN <<Started("baseline"), Started("candidate")>>
       ELSE <<StartedReference(Compiled["component_variant"]), StartedReference(asked)>>

\* What was accepted, or refused, is what is there.
Decided ==
    /\ phase \in {"edit", "checked", "tested", "refused"}
    /\ phase = "refused" => ~Accepted
    /\ phase \in {"checked", "tested"} => Accepted
    /\ phase = "tested" => ran = Ran

\* The inductive invariant.
BuildsInv == external \in BOOLEAN /\ Described /\ Decided

LEMMA MapsAre ==
    ASSUME NEW K, NEW f
    PROVE  f \in Maps(K) <=> (DOMAIN f \subseteq K /\ f \in [DOMAIN f -> Value])
  BY DEF Maps

LEMMA PackedDescribed ==
    /\ PackedBuild \in Descriptions
    /\ PackedBuild.identity = [k \in Key \ {"plugin"} |-> 1]
    /\ PackedBuild.artifacts = [a \in Artifact \ {"plugin"} |-> 1]
    /\ PackedBuild.args = 1
  <1>1. /\ PackedBuild.identity = [k \in Key \ {"plugin"} |-> 1]
        /\ PackedBuild.artifacts = [a \in Artifact \ {"plugin"} |-> 1]
        /\ PackedBuild.args = 1
    BY DEF PackedBuild
  <1>2. PackedBuild.identity \in Maps(Key) /\ PackedBuild.artifacts \in Maps(Artifact)
    BY <1>1, MapsAre DEF Value
  <1>. QED  BY <1>1, <1>2 DEF PackedBuild, Descriptions

LEMMA BuildsInvInit == BuildsInit => BuildsInv
  <1>. SUFFICES ASSUME BuildsInit  PROVE BuildsInv
    OBVIOUS
  <1>1. /\ case_identity = PackedBuild.identity
        /\ build = [baseline |-> PackedBuild, candidate |-> PackedBuild]
        /\ phase = "edit" /\ external \in BOOLEAN
    BY DEF BuildsInit
  <1>2. case_identity \in Maps(Key)
    BY <1>1, PackedDescribed DEF Descriptions
  <1>3. build \in [Both -> Descriptions]
    BY <1>1, PackedDescribed DEF Both
  <1>4. \A b \in Both : Programs \subseteq DOMAIN build[b].artifacts
    BY <1>1, PackedDescribed DEF Both, Programs, Artifact, Dependency
  <1>. QED  BY <1>1, <1>2, <1>3, <1>4 DEF BuildsInv, Described, Decided

LEMMA ChangedMap ==
    ASSUME NEW K, NEW f \in Maps(K), NEW k \in K, NEW v \in Value \cup {Absent}
    PROVE  /\ Changed(f, k, v) \in Maps(K)
           /\ v # Absent => DOMAIN f \subseteq DOMAIN Changed(f, k, v)
           /\ DOMAIN f \ {k} \subseteq DOMAIN Changed(f, k, v)
  <1>1. DOMAIN f \subseteq K /\ f \in [DOMAIN f -> Value]
    BY MapsAre
  <1>2. CASE v = Absent
    <2>1. Changed(f, k, v) = [x \in DOMAIN f \ {k} |-> f[x]]
      BY <1>2 DEF Changed, Restrict
    <2>. QED  BY <1>1, <1>2, <2>1, MapsAre
  <1>3. CASE v # Absent
    <2>1. Changed(f, k, v) = [j \in DOMAIN f \cup {k} |-> IF j = k THEN v ELSE f[j]]
      BY <1>3 DEF Changed
    <2>. QED  BY <1>1, <1>3, <2>1, MapsAre
  <1>. QED  BY <1>2, <1>3

LEMMA EditDescribed ==
    ASSUME BuildsInv, Describe \/ Rebuild \/ Repack
    PROVE  BuildsInv'
  <1>1. external' = external /\ phase' = "edit"
    BY DEF Describe, Rebuild, Repack, Changing
  <1>2. case_identity' \in Maps(Key)
    BY ChangedMap DEF Describe, Rebuild, Repack, BuildsInv, Described
  <1>3. /\ build' \in [Both -> Descriptions]
        /\ \A b \in Both : Programs \subseteq DOMAIN build'[b].artifacts
    <2>0. /\ build \in [Both -> Descriptions]
          /\ \A b \in Both : Programs \subseteq DOMAIN build[b].artifacts
      BY DEF BuildsInv, Described
    <2>1. CASE build' = build
      BY <2>0, <2>1
    <2>2. ASSUME NEW b \in Both, NEW k \in Key, NEW v \in Value \cup {Absent},
                 build' = [build EXCEPT ![b].identity = Changed(@, k, v)]
          PROVE  <1>3!:
      <3>1. Changed(build[b].identity, k, v) \in Maps(Key)
        BY <2>0, ChangedMap DEF Descriptions
      <3>2. build' = [build EXCEPT ![b] =
                         [build[b] EXCEPT !.identity = Changed(build[b].identity, k, v)]]
        BY <2>0, <2>2
      <3>. QED  BY <2>0, <3>1, <3>2 DEF Descriptions
    <2>3. ASSUME NEW b \in Both, NEW a \in Artifact, NEW v \in Value \cup {Absent},
                 a \in Programs => v # Absent,
                 build' = [build EXCEPT ![b].artifacts = Changed(@, a, v)]
          PROVE  <1>3!:
      <3>1. build[b].artifacts \in Maps(Artifact)
        BY <2>0 DEF Descriptions
      <3>2. Changed(build[b].artifacts, a, v) \in Maps(Artifact)
        BY <3>1, ChangedMap
      <3>3. Programs \subseteq DOMAIN Changed(build[b].artifacts, a, v)
        BY <2>0, <2>3, <3>1, ChangedMap
      <3>4. build' = [build EXCEPT ![b] =
                         [build[b] EXCEPT !.artifacts = Changed(build[b].artifacts, a, v)]]
        BY <2>0, <2>3
      <3>. QED  BY <2>0, <3>2, <3>3, <3>4 DEF Descriptions
    <2>4. ASSUME NEW b \in Both, NEW v \in Value \cup {Absent},
                 build' = [build EXCEPT ![b].args = v]
          PROVE  <1>3!:
      BY <2>0, <2>4 DEF Descriptions, Value, Absent
    <2>5. DOMAIN build = Both
      BY <2>0
    <2>. QED  BY <2>1, <2>2, <2>3, <2>4, <2>5 DEF Describe, Rebuild, Repack
  <1>. QED  BY <1>1, <1>2, <1>3 DEF BuildsInv, Described, Decided


LEMMA BuildsStep == BuildsInv /\ [BuildsNext]_buildVars => BuildsInv'
  <1>. SUFFICES ASSUME BuildsInv, [BuildsNext]_buildVars  PROVE BuildsInv'
    OBVIOUS
  <1>1. ASSUME UNCHANGED <<external, case_identity, build, disk, asked>>
        PROVE  /\ external' \in BOOLEAN /\ Described'
               /\ Accepted' <=> Accepted
               /\ Ran' = Ran
    <2>1. external' \in BOOLEAN /\ Described'
      BY <1>1 DEF BuildsInv, Described
    <2>2. Accepted' <=> Accepted
      BY <1>1 DEF Accepted, load, candidate, reference_identity, check, Dependencies
    <2>3. Ran' = Ran
      BY <1>1 DEF Ran, Started
    <2>. QED  BY <2>1, <2>2, <2>3
  <1>2. CASE run_case
    BY <1>1, <1>2 DEF run_case, BuildsInv, Decided
  <1>3. CASE Test
    <2>1. ran' = Ran /\ phase = "checked" /\ phase' = "tested"
          /\ UNCHANGED <<external, case_identity, build, disk, asked>>
      BY <1>3 DEF Test, Ran
    <2>. QED  BY <1>1, <2>1 DEF BuildsInv, Decided
  <1>4. CASE UNCHANGED buildVars
    <2>1. ran' = ran /\ phase' = phase /\ UNCHANGED <<external, case_identity, build, disk, asked>>
      BY <1>4 DEF buildVars
    <2>. QED  BY <1>1, <2>1 DEF BuildsInv, Decided
  <1>. QED  BY <1>2, <1>3, <1>4, EditDescribed DEF BuildsNext

\* Maps with the same entry for every key are the same map.
LEMMA SameMap ==
    ASSUME NEW K, NEW f \in Maps(K), NEW g \in Maps(K), same_identity(f, g, {})
    PROVE  f = g
  <1>1. /\ f \in [DOMAIN f -> Value] /\ g \in [DOMAIN g -> Value]
    BY MapsAre
  <1>2. \A k \in DOMAIN f \cup DOMAIN g : Get(f, k) = Get(g, k)
    BY DEF same_identity, keys, AllKeys
  <1>3. Absent \notin Value
    BY DEF Absent, Value
  <1>4. DOMAIN f = DOMAIN g
    BY <1>1, <1>2, <1>3 DEF Get
  <1>. QED  BY <1>1, <1>2, <1>4 DEF Get

\* The bytes started for an accepted build are those its description and its
\* case_identity name.
LEMMA StartedBytes ==
    ASSUME BuildsInv, external, Accepted, NEW b \in Both,
           NEW a \in DOMAIN build[b].artifacts
    PROVE  /\ Started(b).bytes[a] = build[b].artifacts[a]
           /\ build[b].identity[a] = build[b].artifacts[a]
  <1>1. \A c \in Both : \A x \in DOMAIN build[c].artifacts :
           /\ disk[c][x] = build[c].artifacts[x] /\ disk[c][x] # Absent
           /\ Get(build[c].identity, x) = build[c].artifacts[x]
    BY DEF Accepted, load, check, Both
  <1>2. "property_binary" \in DOMAIN build["baseline"].artifacts
    BY DEF BuildsInv, Described, Both, Programs
  <1>3. build["baseline"].artifacts["property_binary"] =
            build["candidate"].artifacts["property_binary"]
    BY DEF Accepted, candidate
  <1>4. disk["baseline"]["property_binary"] = build[b].artifacts["property_binary"]
    BY <1>1, <1>2, <1>3 DEF Both
  <1>5. Started(b).bytes[a] = IF a = "property_binary" THEN disk["baseline"][a] ELSE disk[b][a]
    BY DEF Started
  <1>6. Started(b).bytes[a] = build[b].artifacts[a]
    BY <1>1, <1>4, <1>5
  <1>7. build[b].identity[a] = build[b].artifacts[a]
    BY <1>1 DEF Get
  <1>. QED  BY <1>6, <1>7

\* The two descriptions name the same artifacts, and the same bytes but for the
\* component.
LEMMA SameArtifacts ==
    ASSUME BuildsInv, external, Accepted
    PROVE  /\ DOMAIN build["baseline"].artifacts = DOMAIN build["candidate"].artifacts
           /\ \A a \in DOMAIN build["baseline"].artifacts \ ComponentKeys :
                 build["baseline"].artifacts[a] = build["candidate"].artifacts[a]
  <1>. DEFINE f == build["baseline"].artifacts
              g == build["candidate"].artifacts
  <1>1. Programs \subseteq DOMAIN f /\ Programs \subseteq DOMAIN g
    BY DEF BuildsInv, Described, Both
  <1>2. [x \in DOMAIN f \ Programs |-> f[x]] = [x \in DOMAIN g \ Programs |-> g[x]]
    BY DEF Accepted, candidate, Dependencies, Restrict
  <1>3. \A a \in {"adapter_binary", "property_binary"} : f[a] = g[a]
    BY DEF Accepted, candidate
  <1>. HIDE DEF f, g
  <1>4. DOMAIN f \ Programs = DOMAIN g \ Programs
    <2>1. DOMAIN [x \in DOMAIN f \ Programs |-> f[x]] = DOMAIN f \ Programs
      OBVIOUS
    <2>2. DOMAIN [x \in DOMAIN g \ Programs |-> g[x]] = DOMAIN g \ Programs
      OBVIOUS
    <2>. QED  BY <1>2, <2>1, <2>2
  <1>5. \A a \in DOMAIN f \ Programs : f[a] = g[a]
    <2>. SUFFICES ASSUME NEW a \in DOMAIN f \ Programs  PROVE f[a] = g[a]
      OBVIOUS
    <2>1. [x \in DOMAIN f \ Programs |-> f[x]][a] = f[a]
      OBVIOUS
    <2>2. [x \in DOMAIN g \ Programs |-> g[x]][a] = g[a]
      BY <1>4
    <2>. QED  BY <1>2, <2>1, <2>2
  <1>6. DOMAIN f = DOMAIN g
    BY <1>1, <1>4
  <1>7. \A a \in DOMAIN f \ ComponentKeys : f[a] = g[a]
    BY <1>3, <1>5 DEF Programs, ComponentKeys
  <1>. QED  BY <1>6, <1>7 DEF f, g

LEMMA Reported ==
    ASSUME BuildsInv  PROVE ReportedIdentityIsTrue
  <1>. SUFFICES ASSUME phase = "tested"
                PROVE  /\ \A i \in {1, 2} : \A a \in DOMAIN ran[i].bytes :
                             ran[i].identity[a] = ran[i].bytes[a]
                       /\ ran[1].identity = case_identity
    BY DEF ReportedIdentityIsTrue
  <1>0. Accepted /\ ran = Ran
    BY DEF BuildsInv, Decided
  <1>1. CASE external
    <2>1. ran[1] = Started("baseline") /\ ran[2] = Started("candidate")
      BY <1>0, <1>1 DEF Ran
    <2>2. \A b \in Both : /\ DOMAIN Started(b).bytes = DOMAIN build[b].artifacts
                          /\ Started(b).identity = build[b].identity
      BY DEF Started
    <2>3. \A b \in Both : \A a \in DOMAIN Started(b).bytes :
             Started(b).identity[a] = Started(b).bytes[a]
      BY <1>0, <1>1, <2>2, StartedBytes
    <2>4. build["baseline"].identity \in Maps(Key) /\ case_identity \in Maps(Key)
      BY DEF BuildsInv, Described, Descriptions, Both
    <2>5. same_identity(case_identity, build["baseline"].identity, {})
      BY <1>0, <1>1 DEF Accepted
    <2>6. case_identity = build["baseline"].identity
      BY <2>4, <2>5, SameMap
    <2>. QED  BY <2>1, <2>2, <2>3, <2>6 DEF Both
  <1>2. CASE ~external
    <2>0. /\ Compiled \in Maps(Key) /\ Compiled = [k \in Key \ {"plugin"} |-> 1]
      BY PackedDescribed DEF Compiled, Descriptions
    <2>1. /\ ran[1] = StartedReference(1) /\ ran[2] = StartedReference(asked)
      BY <1>0, <1>2, <2>0 DEF Ran, Key, Artifact
    <2>2. \A v : /\ StartedReference(v).bytes = [a \in {"component_variant"} |-> v]
                 /\ StartedReference(v).identity = [Compiled EXCEPT !["component_variant"] = v]
      BY DEF StartedReference
    <2>3. \A v : \A a \in DOMAIN StartedReference(v).bytes :
             StartedReference(v).identity[a] = StartedReference(v).bytes[a]
      <3>1. "component_variant" \in DOMAIN Compiled
        BY <2>0 DEF Key, Artifact, Programs, Dependency
      <3>2. \A v : DOMAIN StartedReference(v).bytes = {"component_variant"}
        BY <2>2
      <3>3. \A v : /\ StartedReference(v).identity["component_variant"] = v
                   /\ StartedReference(v).bytes["component_variant"] = v
        <4>. TAKE v
        <4>1. [Compiled EXCEPT !["component_variant"] = v]["component_variant"] = v
          BY <3>1
        <4>2. [a \in {"component_variant"} |-> v]["component_variant"] = v
          OBVIOUS
        <4>. QED  BY <2>2, <4>1, <4>2
      <3>. QED  BY <3>2, <3>3
    <2>4. StartedReference(1).identity = Compiled
      BY <2>0, <2>2
    <2>5. same_identity(case_identity, Compiled, {}) /\ case_identity \in Maps(Key)
      BY <1>0, <1>2 DEF Accepted, reference_identity, BuildsInv, Described
    <2>6. case_identity = Compiled
      BY <2>0, <2>5, SameMap
    <2>. QED  BY <2>1, <2>3, <2>4, <2>6
  <1>. QED  BY <1>1, <1>2

\* The packed baseline beside a rebuilt component passes every check.
LEMMA RebuiltAccepted ==
    ASSUME external, case_identity = PackedBuild.identity,
           build = [baseline |-> PackedBuild, candidate |-> Rebuilt],
           disk["candidate"]["component_binary"] = 2,
           \A b \in DOMAIN build, a \in Artifact \ {"plugin"} :
               disk[b][a] # 1 => b = "candidate" /\ a = "component_binary"
    PROVE  Accepted
  <1>1. /\ PackedBuild.identity = [k \in Key \ {"plugin"} |-> 1]
        /\ PackedBuild.artifacts = [a \in Artifact \ {"plugin"} |-> 1]
        /\ PackedBuild.args = 1
    BY PackedDescribed
  <1>2. /\ Rebuilt.identity =
              [k \in Key \ {"plugin"} |-> IF k = "component_binary" THEN 2 ELSE 1]
        /\ Rebuilt.artifacts =
              [a \in Artifact \ {"plugin"} |-> IF a = "component_binary" THEN 2 ELSE 1]
        /\ Rebuilt.args = 1
    BY DEF Rebuilt, PackedBuild
  <1>3. /\ build["baseline"] = PackedBuild /\ build["candidate"] = Rebuilt
        /\ \A a \in Artifact \ {"plugin"} :
              /\ disk["baseline"][a] = 1
              /\ disk["candidate"][a] = IF a = "component_binary" THEN 2 ELSE 1
    OBVIOUS
  <1>4. Artifact \subseteq Key
    BY DEF Key
  <1>5. load("baseline")
    BY <1>1, <1>3, <1>4 DEF load, check, Get, Absent
  <1>6. load("candidate")
    BY <1>2, <1>3, <1>4 DEF load, check, Get, Absent
  <1>7. same_identity(case_identity, build["baseline"].identity, {})
    BY <1>3 DEF same_identity
  <1>8. candidate
    <2>1. same_identity(build["baseline"].identity, build["candidate"].identity, ComponentKeys)
      BY <1>1, <1>2, <1>3 DEF same_identity, keys, AllKeys, Get, ComponentKeys
    <2>2. \A a \in {"adapter_binary", "property_binary"} :
             build["baseline"].artifacts[a] = build["candidate"].artifacts[a]
      BY <1>1, <1>2, <1>3 DEF Artifact, Programs
    <2>3. Dependencies("baseline") = Dependencies("candidate")
      BY <1>1, <1>2, <1>3 DEF Dependencies, Restrict, Programs
    <2>4. build["baseline"].args = build["candidate"].args
      BY <1>1, <1>2, <1>3
    <2>. QED  BY <2>1, <2>2, <2>3, <2>4 DEF candidate
  <1>. QED  BY <1>5, <1>6, <1>7, <1>8 DEF Accepted

\* Whatever the descriptions, the files and the case say and however often they are
\* edited: what is tested differs in the component alone, the identities reported
\* are those of the bytes that ran, and a rebuilt component is not refused
\* (case.rs, Build::load, candidate, same_identity; lib.rs, run_case).
THEOREM ComponentAlone == BuildsSpec => []OnlyTheComponentDiffers
  <1>1. BuildsSpec => []BuildsInv
    BY BuildsInvInit, BuildsStep, PTL DEF BuildsSpec
  <1>2. BuildsInv => OnlyTheComponentDiffers
    <2>. SUFFICES ASSUME BuildsInv  PROVE OnlyTheComponentDiffers
      OBVIOUS
    <2>1. ReportedIdentityIsTrue
      BY Reported
    <2>2. ChangedComponentIsTested
      BY RebuiltAccepted DEF ChangedComponentIsTested, BuildsInv, Decided
    <2>3. ASSUME phase = "tested"
          PROVE  /\ ran[1].args = ran[2].args
                 /\ DOMAIN ran[1].bytes = DOMAIN ran[2].bytes
                 /\ \A a \in DOMAIN ran[1].bytes \ ComponentKeys :
                       ran[1].bytes[a] = ran[2].bytes[a]
                 /\ \A k \in Key \ ComponentKeys :
                       Get(ran[1].identity, k) = Get(ran[2].identity, k)
      <3>0. Accepted /\ ran = Ran
        BY <2>3 DEF BuildsInv, Decided
      <3>1. CASE external
        <4>1. ran[1] = Started("baseline") /\ ran[2] = Started("candidate")
          BY <3>0, <3>1 DEF Ran
        <4>2. \A b \in Both : /\ DOMAIN Started(b).bytes = DOMAIN build[b].artifacts
                              /\ Started(b).identity = build[b].identity
                              /\ Started(b).args = build[b].args
          BY DEF Started
        <4>3. build["baseline"].args = build["candidate"].args
          BY <3>0, <3>1 DEF Accepted, candidate
        <4>4. \A k \in Key \ ComponentKeys :
                 Get(build["baseline"].identity, k) = Get(build["candidate"].identity, k)
          <5>1. same_identity(build["baseline"].identity, build["candidate"].identity,
                                ComponentKeys)
            BY <3>0, <3>1 DEF Accepted, candidate
          <5>. QED  BY <5>1 DEF same_identity, keys, AllKeys, Get
        <4>5. \A a \in DOMAIN build["baseline"].artifacts \ ComponentKeys :
                 Started("baseline").bytes[a] = Started("candidate").bytes[a]
          BY <3>0, <3>1, StartedBytes, SameArtifacts DEF Both
        <4>6. DOMAIN build["baseline"].artifacts = DOMAIN build["candidate"].artifacts
          BY <3>0, <3>1, SameArtifacts
        <4>. QED  BY <4>1, <4>2, <4>3, <4>4, <4>5, <4>6 DEF Both
      <3>2. CASE ~external
        <4>1. /\ ran[1] = StartedReference(Compiled["component_variant"])
              /\ ran[2] = StartedReference(asked)
          BY <3>0, <3>2 DEF Ran
        <4>2. \A v : /\ StartedReference(v).bytes = [a \in {"component_variant"} |-> v]
                     /\ StartedReference(v).args = 1
                     /\ StartedReference(v).identity =
                           [Compiled EXCEPT !["component_variant"] = v]
          BY DEF StartedReference
        <4>3. \A v : \A k \in Key \ ComponentKeys :
                 Get(StartedReference(v).identity, k) = Get(Compiled, k)
          BY <4>2 DEF Get, ComponentKeys
        <4>. QED  BY <4>1, <4>2, <4>3 DEF ComponentKeys
      <3>. QED  BY <3>1, <3>2
    <2>. QED  BY <2>1, <2>2, <2>3 DEF OnlyTheComponentDiffers
  <1>. QED  BY <1>1, <1>2, PTL
=============================================================================
