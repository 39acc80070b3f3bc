------------------------------- MODULE Capsule -------------------------------
(***************************************************************************)
(* A capsule directory and the two programs that open it: rook-verify,     *)
(* crates/rook-verify/src/main.rs, and the case loader of rook,            *)
(* Case::load of crates/rook-verify/src/case.rs.                           *)
(*                                                                         *)
(* A packed capsule is edited, file by file and line by line of its        *)
(* manifest, and then opened.  A content stands for its bytes and for its  *)
(* hash.  Which effects a recording holds, which angle is read from params *)
(* and what a cell decides are external: any functions of the contents.    *)
(* A cell need not decide: it may trap on some angle or delivery.          *)
(***************************************************************************)
EXTENDS Integers, Sequences, SequencesExt, FiniteSets, Functions

CONSTANTS
    Recording, EffectsOf,    \* decodable event streams and the effects in them
    Params, AngleOf,         \* params files and the min_conflict_angle read from them
    Deliveries, Cell, Decides,  \* bag deliveries, cells and what they decide at an angle
    Heartbeats, StreamOf,    \* heartbeat files and their payloads
    Payload,                 \* what one decision or heartbeat says
    MaxEdits                 \* edits of one capsule

ASSUME CapsuleAssumption ==
    /\ MaxEdits \in Nat /\ Recording = DOMAIN EffectsOf
    /\ Params = DOMAIN AngleOf /\ Heartbeats = DOMAIN StreamOf
    /\ DOMAIN Decides \subseteq Cell \X Range(AngleOf) \X Deliveries
    /\ \A inputs \in DOMAIN Decides : Decides[inputs] \in Seq(Payload)
    /\ \A h \in Heartbeats : StreamOf[h] \in Seq(Payload)

Kinds == {"wasm-rmf-blockade", "native-adapter"}
NATIVE_ADAPTER_FILES == {"expected", "events.bin", "effects_captured.bin", "identity", "case"}
WASM_RMF_BLOCKADE_FILES ==
    {"expected", "deliveries.bin", "heartbeats_recorded.bin", "params", "rmf_blockade_cell.wasm"}
Required(kind) == IF kind = "native-adapter" THEN NATIVE_ADAPTER_FILES ELSE WASM_RMF_BLOCKADE_FILES

Bad == "bad"          \* bytes that do not parse, a cell that does not load
Effects == {EffectsOf[r] : r \in Recording}

\* The contents a file may have, by name.  A foreign identity has every key and
\* another property than the case; a renamed case has every key and another corpus.
ContentsOf(name) ==
    CASE name = "events.bin" -> Recording \cup {Bad}
      [] name = "effects_captured.bin" -> Effects \cup {Bad}
      [] name = "identity" -> {"whole", "foreign", Bad}
      [] name = "case" -> {"whole", "renamed", Bad}
      [] name = "deliveries.bin" -> Deliveries \cup {Bad}
      [] name = "heartbeats_recorded.bin" -> Heartbeats \cup {Bad}
      [] name = "params" -> Params \cup {Bad}
      [] name = "rmf_blockade_cell.wasm" -> Cell \cup {Bad}

distinct_states(stream) ==
    FoldLeft(LAMBDA s, e : IF Last(s) = e THEN s ELSE Append(s, e), <<"empty">>, stream)

\* What a packer writes into expected.  An expected file that overclaims has a
\* claim or a key that its kind does not allow.
NativeExpected(r, effects) ==
    [raw_record |-> r, effects_captured |-> effects, hashes |-> <<"whole", r>>, form |-> "whole"]
WasmExpected(d, emits, h) ==
    [bag_run_hash |-> <<d, emits>>, bag_output_digest |-> emits, heartbeats_recorded |-> h,
     recorded_states |-> Len(distinct_states(emits)), form |-> "whole"]

\* All that a replay of a bag depends on.
DecisionInputs(contents) ==
    <<contents["rmf_blockade_cell.wasm"], AngleOf[contents["params"]], contents["deliveries.bin"]>>

VARIABLES
    kind, files,
    missing,      \* files that are not there
    manifest,     \* the pinned contents, by the names listed
    extra,        \* a further entry of the manifest, of a file with the pinned hash
    edits,
    original,     \* the files as packed
    verdict,      \* rook-verify: "none", "verified", "integrity", "diverged" or "refused"
    loaded        \* rook: "none", "loaded", "mismatch" or "refused"

capsule == <<kind, files, missing, manifest, extra>>
vars == <<capsule, edits, original, verdict, loaded>>

Packed ==
    \/ \E r \in Recording :
          /\ kind = "native-adapter"
          /\ files = [name \in NATIVE_ADAPTER_FILES |->
                CASE name = "events.bin" -> r
                  [] name = "effects_captured.bin" -> EffectsOf[r]
                  [] name = "expected" -> NativeExpected(r, EffectsOf[r])
                  [] OTHER -> "whole"]
    \/ \E d \in Deliveries, c \in Cell, p \in Params, h \in Heartbeats :
          /\ <<c, AngleOf[p], d>> \in DOMAIN Decides /\ Decides[<<c, AngleOf[p], d>>] = StreamOf[h]
          /\ kind = "wasm-rmf-blockade"
          /\ files = [name \in WASM_RMF_BLOCKADE_FILES |->
                CASE name = "deliveries.bin" -> d
                  [] name = "rmf_blockade_cell.wasm" -> c
                  [] name = "heartbeats_recorded.bin" -> h
                  [] name = "expected" -> WasmExpected(d, StreamOf[h], h)
                  [] name = "params" -> p]

Init ==
    /\ Packed /\ missing = {} /\ manifest = files /\ extra = "none"
    /\ edits = 0 /\ original = files /\ verdict = "none" /\ loaded = "none"

-----------------------------------------------------------------------------
(***************************************************************************)
(* Edits.                                                                  *)
(***************************************************************************)
Editing ==
    /\ verdict = "none" /\ loaded = "none" /\ edits < MaxEdits /\ edits' = edits + 1
    /\ UNCHANGED <<original, verdict, loaded>>

Rewrite ==
    /\ Editing
    /\ \E name \in DOMAIN files \ {"expected"} : \E content \in ContentsOf(name) :
          files' = [files EXCEPT ![name] = content]
    /\ UNCHANGED <<kind, missing, manifest, extra>>

\* expected is rewritten for another run of its kind, or broken.
RewriteExpected ==
    /\ Editing
    /\ \/ \E form \in {"overclaims", Bad} : files' = [files EXCEPT !["expected"].form = form]
       \/ /\ "events.bin" \in DOMAIN files
          /\ \E r \in Recording, e \in Effects :
                files' = [files EXCEPT !["expected"] = NativeExpected(r, e)]
       \/ /\ "deliveries.bin" \in DOMAIN files
          /\ \E d \in Deliveries, emits \in Range(Decides), h \in Heartbeats :
                files' = [files EXCEPT !["expected"] = WasmExpected(d, emits, h)]
    /\ UNCHANGED <<kind, missing, manifest, extra>>

Repin ==
    /\ Editing
    /\ \E name \in DOMAIN manifest : manifest' = [manifest EXCEPT ![name] = files[name]]
    /\ UNCHANGED <<kind, files, missing, extra>>

Unlist ==
    /\ Editing
    /\ \E name \in DOMAIN manifest : manifest' = Restrict(manifest, DOMAIN manifest \ {name})
    /\ UNCHANGED <<kind, files, missing, extra>>

Delete ==
    /\ Editing
    /\ \E name \in DOMAIN files : missing' = missing \cup {name}
    /\ UNCHANGED <<kind, files, manifest, extra>>

List ==
    /\ Editing
    /\ extra' \in {"plain", "nested", "link", "twice", "escaping"}
    /\ UNCHANGED <<kind, files, missing, manifest>>

\* The kind in the first line of the manifest.
Relabel ==
    /\ Editing
    /\ kind' \in Kinds \cup {"unknown"}
    /\ UNCHANGED <<files, missing, manifest, extra>>

-----------------------------------------------------------------------------
(***************************************************************************)
(* rook-verify.                                                            *)
(***************************************************************************)
Pinned(name) == name \notin missing /\ files[name] = manifest[name]
AllPinned == \A name \in DOMAIN manifest : Pinned(name)
RequiredCovered == Required(kind) \subseteq DOMAIN manifest

verify_manifest == AllPinned /\ extra \in {"none", "plain"}

first_payload_divergence(recorded, replayed) ==
    LET shared == 1..(IF Len(recorded) < Len(replayed) THEN Len(recorded) ELSE Len(replayed))
    IN  Len(recorded) # Len(replayed) \/ \E i \in shared : recorded[i] # replayed[i]

Readable(names) == \A name \in names : files[name] # Bad

PinAssumed == TRUE
HeartbeatsPinned == files["heartbeats_recorded.bin"] = files["expected"].heartbeats_recorded

VerifyWasm ==
    LET expected == files["expected"]
        recorded == StreamOf[files["heartbeats_recorded.bin"]]
        replayed == Decides[DecisionInputs(files)]
    IN  IF expected.form # "whole" \/ ~Readable(WASM_RMF_BLOCKADE_FILES \ {"expected"}) THEN "refused"
        ELSE IF DecisionInputs(files) \notin DOMAIN Decides THEN "refused"
        ELSE IF \/ ~HeartbeatsPinned
                \/ <<files["deliveries.bin"], replayed>> # expected.bag_run_hash
                \/ replayed # expected.bag_output_digest
                \/ first_payload_divergence(recorded, replayed) THEN "diverged"
        ELSE IF Len(distinct_states(replayed)) # expected.recorded_states THEN "diverged"
        ELSE "verified"

\* The three recorded hashes, recomputed over the case's corpus.
hash_frames == <<files["case"], files["events.bin"]>>

\* The malformed files are refused before a hash that differs is reported.
VerifyNative ==
    LET expected == files["expected"] IN
    IF expected.form # "whole" \/ ~Readable(NATIVE_ADAPTER_FILES \ {"expected"}) THEN "refused"
    ELSE IF \/ files["events.bin"] # expected.raw_record
            \/ files["effects_captured.bin"] # expected.effects_captured
            \/ hash_frames # expected.hashes THEN "diverged"
    ELSE "integrity"

run ==
    IF ~verify_manifest \/ kind \notin Kinds \/ ~RequiredCovered THEN "refused"
    ELSE IF kind = "native-adapter" THEN VerifyNative ELSE VerifyWasm

Verify ==
    /\ verdict = "none" /\ verdict' = run
    /\ UNCHANGED <<capsule, edits, original, loaded>>

-----------------------------------------------------------------------------
(***************************************************************************)
(* rook: Case::load.  The first line of the manifest that fails decides,   *)
(* and lines come in any order.                                            *)
(***************************************************************************)
FailedLines ==
    {IF name \in missing THEN "refused" ELSE "mismatch" :
        name \in {n \in DOMAIN manifest : ~Pinned(n)}}
    \cup (IF extra \in {"twice", "escaping"} THEN {"refused"} ELSE {})

RecordPinned == files["events.bin"] = files["expected"].raw_record
HashesPinned ==
    /\ files["events.bin"] = files["expected"].raw_record
    /\ files["effects_captured.bin"] = files["expected"].effects_captured

CapturedEffectsAgree == EffectsOf[files["events.bin"]] = files["effects_captured.bin"]

LoadCase ==
    LET expected == files["expected"] IN
    IF ~RequiredCovered \/ expected.form # "whole" THEN "refused"
    ELSE IF ~(files["identity"] = "whole" /\ files["case"] # Bad) THEN "refused"
    ELSE IF ~HashesPinned THEN "mismatch"
    ELSE IF files["events.bin"] = Bad \/ files["effects_captured.bin"] = Bad THEN "refused"
    ELSE IF ~CapturedEffectsAgree \/ hash_frames # expected.hashes THEN "mismatch"
    ELSE "loaded"

Load ==
    /\ loaded = "none"
    /\ loaded' \in IF kind # "native-adapter" THEN {"refused"}
                   ELSE IF FailedLines # {} THEN FailedLines ELSE {LoadCase}
    /\ UNCHANGED <<capsule, edits, original, verdict>>

Next ==
    \/ Rewrite \/ RewriteExpected \/ Repin \/ Unlist \/ Delete \/ List \/ Relabel
    \/ Verify \/ Load

Spec == Init /\ [][Next]_vars

-----------------------------------------------------------------------------
\* Anything but a refusal was said of the bytes the manifest pins, with every
\* required file among them (verify_manifest, Case::load).
SaidOfPinnedBytes ==
    verdict \in {"verified", "integrity", "diverged"} \/ loaded = "loaded" =>
        AllPinned /\ RequiredCovered

\* verified is said of a Wasm capsule alone, and then the replay of the recorded
\* deliveries made the recorded decisions, each of them and no more.
VerifiedMeansReplayed ==
    verdict = "verified" =>
        /\ kind = "wasm-rmf-blockade"
        /\ DecisionInputs(files) \in DOMAIN Decides
        /\ StreamOf[files["heartbeats_recorded.bin"]] = Decides[DecisionInputs(files)]

\* Whoever knows the expected file knows the run: with expected as it was packed
\* no verdict of agreement is given on other evidence, although every other file
\* and the manifest may have been rewritten.  Not committed are the identity, and
\* what the replay is made with: another cell, or params with another angle, is
\* verified where it leads to the decisions that were packed, and nowhere else.
\* What is said is said of pinned bytes, and verified means replayed.
ExpectedCommitsTheRun ==
    /\ SaidOfPinnedBytes /\ VerifiedMeansReplayed
    /\ files["expected"] = original["expected"] =>
          /\ verdict \in {"verified", "integrity"} =>
                \A name \in DOMAIN files \ {"rmf_blockade_cell.wasm", "params", "identity"} :
                    files[name] = original[name]
          /\ verdict = "verified" =>
                Decides[DecisionInputs(files)] = Decides[DecisionInputs(original)]

\* A loaded case is consistent: its recording holds the effects that were
\* captured independently, and both are the ones expected pins.
LoadedMeansConsistent ==
    loaded = "loaded" =>
        /\ EffectsOf[files["events.bin"]] = files["effects_captured.bin"]
        /\ files["expected"] = NativeExpected(files["events.bin"], files["effects_captured.bin"])
        /\ files["case"] = "whole"

\* A case that rook loads is consistent and is never reported as diverged by
\* rook-verify; where rook-verify finds the files intact rook reports a mismatch
\* for one reason alone, captured effects that are not the recording's, which
\* rook-verify does not compare.
ProgramsAgree ==
    /\ LoadedMeansConsistent
    /\ ~(loaded = "loaded" /\ verdict = "diverged")
    /\ (verdict = "integrity" /\ loaded = "mismatch") =>
           EffectsOf[files["events.bin"]] # files["effects_captured.bin"]
=============================================================================
