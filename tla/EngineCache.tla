------------------------------ MODULE EngineCache ------------------------------
(***************************************************************************)
(* The TensorRT engine kept beside an ONNX model (InferenceEngine.cpp):    *)
(* ConvertONNXToTRT() hashes the model, takes the file if it begins with   *)
(* that hash and rebuilds it otherwise; Initialize() deserialises whatever *)
(* the file then holds.  The process may die at any step, a write may be   *)
(* cut short, and the model may be exchanged under a running start.        *)
(* InitInputs() then gives every tensor a shape and a buffer, the caller   *)
(* (planner_inference.cpp, obs_dict_model.cpp) validates them, and each    *)
(* inference copies its data through those buffers.                        *)
(*                                                                         *)
(* A model stands for its trtHash: content, GPU and precision together.    *)
(* The tensors are those whose size the planner compares, and the others;  *)
(* a tensor has a number of elements and a data type, which stands for its *)
(* size in bytes.                                                          *)
(***************************************************************************)
EXTENDS Naturals

CONSTANTS
  Models,       \* contents the ONNX file may have
  Elements,     \* of each model's tensors; 0: no tensor of that name
  DataTypeSize, \* of each model's tensors
  kElements,    \* elements of the data the caller moves
  kDataTypeSize, \* and the size of one of them
  Nothing       \* no model, no file, no bytes

Tensors == {"compared", "other"}

ASSUME CacheAssumption ==
  /\ Elements \in [Models -> [Tensors -> Nat]]
  /\ DataTypeSize \in [Models -> [Tensors -> Nat \ {0}]]
  /\ kElements \in [Tensors -> Nat \ {0}]
  /\ kDataTypeSize \in Nat \ {0}
  /\ Nothing \notin Models
  /\ "torn" \notin Models \union {Nothing}

Bytes == Models \union {Nothing, "torn"}
Pc    == {"idle", "hash", "check", "parse", "build", "open", "write", "load",
          "inputs", "validate", "running", "failed", "rejected"}

VARIABLES
  caller,   \* who owns the engine: "planner" or an "obs_dict" model
  model,    \* the ONNX file
  exists,   \* FileExists(trtFile)
  file,     \* trtFile: the 64 bytes of the hash, and the engine
  pc,
  key,      \* trtHash of this start
  network,  \* the model parsed for serializedNetwork
  engine,   \* m_engine
  shapes,   \* the tensors in m_tensorShapes
  buffers,  \* the tensors in m_inputBuffers and m_outputBuffers
  moved,    \* history: the tensors this start's last inference copied; all
            \* before the first
  outcome,  \* history: what this start did to the file
  swapped,  \* history: the file's engine was parsed from an exchanged model
  torn,     \* history: the file's last writer did not write it to the end
  exchange  \* history: ... between this start's hash and its parser

past == <<outcome, swapped, torn, exchange>>
held == <<shapes, buffers, moved>>
vars == <<caller, model, exists, file, pc, key, network, engine, held, past>>

Empty == [hash |-> Nothing, engine |-> Nothing]

Init ==
  /\ caller \in {"planner", "obs_dict"}
  /\ model \in Models
  /\ exists = FALSE
  /\ file = Empty
  /\ pc = "idle"
  /\ key = Nothing
  /\ network = Nothing
  /\ engine = Nothing
  /\ shapes = {}
  /\ buffers = {}
  /\ moved = Tensors
  /\ outcome = "none"
  /\ swapped = FALSE
  /\ torn = FALSE
  /\ exchange = FALSE

\* What is on the disk when a write of k and its engine stops early.
Cut(k) == [hash : {Nothing, "torn"}, engine : {Nothing}]
          \union [hash : {k}, engine : {Nothing, "torn"}]

-------------------------------------------------------------------------------
\* ConvertONNXToTRT().

Start ==
  /\ pc \in {"idle", "failed", "rejected"}
  /\ pc' = "hash"
  /\ moved' = Tensors
  /\ UNCHANGED <<caller, model, exists, file, key, network, engine, shapes,
                 buffers, past>>

HashModel ==
  /\ pc = "hash"
  /\ IF model = Nothing
     THEN pc' = "failed" /\ UNCHANGED <<key, outcome, exchange>>
     ELSE /\ pc' = "check"
          /\ key' = model
          /\ outcome' = "none"
          /\ exchange' = FALSE
  /\ UNCHANGED <<caller, model, exists, file, network, engine, swapped, torn,
                 held>>

\* Mutant: any file is taken for the model's engine.
CacheHitAny == exists

\* Mutant: a hash that was cut short compares equal.
CacheHitPrefix == exists /\ file.hash \in {key, "torn"}

CacheHit == exists /\ file.hash = key

CheckCache ==
  /\ pc = "check"
  /\ IF CacheHit THEN pc' = "load" ELSE pc' = "parse"
  /\ UNCHANGED <<caller, model, exists, file, key, network, engine, held,
                 past>>

\* parseFromFile() opens the model a second time.
ParseModel ==
  /\ pc = "parse"
  /\ model # Nothing
  /\ network' = model
  /\ pc' = "build"
  /\ UNCHANGED <<caller, model, exists, file, key, engine, held, past>>

BuildSerializedNetwork ==
  /\ pc = "build"
  /\ pc' = "open"
  /\ UNCHANGED <<caller, model, exists, file, key, network, engine, held,
                 past>>

\* Mutant: the hash is in the file before the engine is built.
FileOfFailedBuild == [hash |-> key, engine |-> Nothing]

\* A failed build returns before the file is touched.
FileAfterFailure == file

\* The parser, an unnamed dynamic axis, the device: false is returned.
ConversionFails ==
  /\ pc \in {"parse", "build"}
  /\ pc' = "failed"
  /\ file' = FileAfterFailure
  /\ UNCHANGED <<caller, model, exists, key, network, engine, held, past>>

OpenFile ==
  /\ pc = "open"
  /\ exists' = TRUE
  /\ file' = Empty
  /\ torn' = TRUE
  /\ swapped' = FALSE
  /\ pc' = "write"
  /\ UNCHANGED <<caller, model, key, network, engine, outcome, exchange, held>>

\* The stream is never tested: without a file both writes do nothing.
OpenFails ==
  /\ pc = "open"
  /\ outcome' = "unopened"
  /\ pc' = "load"
  /\ UNCHANGED <<caller, model, exists, file, key, network, engine, swapped,
                 torn, exchange, held>>

WriteFile ==
  /\ pc = "write"
  /\ file' = [hash |-> key, engine |-> network]
  /\ outcome' = "whole"
  /\ torn' = FALSE
  /\ swapped' = exchange
  /\ pc' = "load"
  /\ UNCHANGED <<caller, model, exists, key, network, engine, exchange, held>>

\* A full disk: a short write is not noticed either.
WriteIsCut ==
  /\ pc = "write"
  /\ file' \in Cut(key)
  /\ outcome' = "cut"
  /\ pc' = "load"
  /\ UNCHANGED <<caller, model, exists, key, network, engine, swapped, torn,
                 exchange, held>>

-------------------------------------------------------------------------------
\* Initialize() and InitInputs(), and the callers' validation of the tensors.

Deserialises == exists /\ file.engine \in Models

\* DestroyBuffers()
DestroyBuffers ==
  /\ shapes' = {}
  /\ buffers' = {}
  /\ UNCHANGED moved

\* Destroy() first; the engine starts at byte 64.
LoadEngine ==
  /\ pc = "load"
  /\ DestroyBuffers
  /\ IF Deserialises
     THEN engine' = file.engine /\ pc' = "inputs"
     ELSE engine' = Nothing /\ pc' = "rejected"
  /\ UNCHANGED <<caller, model, exists, file, key, network, past>>

\* The runtime, the device or the execution context.
LoadFails ==
  /\ pc = "load"
  /\ DestroyBuffers
  /\ pc' = "failed"
  /\ engine' \in {Nothing} \union ({file.engine} \ {"torn"})
  /\ UNCHANGED <<caller, model, exists, file, key, network, past>>

\* One round of InitInputs().
InitTensor ==
  /\ pc = "inputs"
  /\ \E tensor \in Tensors \ shapes :
       /\ shapes' = shapes \union {tensor}
       /\ buffers' = buffers \union {tensor}
  /\ pc' = IF shapes' = Tensors THEN "validate" ELSE pc
  /\ UNCHANGED <<caller, model, exists, file, key, network, engine, moved,
                 past>>

\* A dynamic axis without a size ends it before the shape is stored; a size
\* that overflows, an unknown type or the device's memory, after.
InitTensorFails ==
  /\ pc = "inputs"
  /\ \/ UNCHANGED shapes
     \/ \E tensor \in Tensors \ shapes : shapes' = shapes \union {tensor}
  /\ pc' = "failed"
  /\ UNCHANGED <<caller, model, exists, file, key, network, engine, buffers,
                 moved, past>>

\* The planner compares two sizes, the encoder and the decoder all.
Compared == IF caller = "planner" THEN {"compared"} ELSE Tensors

\* Mutant: the names are compared, and no size.
AcceptsNames == buffers = Tensors

\* The names are those of the buffers; the sizes are numbers of elements,
\* whatever their type.
Accepts ==
  /\ buffers = Tensors
  /\ \A tensor \in Compared : Elements[engine][tensor] = kElements[tensor]

Validate ==
  /\ pc = "validate"
  /\ pc' = IF Accepts THEN "running" ELSE "failed"
  /\ UNCHANGED <<caller, model, exists, file, key, network, engine, held,
                 past>>

\* cudaStreamCreate()
StreamFails ==
  /\ pc = "validate"
  /\ Accepts
  /\ pc' = "failed"
  /\ UNCHANGED <<caller, model, exists, file, key, network, engine, held,
                 past>>

\* The tensors an inference can move: bytes are compared here.
Fits == {tensor \in Tensors :
           Elements[engine][tensor] * DataTypeSize[engine][tensor]
             = kElements[tensor] * kDataTypeSize}

\* An inference: a tensor of another size is logged and left as it is, which
\* no caller learns of.
Infer ==
  /\ pc = "running"
  /\ shapes # {}
  /\ moved' = Fits \intersect shapes \intersect buffers
  /\ UNCHANGED <<caller, model, exists, file, pc, key, network, engine, shapes,
                 buffers, past>>

-------------------------------------------------------------------------------
\* The end of a start, and what others do to the model.

Stop ==
  /\ pc = "running"
  /\ pc' = "idle"
  /\ UNCHANGED <<caller, model, exists, file, key, network, engine, held,
                 past>>

\* The process dies; a buffered write may have reached any point.
Crash ==
  /\ pc # "idle"
  /\ pc' = "idle"
  /\ IF pc = "write"
     THEN file' \in Cut(key)
     ELSE UNCHANGED file
  /\ engine' = Nothing
  /\ DestroyBuffers
  /\ UNCHANGED <<caller, model, exists, key, network, past>>

ExchangeModel ==
  /\ model' \in (Models \union {Nothing}) \ {model}
  /\ exchange' = (exchange \/ pc \in {"check", "parse"})
  /\ UNCHANGED <<caller, exists, file, pc, key, network, engine, outcome,
                 swapped, torn, held>>

Next ==
  \/ Start \/ HashModel \/ CheckCache \/ ParseModel \/ BuildSerializedNetwork
  \/ ConversionFails \/ OpenFile \/ OpenFails \/ WriteFile \/ WriteIsCut
  \/ LoadEngine \/ LoadFails \/ InitTensor \/ InitTensorFails
  \/ Validate \/ StreamFails \/ Infer \/ Stop \/ Crash \/ ExchangeModel

Spec == Init /\ [][Next]_vars

-------------------------------------------------------------------------------
(* Type correctness; a file exists before it has contents. *)
TypeOK ==
  /\ caller \in {"planner", "obs_dict"}
  /\ model \in Models \union {Nothing}
  /\ exists \in BOOLEAN
  /\ file \in [hash : Bytes, engine : Bytes]
  /\ ~exists => file = Empty
  /\ pc \in Pc
  /\ key \in Models \union {Nothing}
  /\ network \in Models \union {Nothing}
  /\ engine \in Models \union {Nothing}
  /\ shapes \subseteq Tensors
  /\ buffers \subseteq Tensors
  /\ moved \subseteq Tensors
  /\ outcome \in {"none", "whole", "cut", "unopened"}
  /\ swapped \in BOOLEAN
  /\ torn \in BOOLEAN
  /\ exchange \in BOOLEAN

(* An engine that runs was built from the model this start hashed, through *)
(* every sequence of exchanged models and crashed starts.  Two mishaps     *)
(* break it, and no other: the model was exchanged while it was being      *)
(* converted, which the hash then hides for good, or the stale file could  *)
(* not be opened for its rebuild and is loaded instead.                    *)
LoadedIsCurrent ==
  pc \in {"inputs", "validate", "running"} =>
    engine = key \/ swapped \/ outcome = "unopened"

(* Initialize() rejects a file only when its last write did not end, in    *)
(* this start or in one that died, or when it could not be opened for      *)
(* writing: a failed build leaves no file behind that the hash vouches for. *)
RejectsOnlyTornFiles ==
  pc = "rejected" => torn \/ outcome = "unopened"

(* Initialize() subtracts the 64 bytes of the hash from the size of the    *)
(* file without a test.  A file shorter than that is met only if this very *)
(* start failed to write it: one left by an earlier crash is rebuilt.      *)
HeaderIsWhole ==
  pc = "load" /\ exists /\ file.hash \in {Nothing, "torn"} =>
    outcome \in {"cut", "unopened"}

(* An inference that returns has copied this call's data through every     *)
(* tensor the caller's start compared, on the engine of that start: a      *)
(* tensor it could not prepare, or of another model, never gets that far.  *)
(* One thing does: a compared tensor with the caller's number of elements  *)
(* and another data type is accepted, and then skipped by every inference. *)
(* What the caller does not compare, it may read as InitInputs()'s zeros.  *)
InferenceIsFed ==
  pc = "running" =>
    \A tensor \in Compared :
      tensor \in moved \/ DataTypeSize[engine][tensor] # kDataTypeSize
===============================================================================
