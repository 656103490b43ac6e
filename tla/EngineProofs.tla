------------------------------ MODULE EngineProofs ------------------------------
(***************************************************************************)
(* What a start of an engine may rely on, for every set of models: the     *)
(* invariant relates the file, the hash of this start and the network that *)
(* was parsed, and follows the tensors from InitInputs() to an inference.  *)
(***************************************************************************)
EXTENDS EngineCache, TLAPS

\* A conversion works for the model it hashed, unless that was exchanged.
Converting ==
  /\ pc \in {"check", "parse", "build", "open", "write", "load"} => key \in Models
  /\ pc \in {"check", "parse", "build", "open", "write"} => outcome = "none"
  /\ pc \in {"check", "parse"} /\ ~exchange => model = key
  /\ pc \in {"build", "open", "write"} => network \in Models
  /\ pc \in {"build", "open", "write"} /\ ~exchange => network = key

\* A file whose last write ended is whole, and its hash is its engine's.
WholeFile ==
  /\ exists /\ ~torn => file.hash \in Models /\ file.engine \in Models
  /\ exists /\ ~swapped /\ file.engine \in Models => file.engine = file.hash
  /\ pc = "write" => exists /\ torn /\ ~swapped /\ file = Empty

\* How this start came to load the file.
Loading ==
  pc = "load" =>
    \/ outcome \in {"none", "whole"} /\ exists /\ file.hash = key
    \/ outcome = "cut" /\ exists /\ torn /\ file.engine \notin Models
    \/ outcome = "unopened"

\* What was validated is what there is.
Prepared ==
  /\ pc \in {"validate", "running"} => shapes = Tensors
  /\ pc = "running" => Accepts
  /\ pc \notin {"idle", "running", "failed", "rejected"} => moved = Tensors

EngineInv ==
  /\ TypeOK
  /\ Converting
  /\ WholeFile
  /\ Loading
  /\ Prepared
  /\ LoadedIsCurrent
  /\ RejectsOnlyTornFiles
  /\ InferenceIsFed

LEMMA EngineStarts == Init => EngineInv
<1>. SUFFICES ASSUME Init PROVE EngineInv
  OBVIOUS
<1>. USE CacheAssumption DEF CacheAssumption
<1>1. TypeOK
  BY DEF Init, TypeOK, Bytes, Pc, Tensors, Empty
<1>. QED
  BY <1>1 DEF Init, EngineInv, Converting, WholeFile, Loading, Prepared,
              LoadedIsCurrent, RejectsOnlyTornFiles, InferenceIsFed, Tensors

\* Every step keeps it: the type first, then what relates the state.
LEMMA EngineStep == EngineInv /\ [Next]_vars => EngineInv'
<1>. SUFFICES ASSUME EngineInv, [Next]_vars PROVE EngineInv'
  OBVIOUS
<1>. USE CacheAssumption DEF CacheAssumption, EngineInv, held, past
<1>1. CASE Start
  <2>1. TypeOK'
    BY <1>1 DEF TypeOK, Converting, WholeFile, Bytes, Pc, Start
  <2>2. Converting' /\ WholeFile' /\ Loading'
    BY <1>1 DEF TypeOK, Bytes, Converting, WholeFile, Loading, Start
  <2>3. LoadedIsCurrent' /\ RejectsOnlyTornFiles'
    BY <1>1 DEF TypeOK, Converting, WholeFile, Loading, LoadedIsCurrent,
           RejectsOnlyTornFiles, Start
  <2>4. Prepared' /\ InferenceIsFed'
    BY <1>1 DEF TypeOK, Tensors, Prepared, Accepts, Compared, Fits,
           InferenceIsFed, Start
  <2>. QED
    BY <2>1, <2>2, <2>3, <2>4
<1>2. CASE HashModel
  <2>1. TypeOK'
    <3>1. /\ pc' \in Pc /\ key' \in Models \union {Nothing}
          /\ outcome' \in {"none", "whole", "cut", "unopened"}
          /\ exchange' \in BOOLEAN
      BY <1>2 DEF TypeOK, Pc, HashModel
    <3>. QED
      BY <1>2, <3>1 DEF TypeOK, HashModel
  <2>2. Converting' /\ WholeFile' /\ Loading'
    BY <1>2 DEF TypeOK, Bytes, Converting, WholeFile, Loading, HashModel
  <2>3. LoadedIsCurrent' /\ RejectsOnlyTornFiles'
    BY <1>2 DEF TypeOK, Converting, WholeFile, Loading, LoadedIsCurrent,
           RejectsOnlyTornFiles, HashModel
  <2>4. Prepared' /\ InferenceIsFed'
    BY <1>2 DEF TypeOK, Tensors, Prepared, Accepts, Compared, Fits,
           InferenceIsFed, HashModel
  <2>. QED
    BY <2>1, <2>2, <2>3, <2>4
<1>3. CASE CheckCache
  <2>1. TypeOK'
    BY <1>3 DEF TypeOK, Converting, WholeFile, Bytes, Pc, CheckCache, CacheHit
  <2>2. Converting' /\ WholeFile' /\ Loading'
    BY <1>3 DEF TypeOK, Bytes, Converting, WholeFile, Loading, CheckCache,
           CacheHit
  <2>3. LoadedIsCurrent' /\ RejectsOnlyTornFiles'
    BY <1>3 DEF TypeOK, Converting, WholeFile, Loading, LoadedIsCurrent,
           RejectsOnlyTornFiles, CheckCache, CacheHit
  <2>4. Prepared' /\ InferenceIsFed'
    BY <1>3 DEF TypeOK, Tensors, Prepared, Accepts, Compared, Fits,
           InferenceIsFed, CheckCache, CacheHit
  <2>. QED
    BY <2>1, <2>2, <2>3, <2>4
<1>4. CASE ParseModel
  <2>1. TypeOK'
    BY <1>4 DEF TypeOK, Converting, WholeFile, Bytes, Pc, ParseModel
  <2>2. Converting' /\ WholeFile' /\ Loading'
    BY <1>4 DEF TypeOK, Bytes, Converting, WholeFile, Loading, ParseModel
  <2>3. LoadedIsCurrent' /\ RejectsOnlyTornFiles'
    BY <1>4 DEF TypeOK, Converting, WholeFile, Loading, LoadedIsCurrent,
           RejectsOnlyTornFiles, ParseModel
  <2>4. Prepared' /\ InferenceIsFed'
    BY <1>4 DEF TypeOK, Tensors, Prepared, Accepts, Compared, Fits,
           InferenceIsFed, ParseModel
  <2>. QED
    BY <2>1, <2>2, <2>3, <2>4
<1>5. CASE BuildSerializedNetwork
  <2>1. TypeOK'
    BY <1>5 DEF TypeOK, Converting, WholeFile, Bytes, Pc,
           BuildSerializedNetwork
  <2>2. Converting' /\ WholeFile' /\ Loading'
    BY <1>5 DEF TypeOK, Bytes, Converting, WholeFile, Loading,
           BuildSerializedNetwork
  <2>3. LoadedIsCurrent' /\ RejectsOnlyTornFiles'
    BY <1>5 DEF TypeOK, Converting, WholeFile, Loading, LoadedIsCurrent,
           RejectsOnlyTornFiles, BuildSerializedNetwork
  <2>4. Prepared' /\ InferenceIsFed'
    BY <1>5 DEF TypeOK, Tensors, Prepared, Accepts, Compared, Fits,
           InferenceIsFed, BuildSerializedNetwork
  <2>. QED
    BY <2>1, <2>2, <2>3, <2>4
<1>6. CASE ConversionFails
  <2>1. TypeOK'
    BY <1>6 DEF TypeOK, Converting, WholeFile, Bytes, Pc, ConversionFails,
           FileAfterFailure
  <2>2. Converting' /\ WholeFile' /\ Loading'
    BY <1>6 DEF TypeOK, Bytes, Converting, WholeFile, Loading, ConversionFails,
           FileAfterFailure
  <2>3. LoadedIsCurrent' /\ RejectsOnlyTornFiles'
    BY <1>6 DEF TypeOK, Converting, WholeFile, Loading, LoadedIsCurrent,
           RejectsOnlyTornFiles, ConversionFails, FileAfterFailure
  <2>4. Prepared' /\ InferenceIsFed'
    BY <1>6 DEF TypeOK, Tensors, Prepared, Accepts, Compared, Fits,
           InferenceIsFed, ConversionFails, FileAfterFailure
  <2>. QED
    BY <2>1, <2>2, <2>3, <2>4
<1>7. CASE OpenFile
  <2>1. TypeOK'
    BY <1>7 DEF TypeOK, Converting, WholeFile, Bytes, Pc, OpenFile, Empty
  <2>2. Converting' /\ WholeFile' /\ Loading'
    BY <1>7 DEF TypeOK, Bytes, Converting, WholeFile, Loading, OpenFile, Empty
  <2>3. LoadedIsCurrent' /\ RejectsOnlyTornFiles'
    BY <1>7 DEF TypeOK, Converting, WholeFile, Loading, LoadedIsCurrent,
           RejectsOnlyTornFiles, OpenFile, Empty
  <2>4. Prepared' /\ InferenceIsFed'
    BY <1>7 DEF TypeOK, Tensors, Prepared, Accepts, Compared, Fits,
           InferenceIsFed, OpenFile, Empty
  <2>. QED
    BY <2>1, <2>2, <2>3, <2>4
<1>8. CASE OpenFails
  <2>1. TypeOK'
    BY <1>8 DEF TypeOK, Converting, WholeFile, Bytes, Pc, OpenFails
  <2>2. Converting' /\ WholeFile' /\ Loading'
    BY <1>8 DEF TypeOK, Bytes, Converting, WholeFile, Loading, OpenFails
  <2>3. LoadedIsCurrent' /\ RejectsOnlyTornFiles'
    BY <1>8 DEF TypeOK, Converting, WholeFile, Loading, LoadedIsCurrent,
           RejectsOnlyTornFiles, OpenFails
  <2>4. Prepared' /\ InferenceIsFed'
    BY <1>8 DEF TypeOK, Tensors, Prepared, Accepts, Compared, Fits,
           InferenceIsFed, OpenFails
  <2>. QED
    BY <2>1, <2>2, <2>3, <2>4
<1>9. CASE WriteFile
  <2>1. TypeOK'
    BY <1>9 DEF TypeOK, Converting, WholeFile, Bytes, Pc, WriteFile
  <2>2. Converting' /\ WholeFile' /\ Loading'
    BY <1>9 DEF TypeOK, Bytes, Converting, WholeFile, Loading, WriteFile
  <2>3. LoadedIsCurrent' /\ RejectsOnlyTornFiles'
    BY <1>9 DEF TypeOK, Converting, WholeFile, Loading, LoadedIsCurrent,
           RejectsOnlyTornFiles, WriteFile
  <2>4. Prepared' /\ InferenceIsFed'
    BY <1>9 DEF TypeOK, Tensors, Prepared, Accepts, Compared, Fits,
           InferenceIsFed, WriteFile
  <2>. QED
    BY <2>1, <2>2, <2>3, <2>4
<1>10. CASE WriteIsCut
  <2>1. TypeOK'
    BY <1>10 DEF TypeOK, Converting, WholeFile, Bytes, Pc, WriteIsCut, Cut
  <2>2. Converting' /\ WholeFile' /\ Loading'
    BY <1>10 DEF TypeOK, Bytes, Converting, WholeFile, Loading, WriteIsCut, Cut
  <2>3. LoadedIsCurrent' /\ RejectsOnlyTornFiles'
    BY <1>10 DEF TypeOK, Converting, WholeFile, Loading, LoadedIsCurrent,
           RejectsOnlyTornFiles, WriteIsCut, Cut
  <2>4. Prepared' /\ InferenceIsFed'
    BY <1>10 DEF TypeOK, Tensors, Prepared, Accepts, Compared, Fits,
           InferenceIsFed, WriteIsCut, Cut
  <2>. QED
    BY <2>1, <2>2, <2>3, <2>4
<1>11. CASE LoadEngine
  <2>1. TypeOK'
    BY <1>11 DEF TypeOK, Converting, WholeFile, Bytes, Pc, LoadEngine,
           DestroyBuffers, Deserialises
  <2>2. Converting' /\ WholeFile' /\ Loading'
    BY <1>11 DEF TypeOK, Bytes, Converting, WholeFile, Loading, LoadEngine,
           DestroyBuffers, Deserialises
  <2>3. LoadedIsCurrent' /\ RejectsOnlyTornFiles'
    BY <1>11 DEF TypeOK, Converting, WholeFile, Loading, LoadedIsCurrent,
           RejectsOnlyTornFiles, LoadEngine, DestroyBuffers, Deserialises
  <2>4. Prepared' /\ InferenceIsFed'
    BY <1>11 DEF TypeOK, Tensors, Prepared, Accepts, Compared, Fits,
           InferenceIsFed, LoadEngine, DestroyBuffers, Deserialises
  <2>. QED
    BY <2>1, <2>2, <2>3, <2>4
<1>12. CASE LoadFails
  <2>1. TypeOK'
    BY <1>12 DEF TypeOK, Converting, WholeFile, Bytes, Pc, LoadFails,
           DestroyBuffers
  <2>2. Converting' /\ WholeFile' /\ Loading'
    BY <1>12 DEF TypeOK, Bytes, Converting, WholeFile, Loading, LoadFails,
           DestroyBuffers
  <2>3. LoadedIsCurrent' /\ RejectsOnlyTornFiles'
    BY <1>12 DEF TypeOK, Converting, WholeFile, Loading, LoadedIsCurrent,
           RejectsOnlyTornFiles, LoadFails, DestroyBuffers
  <2>4. Prepared' /\ InferenceIsFed'
    BY <1>12 DEF TypeOK, Tensors, Prepared, Accepts, Compared, Fits,
           InferenceIsFed, LoadFails, DestroyBuffers
  <2>. QED
    BY <2>1, <2>2, <2>3, <2>4
<1>13. CASE InitTensor
  <2>1. TypeOK'
    BY <1>13 DEF TypeOK, Converting, WholeFile, Bytes, Pc, InitTensor
  <2>2. Converting' /\ WholeFile' /\ Loading'
    BY <1>13 DEF TypeOK, Bytes, Converting, WholeFile, Loading, InitTensor
  <2>3. LoadedIsCurrent' /\ RejectsOnlyTornFiles'
    BY <1>13 DEF TypeOK, Converting, WholeFile, Loading, LoadedIsCurrent,
           RejectsOnlyTornFiles, InitTensor
  <2>4. Prepared' /\ InferenceIsFed'
    BY <1>13 DEF TypeOK, Tensors, Prepared, Accepts, Compared, Fits,
           InferenceIsFed, InitTensor
  <2>. QED
    BY <2>1, <2>2, <2>3, <2>4
<1>14. CASE InitTensorFails
  <2>1. TypeOK'
    BY <1>14 DEF TypeOK, Converting, WholeFile, Bytes, Pc, InitTensorFails
  <2>2. Converting' /\ WholeFile' /\ Loading'
    BY <1>14 DEF TypeOK, Bytes, Converting, WholeFile, Loading, InitTensorFails
  <2>3. LoadedIsCurrent' /\ RejectsOnlyTornFiles'
    BY <1>14 DEF TypeOK, Converting, WholeFile, Loading, LoadedIsCurrent,
           RejectsOnlyTornFiles, InitTensorFails
  <2>4. Prepared' /\ InferenceIsFed'
    BY <1>14 DEF TypeOK, Tensors, Prepared, Accepts, Compared, Fits,
           InferenceIsFed, InitTensorFails
  <2>. QED
    BY <2>1, <2>2, <2>3, <2>4
<1>15. CASE Validate
  <2>1. TypeOK'
    BY <1>15 DEF TypeOK, Converting, WholeFile, Bytes, Pc, Validate
  <2>2. Converting' /\ WholeFile' /\ Loading'
    BY <1>15 DEF TypeOK, Bytes, Converting, WholeFile, Loading, Validate
  <2>3. LoadedIsCurrent' /\ RejectsOnlyTornFiles'
    BY <1>15 DEF TypeOK, Converting, WholeFile, Loading, LoadedIsCurrent,
           RejectsOnlyTornFiles, Validate
  <2>4. Prepared' /\ InferenceIsFed'
    BY <1>15 DEF TypeOK, Tensors, Prepared, Accepts, Compared, Fits,
           InferenceIsFed, Validate
  <2>. QED
    BY <2>1, <2>2, <2>3, <2>4
<1>16. CASE StreamFails
  <2>1. TypeOK'
    BY <1>16 DEF TypeOK, Converting, WholeFile, Bytes, Pc, StreamFails
  <2>2. Converting' /\ WholeFile' /\ Loading'
    BY <1>16 DEF TypeOK, Bytes, Converting, WholeFile, Loading, StreamFails
  <2>3. LoadedIsCurrent' /\ RejectsOnlyTornFiles'
    BY <1>16 DEF TypeOK, Converting, WholeFile, Loading, LoadedIsCurrent,
           RejectsOnlyTornFiles, StreamFails
  <2>4. Prepared' /\ InferenceIsFed'
    BY <1>16 DEF TypeOK, Tensors, Prepared, Accepts, Compared, Fits,
           InferenceIsFed, StreamFails
  <2>. QED
    BY <2>1, <2>2, <2>3, <2>4
<1>17. CASE Infer
  <2>1. TypeOK'
    BY <1>17 DEF TypeOK, Converting, WholeFile, Bytes, Pc, Infer
  <2>2. Converting' /\ WholeFile' /\ Loading'
    BY <1>17 DEF TypeOK, Bytes, Converting, WholeFile, Loading, Infer
  <2>3. LoadedIsCurrent' /\ RejectsOnlyTornFiles'
    BY <1>17 DEF TypeOK, Converting, WholeFile, Loading, LoadedIsCurrent,
           RejectsOnlyTornFiles, Infer
  <2>4. Prepared' /\ InferenceIsFed'
    BY <1>17 DEF TypeOK, Tensors, Prepared, Accepts, Compared, Fits,
           InferenceIsFed, Infer
  <2>. QED
    BY <2>1, <2>2, <2>3, <2>4
<1>18. CASE Stop
  <2>1. TypeOK'
    BY <1>18 DEF TypeOK, Converting, WholeFile, Bytes, Pc, Stop
  <2>2. Converting' /\ WholeFile' /\ Loading'
    BY <1>18 DEF TypeOK, Bytes, Converting, WholeFile, Loading, Stop
  <2>3. LoadedIsCurrent' /\ RejectsOnlyTornFiles'
    BY <1>18 DEF TypeOK, Converting, WholeFile, Loading, LoadedIsCurrent,
           RejectsOnlyTornFiles, Stop
  <2>4. Prepared' /\ InferenceIsFed'
    BY <1>18 DEF TypeOK, Tensors, Prepared, Accepts, Compared, Fits,
           InferenceIsFed, Stop
  <2>. QED
    BY <2>1, <2>2, <2>3, <2>4
<1>19. CASE Crash
  <2>1. TypeOK'
    BY <1>19 DEF TypeOK, Converting, WholeFile, Bytes, Pc, Crash, Cut,
           DestroyBuffers
  <2>2. Converting' /\ WholeFile' /\ Loading'
    BY <1>19 DEF TypeOK, Bytes, Converting, WholeFile, Loading, Crash, Cut,
           DestroyBuffers
  <2>3. LoadedIsCurrent' /\ RejectsOnlyTornFiles'
    BY <1>19 DEF TypeOK, Converting, WholeFile, Loading, LoadedIsCurrent,
           RejectsOnlyTornFiles, Crash, Cut, DestroyBuffers
  <2>4. Prepared' /\ InferenceIsFed'
    BY <1>19 DEF TypeOK, Tensors, Prepared, Accepts, Compared, Fits,
           InferenceIsFed, Crash, Cut, DestroyBuffers
  <2>. QED
    BY <2>1, <2>2, <2>3, <2>4
<1>20. CASE ExchangeModel
  <2>1. TypeOK'
    BY <1>20 DEF TypeOK, Converting, WholeFile, Bytes, Pc, ExchangeModel
  <2>2. Converting' /\ WholeFile' /\ Loading'
    BY <1>20 DEF TypeOK, Bytes, Converting, WholeFile, Loading, ExchangeModel
  <2>3. LoadedIsCurrent' /\ RejectsOnlyTornFiles'
    BY <1>20 DEF TypeOK, Converting, WholeFile, Loading, LoadedIsCurrent,
           RejectsOnlyTornFiles, ExchangeModel
  <2>4. Prepared' /\ InferenceIsFed'
    BY <1>20 DEF TypeOK, Tensors, Prepared, Accepts, Compared, Fits,
           InferenceIsFed, ExchangeModel
  <2>. QED
    BY <2>1, <2>2, <2>3, <2>4
<1>21. CASE UNCHANGED vars
  BY <1>21 DEF vars, TypeOK, Converting, WholeFile, Loading, Prepared, Accepts,
         Compared, Fits, LoadedIsCurrent, RejectsOnlyTornFiles, InferenceIsFed
<1>. QED
  BY <1>1, <1>2, <1>3, <1>4, <1>5, <1>6, <1>7, <1>8, <1>9, <1>10, <1>11, <1>12,
     <1>13, <1>14, <1>15, <1>16, <1>17, <1>18, <1>19, <1>20, <1>21
     DEF Next

LEMMA EngineAlways == Spec => []EngineInv
BY EngineStarts, EngineStep, PTL DEF Spec

-------------------------------------------------------------------------------
\* Type correctness; in particular no bytes without a file.
THEOREM EngineTypeCorrect == Spec => []TypeOK
BY EngineAlways, PTL DEF EngineInv

(* An engine that is initialised, validated or running is the one of the   *)
(* model this start hashed, whatever crashed, was cut or was exchanged     *)
(* before: but for an exchange in the middle of the conversion, and for a  *)
(* stale file that could not be opened.                                    *)
THEOREM EngineIsCurrent == Spec => []LoadedIsCurrent
BY EngineAlways, PTL DEF EngineInv

(* Initialize() rejects only what a write that did not end has left, or a  *)
(* file that could not be opened for writing.                              *)
THEOREM RejectedWasTorn == Spec => []RejectsOnlyTornFiles
BY EngineAlways, PTL DEF EngineInv

(* A file shorter than its hash reaches Initialize() only in the start     *)
(* that failed to write it: the comparison with the hash stops every       *)
(* earlier one.                                                            *)
THEOREM ShortFilesAreRebuilt == Spec => []HeaderIsWhole
<1>1. EngineInv => HeaderIsWhole
  <2>. SUFFICES ASSUME EngineInv, pc = "load", exists,
                       file.hash \in {Nothing, "torn"}
                PROVE  outcome \in {"cut", "unopened"}
    BY DEF HeaderIsWhole
  <2>1. key \in Models
    BY DEF EngineInv, Converting
  <2>2. file.hash # key
    BY <2>1, CacheAssumption DEF CacheAssumption
  <2>. QED
    BY <2>2 DEF EngineInv, Loading
<1>. QED
  BY <1>1, EngineAlways, PTL

(* An inference skips a tensor the start of its caller compared only for   *)
(* its data type: in every order of starts, failures and exchanged models, *)
(* and for all sizes the models' tensors may have.                         *)
THEOREM FedAsCompared == Spec => []InferenceIsFed
BY EngineAlways, PTL DEF EngineInv
===============================================================================
