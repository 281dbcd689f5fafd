---------------------------- MODULE MCAlgorithms ----------------------------
(* The algorithms that run on their own, checked side by side: a behaviour  *)
(* is one of theirs, and the variables of the others are idle.              *)
EXTENDS CrossCurve, PointEncoding, SelectorStream, NonceBatch, FixedBase

VARIABLE running

ASSUME AlgorithmAssumption ==
    /\ BatchAssumption
    /\ CrossCurveAssumption
    /\ ResponsesFit
    /\ FixedBaseAssumption
    /\ StreamAssumption
    /\ EncodingAssumption

NoBatch    == leaves = <<>> /\ hashes = <<>> /\ levelSize = 0 /\ i = 0
NoEquality == statement = [kind |-> "none"] /\ proof = NoProof
NoMultiple == base = 0 /\ table = <<>> /\ baseExp = 0
NoStream   == selectors = <<>> /\ out = <<>> /\ next = 0
NoEncoding == chunk = <<>> /\ counter = 0 /\ point = Searching

AlgorithmsInit ==
    \/ running = "batch" /\ BatchInit /\ NoEquality /\ NoMultiple /\ NoStream /\ NoEncoding
    \/ running = "equality" /\ NoBatch /\ Init /\ NoMultiple /\ NoStream /\ NoEncoding
    \/ running = "multiple" /\ NoBatch /\ NoEquality /\ TableInit /\ NoStream /\ NoEncoding
    \/ running = "stream" /\ NoBatch /\ NoEquality /\ NoMultiple /\ StreamInit /\ NoEncoding
    \/ running = "encoding" /\ NoBatch /\ NoEquality /\ NoMultiple /\ NoStream /\ EncodingInit

AlgorithmsNext ==
    /\ \/ running = "batch" /\ BatchNext
          /\ UNCHANGED <<vars, tableVars, streamVars, encodingVars>>
       \/ running = "equality" /\ Next
          /\ UNCHANGED <<batchVars, tableVars, streamVars, encodingVars>>
       \/ running = "multiple" /\ TableNext
          /\ UNCHANGED <<batchVars, vars, streamVars, encodingVars>>
       \/ running = "stream" /\ StreamNext
          /\ UNCHANGED <<batchVars, vars, tableVars, encodingVars>>
       \/ running = "encoding" /\ EncodingNext
          /\ UNCHANGED <<batchVars, vars, tableVars, streamVars>>
    /\ UNCHANGED running

AlgorithmsSpec ==
    AlgorithmsInit
    /\ [][AlgorithmsNext]_<<running, batchVars, vars, tableVars, streamVars, encodingVars>>
=============================================================================
