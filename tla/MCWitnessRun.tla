----------------------------- MODULE MCWitnessRun -----------------------------
(***************************************************************************)
(* Instances of WitnessRun.  The context: every mix of run types for three *)
(* attestors, with hook declarers and overlapping materials and products.  *)
(* run(): two material attestors and a product attestor, with every        *)
(* combination of export interfaces, both in the first attestor included,  *)
(* and the options that change control.                                    *)
(***************************************************************************)
EXTENDS WitnessRun

CONSTANTS RunTypes,   \* the run types the instance draws from
          Declarers,  \* the sets of hook declarers it draws from
          Kinds       \* the export interfaces it draws from: "off" and "on" are an
                      \* Exporter by what Export() says, "multi" a MultiExporter,
                      \* "multioff" and "multion" both

MCContexts ==
  [runType   : [1..N -> RunTypes],
   declarers : Declarers,
   materials : {[a \in 1..N |-> Path]},
   products  : {[a \in 1..N |-> IF a = 1 THEN {} ELSE Path]}]

MCSteps ==
  [runType   : {<<Material, Material, Product>>, <<Material, Unset, Product>>},
   declarers : {{}},
   materials : {<<Path, {}, Path>>, <<Path, Path, {}>>},
   products  : {<<{}, {}, Path>>}]

MCConfiguration == MCContexts \cup MCSteps

Both == {"multioff", "multion"}

With(kinds, k) == {a \in 1..N : kinds[a] \in k}

MCExports ==
  UNION {[stepName : {TRUE}, signers : {TRUE}, insecure : BOOLEAN,
          ignoreErrors : BOOLEAN,
          exporters : {With(kinds, {"off", "on"} \cup Both)},
          exporting : {With(kinds, {"on", "multion"})},
          multiExporters : {With(kinds, {"multi"} \cup Both)}] :
         kinds \in {k \in [1..N -> Kinds] : \A a \in 2..N : k[a] \notin Both}}

MCPlain ==
  [stepName : BOOLEAN, signers : BOOLEAN, insecure : BOOLEAN, ignoreErrors : {FALSE},
   exporters : {{}}, exporting : {{}}, multiExporters : {{}}]

MCRunOptions == MCExports \cup MCPlain

MCRuns ==
  (MCSteps \X MCExports)
  \cup (MCContexts \X {o \in MCPlain : o.stepName /\ o.signers /\ ~ o.insecure})
  \cup (MCSteps \X {o \in MCPlain : ~ o.stepName \/ ~ o.signers})
=============================================================================
