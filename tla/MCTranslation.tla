--------------------------- MODULE MCTranslation ---------------------------
\* The optimizer composed with the simulator, on the sample modules.
EXTENDS Translation, Samples

\* The functions of a module have different names, as Translation_proofs asks.
ASSUME SampleNamesDiffer ==
  \A program \in Programs : \A i, j \in DOMAIN program :
    program[i].name = program[j].name => i = j
=============================================================================
