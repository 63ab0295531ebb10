\* One request to each operation of the contract, in every form.
\* A behaviour ends when its request is answered.
SPECIFICATION Spec
CONSTANTS
    IntegerMax = 10000000
    BigintMax = 20000000
INVARIANTS AnswersKeepContract ErrorsTellTheirCode UseCasesGetWhatTheyExpect AcceptedBodiesFit
CHECK_DEADLOCK FALSE
