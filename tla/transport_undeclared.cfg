\* The contract as it stands: no status is sent that it does not declare.
\* A behaviour ends when its request is answered.
SPECIFICATION Spec
CONSTANTS
    IntegerMax = 10000000
    BigintMax = 20000000
INVARIANT AnswersAreDeclared
CHECK_DEADLOCK FALSE
