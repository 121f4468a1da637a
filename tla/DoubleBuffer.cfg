CONSTANT MaxSent = 4
SPECIFICATION FairSpec
INVARIANTS AtMostOneLossPerSwap
PROPERTIES PushedIsHandedOver ImplementsChannel
\* After a torn access the program is undefined and the model takes no step.
CHECK_DEADLOCK FALSE
