---------------------------- MODULE LogicQueueMC ----------------------------
EXTENDS LogicQueue

\* One message has an id that no handler is registered for.
Some == Node \ {CHOOSE m \in Node : TRUE}
=============================================================================
