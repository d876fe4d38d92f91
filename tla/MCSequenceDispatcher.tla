------------------------ MODULE MCSequenceDispatcher ------------------------
EXTENDS SequenceDispatcher
MCChainLists == {<<1>>, <<2>>, <<1, 2>>}
MCSessionOf  == [c \in Chains |-> c]
=============================================================================
