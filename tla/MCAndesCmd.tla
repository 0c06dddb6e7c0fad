------------------------------ MODULE MCAndesCmd ------------------------------
EXTENDS AndesCmd
ModelBudgets == {[calls |-> 3, offs |-> 0, events |-> 0], [calls |-> 1, offs |-> 1, events |-> 0],
                 [calls |-> 0, offs |-> 1, events |-> 2], [calls |-> 0, offs |-> 2, events |-> 1]}
=============================================================================
