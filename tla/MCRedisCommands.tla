--------------------------- MODULE MCRedisCommands ---------------------------
EXTENDS RedisCommands
MCKey == {"a", "b", "c"}
MCSlotOf == [k \in MCKey |-> IF k = "a" THEN 0 ELSE 1]
MCRawSlotOf == [k \in MCKey |-> IF k = "b" THEN 1 ELSE 0]
\* Slots that no builder takes for "none".
MCSlotOfNotZero == [k \in MCKey |-> 1 + MCSlotOf[k]]
MCRawSlotOfNotZero == [k \in MCKey |-> 1 + MCRawSlotOf[k]]
=============================================================================
