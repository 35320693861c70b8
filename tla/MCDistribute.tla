---------------------------- MODULE MCDistribute ----------------------------
(***************************************************************************)
(* A small instance of Distribute for TLC: an agent without tags and one   *)
(* with a tag, and three jobs.                                             *)
(***************************************************************************)
EXTENDS Distribute

CONSTANTS a1, a2, j1, j2, j3, tag

Tags == [a \in Agents |-> IF a = a1 THEN {} ELSE {tag}]

\* Room for one job each, or for two on the agent with the tag.
Room == {[a \in Agents |-> 1], [a \in Agents |-> IF a = a1 THEN 1 ELSE 2]}

Def(restrict, priority, gpus) ==
  [restrict |-> restrict, priority |-> priority, gpus |-> gpus]

Req(type, memory) == [type |-> type, memory |-> memory]

\* A priority of 0 is 10, and one of 101 is 100. Nothing keeps a memory from being -2.
Defs ==
  <<Def({}, 0, <<>>),
   Def({tag}, 101, <<>>),
   Def({}, 5, <<Req("X", 2)>>),
   Def({}, 50, <<Req("", 0)>>),
   Def({}, 20, <<Req("", 1), Req("X", 0)>>),
   Def({tag}, 20, <<Req("X", 1), Req("X", 1)>>),
   Def({}, 20, <<Req("", -2)>>)>>

\* Which of the three jobs is which makes no difference.
Posted ==
  {[j \in Jobs |-> CASE j = j1 -> Defs[i] [] j = j2 -> Defs[k] [] j = j3 -> Defs[m]] :
     <<i, k, m>> \in {t \in (DOMAIN Defs) \X (DOMAIN Defs) \X (DOMAIN Defs) :
                       t[1] <= t[2] /\ t[2] <= t[3]}}

Gpu(name, free) == [name |-> name, free |-> free]
NoGpu == [error |-> "no device"]

Printed == {<<Gpu("X", 1)>>, <<Gpu("X", 2), NoGpu, Gpu("Y", 1)>>,
            <<Gpu("Y", 2), Gpu("X", 2)>>}

=============================================================================
