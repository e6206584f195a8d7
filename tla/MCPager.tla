------------------------------ MODULE MCPager ------------------------------
(***************************************************************************)
(* Pager for TLC: pages from one character to the largest gdb asks for,    *)
(* documents from empty to a little more than three of those; up to two    *)
(* threads, with every character that is special in a document.            *)
(***************************************************************************)
EXTENDS Pager

MCSizes      == 0 .. 3 * (Cap - 5) + 2
MCLengths    == 1 .. Cap - 5
MCLibLengths == 1 .. Word \div 2 - 1

MCChar == Pieces \cup {"0", "1", "8000", "8001", "8002", "7002", "a", "<", ">", "'", Quote}

Thread(id, idle, affinity, states, name) ==
    [id |-> id, idle |-> idle, affinity |-> affinity, upir |-> "1",
     states |-> states, name |-> name]

Main(name) == Thread("8000", FALSE, "0", {"running", "detach"}, name)
Other      == Thread("8001", FALSE, "any", {"waiting"}, "none")
IdleThread == Thread("7002", TRUE, "1", {}, "none")

Names == {<< >>, <<"a", "&">>, <<"<", "\"">>, <<">", "'">>, <<"&", "lt", ";">>}

ThreadLists == {<<IdleThread>>} \cup {<<Main(n)>> : n \in Names}
                 \cup {<<Main(n), Other>> : n \in Names}

MCSnapshots == [threads : ThreadLists, hung : {{}, {"0"}}, stopped : {"8001", "8002"}]

=============================================================================
