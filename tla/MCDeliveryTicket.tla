---------------------------- MODULE MCDeliveryTicket ----------------------------
EXTENDS DeliveryTicket

\* One operator, whose calls fail: three revisions, one pull request pushed to.
Alone == [operators |-> {"o1"}, pulls |-> {1}, heads |-> 2, unnamed |-> {},
          commands |-> 5, faults |-> 2]

\* The same with two pull requests in flight, and proofs that name no commit.
TwoPulls == [operators |-> {"o1"}, pulls |-> {1, 2}, heads |-> 1, unnamed |-> {0},
             commands |-> 6, faults |-> 1]

\* Two operators at once.
Two == [operators |-> {"o1", "o2"}, pulls |-> {1}, heads |-> 2, unnamed |-> {},
        commands |-> 5, faults |-> 0]

\* More pull requests than a page of the history holds.
LongHistory == [operators |-> {"o1"}, pulls |-> {1, 2, 3}, heads |-> 1, unnamed |-> {},
                commands |-> 6, faults |-> 0]

TicketScopes == {Alone, TwoPulls, Two, LongHistory}

\* In no run: the gate knows every merge under the contract that holds, however
\* many followed it.
NoMergeIsForgotten ==
    \A head \in 0..main : Integrated(head) => IntegrateGate(head)

=============================================================================
