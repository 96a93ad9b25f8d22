------------------------------- MODULE Channel -------------------------------
(***************************************************************************)
(* What a connection promises the two agents: whole messages, each way in  *)
(* the order they were sent, none twice, none made up and none left out,   *)
(* until one side closes.  Connection is shown to implement it.            *)
(***************************************************************************)
EXTENDS Naturals, Sequences

CONSTANTS Directions, From(_), To(_),  \* who sends and who receives each way
          Messages

VARIABLES sent, received, open

channelVars == <<sent, received, open>>

ChannelInit ==
    /\ sent = [d \in Directions |-> <<>>]
    /\ received = [d \in Directions |-> <<>>]
    /\ \A d \in Directions : open[From(d)] /\ open[To(d)]

Send(d, m) ==
    /\ open[From(d)]
    /\ sent' = [sent EXCEPT ![d] = Append(@, m)]
    /\ UNCHANGED <<received, open>>

Deliver(d) ==
    /\ open[To(d)]
    /\ Len(received[d]) < Len(sent[d])
    /\ received' = [received EXCEPT ![d] = Append(@, sent[d][Len(@) + 1])]
    /\ UNCHANGED <<sent, open>>

Close(d) ==
    /\ open[From(d)]
    /\ open' = [open EXCEPT ![From(d)] = FALSE]
    /\ UNCHANGED <<sent, received>>

ChannelNext ==
    \E d \in Directions : \/ \E m \in Messages : Send(d, m)
                          \/ Deliver(d) \/ Close(d)

ChannelSpec == ChannelInit /\ [][ChannelNext]_channelVars
===============================================================================
