----------------------------- MODULE MCHeartbeat -----------------------------
(***************************************************************************)
(* Heartbeat for TLC: the clock runs to MaxTime, and either one of the     *)
(* connections stalls or a component sends up to MaxSent messages over     *)
(* one.  a asks, b answers; c asks too, is another one called b, or is     *)
(* what b calls a.                                                         *)
(***************************************************************************)
EXTENDS Heartbeat

CONSTANTS a, b, c, MaxTime, MaxSent

VARIABLE sent     \* connections of the messages the components have sent

mcVars == <<heartbeatVars, sent>>

To(name, address) == [name |-> name, address |-> address]

Xml(mode, interval, responseTimeout, targets, timeout) ==
    [mode |-> mode, interval_ms |-> interval, response_timeout_ms |-> responseTimeout,
     targets |-> targets, timeout_ms |-> timeout]

Asks(interval, responseTimeout, targets) ==
    Xml("sender", <<interval>>, <<responseTimeout>>, <<targets>>, <<>>)

Listens(timeout) == Xml("receiver", <<>>, <<>>, <<>>, <<timeout>>)

Disabled == Xml("disabled", <<>>, <<>>, <<>>, <<>>)

Runs(xml, connections, hasHandler) ==
    [xml |-> xml, connections |-> connections, hasHandler |-> hasHandler]

Idle == Runs(Disabled, <<>>, FALSE)

Network(x, y, z) == [s \in Container |-> CASE s = a -> x [] s = b -> y [] s = c -> z]

AToB == <<To(b, b)>>
BToA == <<To(a, a)>>

MCSetup ==
    \* periods and timeouts, with room for the round trip and without
    {Network(Runs(Asks(i, r, <<b>>), AToB, FALSE), Runs(Listens(t), BToA, TRUE), Idle) :
        <<i, r, t>> \in {<<3, 1, 1>>, <<2, 4, 6>>, <<3, 4, 1>>}}
    \* two senders and one receiver
    \cup {Network(Runs(Asks(5, 4, <<b>>), AToB, FALSE),
                  Runs(Listens(6), <<To(a, a), To(c, c)>>, TRUE),
                  Runs(Asks(3, 4, <<b>>), AToB, FALSE))}
    \* two targets; two connections with one name; an unknown target
    \cup {Network(Runs(Asks(5, 4, <<b, c>>), conns, FALSE),
                  Runs(Listens(4), BToA, TRUE), Runs(Listens(6), BToA, TRUE)) :
             conns \in {<<To(b, b), To(c, c)>>, <<To(b, b), To(b, c)>>, AToB}}
    \* an interval of zero, one that is missing, no targets, a wrong mode
    \cup {Network(Runs(xml, AToB, FALSE), Runs(Listens(4), BToA, TRUE), Idle) :
             xml \in {Asks(0, 4, <<b>>), Xml("sender", <<>>, <<4>>, <<<<b>>>>, <<>>),
                      Xml("sender", <<2>>, <<4>>, <<>>, <<>>),
                      Xml("blorp", <<>>, <<>>, <<>>, <<>>), Disabled}}
    \* no handler, no way back, a way back to somebody else
    \cup {Network(Runs(Asks(4, 0, <<b>>), AToB, FALSE), y, Idle) :
             y \in {Runs(Listens(4), BToA, FALSE), Runs(Listens(4), <<>>, TRUE),
                    Runs(Listens(4), <<To(a, c)>>, TRUE),
                    Runs(Xml("receiver", <<>>, <<>>, <<>>, <<>>), BToA, TRUE)}}
    \* a way back to another sender
    \cup {Network(Runs(Asks(4, 4, <<b>>), AToB, FALSE),
                  Runs(Listens(4), <<To(a, c)>>, TRUE),
                  Runs(Asks(5, 4, <<a>>), <<To(a, a)>>, FALSE))}

MCHeartbeatInit == HeartbeatInit /\ sent = <<>>

InUse(l) == l[2] \in DOMAIN route[l[1]]

MCHeartbeatNext ==
    \/ /\ \/ (\E s \in Container : TaskStep(s)) \/ \E l \in Link : Arrive(l) \/ Lose(l) \/ Recover(l)
          \/ now < MaxTime /\ Advance
          \/ /\ sent = <<>> /\ disturbed = {}
             /\ \E l \in Link : InUse(l) /\ Stall(l)
          \/ now = MaxTime /\ UNCHANGED heartbeatVars
       /\ UNCHANGED sent
    \/ /\ Len(sent) < MaxSent /\ disturbed = {}
       /\ \E l \in Link : /\ \A k \in Range(sent) : k = l
                          /\ sent' = Append(sent, l)
                          /\ ComponentSends(l)

MCHeartbeatSpec == MCHeartbeatInit /\ [][MCHeartbeatNext]_mcVars
=============================================================================
