--------------------------- MODULE HeartbeatConfig ---------------------------
(***************************************************************************)
(* How a container comes by its heartbeat task: from the heartbeat section *)
(* of its configuration file (heartbeat/config.rs) and the connections of  *)
(* its topology (client_broker.rs), in HyperionContainer::create.          *)
(* An Option is a sequence of at most one element.  Durations are in units *)
(* of the clock of module Heartbeat.                                       *)
(***************************************************************************)
EXTENDS Naturals, Sequences, Functions

CONSTANTS Container,   \* a container is its own container_name
          Name,        \* what connections and targets may be called
          Second       \* the units in 1000 ms

ASSUME HeartbeatConfigAssumption == /\ Container \subseteq Name
                                    /\ Second \in Nat \ {0}

Option(S) == {o \in Seq(S) : Len(o) <= 1}

\* What a configuration file may have for HeartbeatXml.
HeartbeatXml == [mode : STRING,
                 interval_ms : Option(Nat),
                 response_timeout_ms : Option(Nat),
                 targets : Option(Seq(Name)),
                 timeout_ms : Option(Nat)]

\* The connections of a ClientConnections; an address is the container that
\* listens there.
Connections == Seq([name : Name, address : Container])

UnwrapOr(option, default) == IF option = <<>> THEN default ELSE option[1]

\* HeartbeatConfig::sender and HeartbeatConfig::receiver
SenderConfig(interval, responseTimeout, targets) ==
    [mode |-> "sender", receiver |-> <<>>,
     sender |-> <<[interval |-> interval, responseTimeout |-> responseTimeout,
                   targets |-> targets]>>]

ReceiverConfig(timeout) ==
    [mode |-> "receiver", sender |-> <<>>, receiver |-> <<[timeout |-> timeout]>>]

\* HeartbeatXml::to_config panics, and with it the start of the container.
ToConfigPanics(xml) ==
    \/ xml.mode = "sender" /\ <<>> \in {xml.interval_ms, xml.response_timeout_ms}
    \/ xml.mode = "receiver" /\ xml.timeout_ms = <<>>
    \/ xml.mode \notin {"sender", "receiver", "disabled"}

ToConfig(xml) ==
    CASE xml.mode = "sender" -> <<SenderConfig(xml.interval_ms[1], xml.response_timeout_ms[1],
                                               UnwrapOr(xml.targets, <<>>))>>
      [] xml.mode = "receiver" -> <<ReceiverConfig(xml.timeout_ms[1])>>
      [] xml.mode = "disabled" -> <<>>

\* The keys of client_senders, each with the address of the client that holds
\* the other end: of the connections with one name the last has replaced the
\* ones before it.
ClientSenders(connections) ==
    [n \in {conn.name : conn \in Range(connections)} |->
        LET called == {i \in DOMAIN connections : connections[i].name = n}
        IN connections[CHOOSE i \in called : \A j \in called : j <= i].address]

NoTask == [kind |-> "none"]

\* HeartbeatSender::new skips the targets that are no connection.  The period
\* of an interval must not be zero, else the task panics as it starts.
SenderTask(config, senders) ==
    IF config.interval = 0
      THEN NoTask
      ELSE [kind |-> "sender", interval |-> config.interval,
            responseTimeout |-> config.responseTimeout,
            targets |-> Range(config.targets) \cap DOMAIN senders]

CheckInterval_OncePerWindow(timeout) == timeout

\* (timeout_ms / 3).max(1000)
CheckInterval(timeout) == IF timeout \div 3 > Second THEN timeout \div 3 ELSE Second

ReceiverTask(config) ==
    [kind |-> "receiver", timeout |-> config.timeout, interval |-> CheckInterval(config.timeout)]

\* spawn_heartbeat_tasks: a receiver needs the application's timeout handler.
SpawnHeartbeatTasks(option, senders, hasHandler) ==
    LET config == UnwrapOr(option, [mode |-> "disabled"])
    IN CASE config.mode = "sender" /\ config.sender # <<>> ->
              SenderTask(config.sender[1], senders)
         [] config.mode = "receiver" /\ config.receiver # <<>> /\ hasHandler ->
              ReceiverTask(config.receiver[1])
         [] OTHER -> NoTask
=============================================================================
