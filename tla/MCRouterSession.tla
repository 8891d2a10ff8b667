---------------------------- MODULE MCRouterSession ----------------------------
\* Forms for TLC: an ordinary one, and those that differ from it in one field.
EXTENDS RouterSession

Plain == [padded |-> FALSE, length |-> 1, has |-> {"word"}]

Ordinary ==
    [host |-> Plain, user |-> Plain, interface |-> Plain,
     mac |-> [written |-> "separated", octets |-> "unicast"], ip |-> "none"]

MCOrdinary == {Ordinary}

\* Texts at both ends of what fits, with characters of one class.
Around(most) ==
    [padded : BOOLEAN, length : {0, 1, most, most + 1}, has : {{c} : c \in Classes}]

MCSubmitted ==
    LET Varied(field, values) == {[Ordinary EXCEPT ![field] = v] : v \in values}
    IN  UNION {Varied("host", Around(253)), Varied("user", Around(64)),
               Varied("interface", Around(32)), Varied("mac", Macs), Varied("ip", Ips)}
================================================================================
